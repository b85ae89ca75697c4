--------------------------- MODULE MCPaymentNotice ---------------------------
(***************************************************************************)
(* An instance of PaymentNotice for TLC that starts in two places, so that *)
(* intake and handling are not multiplied with each other: in Init with    *)
(* events of other types, which is WebhookDelivery, and with notices that  *)
(* have been delivered, acknowledged and queued.                           *)
(***************************************************************************)
EXTENDS PaymentNotice, TLC

CONSTANTS e1, e2, d1, d2, inv

MCInvoiceOf == [e \in Events |-> inv]

\* Both events were acknowledged and queued.
BothQueued ==
    /\ acked = Events
    /\ job = [j \in JobIds |-> IF j.n = 1 THEN [NoJob EXCEPT !.state = "waiting"] ELSE NoJob]
    /\ strays = {}

\* e1 has two jobs on their last attempt; the first, stored by an add that threw,
\* has also stalled once.  Stripe gave e2 up.
TwiceQueued ==
    /\ acked = {e1}
    /\ job = [j \in JobIds |->
          IF j.e = e1 THEN [state |-> "waiting", tries |-> Attempts - 1, stalls |-> 2 - j.n]
          ELSE NoJob]
    /\ strays = {[e |-> e1, n |-> 1]}

MCInit ==
    /\ \/ notices = {} /\ Init
       \/ /\ notices = Events
          /\ BothQueued \/ TwiceQueued
          /\ sent = [e \in Events |-> MaxSends]
          /\ marked = acked
          /\ delivery = [d \in Deliveries |-> Free]
    /\ MailerInit
    /\ WorkInit

MCSpec == MCInit /\ [][NoticeNext]_nvars /\ NoticeFairness
=============================================================================
