---------------------------- MODULE MCInvoicePaid ----------------------------
(***************************************************************************)
(* An instance of InvoicePaid for TLC that starts in two places, so that   *)
(* the uses of the code and the rewards, which share nothing but the jobs, *)
(* are not multiplied with each other: with the month of x credited, and   *)
(* with its use of the code lost, both invoices of a later subscription    *)
(* being queued.                                                           *)
(***************************************************************************)
EXTENDS InvoicePaid

CONSTANTS x, y

\* x, referred, pays two invoices; y wants the last use of the same code.
MCInvoices ==
    {[user |-> x, first |-> TRUE, period |-> 1],
     [user |-> x, first |-> FALSE, period |-> 2]}

MonthCredited ==
    /\ PartnerInit
    /\ job = [i \in Invoices |-> NoJob]
    /\ role = "member" /\ reward = "APPLIED"
    /\ credits = 1 /\ key = "forgotten" /\ buried = FALSE /\ unseen = FALSE
    /\ commission = [period \in Periods |-> None]

UseLost ==
    /\ RewardInit
    /\ job \in [Invoices -> {[NoJob EXCEPT !.step = "queued", !.paid = paid] : paid \in BOOLEAN}]
    /\ open = {} /\ reserved = {} /\ late = {} /\ recounted = {}
    /\ subscription = [u \in Users |-> IF u = x THEN "ended" ELSE "none"]
    /\ redemption = [u \in Users |-> IF u = x THEN "LOST" ELSE "none"]
    /\ ending = [u \in Users |-> {}]
    /\ alone = TRUE

MCInit == (MonthCredited \/ UseLost) /\ faults = 0

MCSpec == MCInit /\ [][Next]_vars /\ Fairness
=============================================================================
