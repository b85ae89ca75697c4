-------------------------------- MODULE Mailer --------------------------------
(***************************************************************************)
(* How an e-mail leaves (ResendService.send and deliver, EmailProcessor):  *)
(* send puts it in the BullMQ queue "email" and never throws; a worker     *)
(* hands it to Resend, at most Tries times, under a key of its own by      *)
(* which Resend knows a repeated attempt.  When the queue cannot be        *)
(* reached the e-mail goes to Resend at once, without a key.               *)
(***************************************************************************)
EXTENDS Integers, FiniteSets

CONSTANTS
    Letters,        \* what an e-mail is about: here the invoice it asks to confirm
    MaxMails,       \* jobs the queue may receive (a bound)
    Tries,          \* attempts of a job of the queue (5)
    DirectTries     \* attempts of a direct delivery (4)

ASSUME MailerAssumption ==
    /\ Tries \in Nat \ {0}
    /\ DirectTries \in Nat \ {0}
    /\ MaxMails \in Nat

VARIABLES
    mail,           \* the jobs of the queue
    inbox           \* copies of each letter the customer has received

mailer == <<mail, inbox>>

\* BullMQ numbers the jobs of a queue.
Mails == 1 .. MaxMails

Unused == [state |-> "unused"]
\* taken: Resend has accepted the e-mail of this job, and knows its key.
MailJob ==
    [state : {"waiting"}, letter : Letters,
     tries : 0 .. Tries - 1, stalls : 0 .. 1, taken : BOOLEAN]
        \cup [state : {"over"}, letter : Letters]

MailerInit ==
    /\ mail = [m \in Mails |-> Unused]
    /\ inbox = [l \in Letters |-> 0]

\* ResendService.send puts the e-mail in the queue.
Post(m, l) ==
    /\ mail[m] = Unused
    /\ \A k \in 1 .. m - 1 : mail[k] # Unused
    /\ mail' = [mail EXCEPT ![m] = [state |-> "waiting", letter |-> l, tries |-> 0,
                                    stalls |-> 0, taken |-> FALSE]]

Waiting(m) == mail[m] # Unused /\ mail[m].state = "waiting"

\* The job leaves the queue, sent or given up.
Over(m) == [state |-> "over", letter |-> mail[m].letter]
Again(m, took) == [mail[m] EXCEPT !.taken = @ \/ took]

\* Faulty: every attempt is a new e-mail for Resend.
AcceptAgain(m) == inbox' = [inbox EXCEPT ![mail[m].letter] = @ + 1]

\* Resend accepts the e-mail of m, unless it knows the key already.
Accept(m) ==
    inbox' = IF mail[m].taken THEN inbox ELSE [inbox EXCEPT ![mail[m].letter] = @ + 1]

\* An attempt that Resend accepts and whose answer is heard.
Accepted(m) ==
    /\ Waiting(m)
    /\ Accept(m)
    /\ mail' = [mail EXCEPT ![m] = Over(m)]

\* A passing error, or an answer that is lost: another attempt; on the last one
\* the e-mail is given up, and the job is done all the same.
PassingError(m) ==
    /\ Waiting(m)
    /\ \E took \in BOOLEAN :
          /\ IF took THEN Accept(m) ELSE UNCHANGED inbox
          /\ mail' = [mail EXCEPT ![m] =
                IF mail[m].tries + 1 < Tries THEN [Again(m, took) EXCEPT !.tries = @ + 1]
                                             ELSE Over(m)]

\* Any other error (address, quota): no other attempt.
Refused(m) ==
    /\ Waiting(m)
    /\ mail' = [mail EXCEPT ![m] = Over(m)]
    /\ UNCHANGED inbox

\* The worker dies during an attempt: the job has stalled, and runs again once.
MailWorkerDies(m) ==
    /\ Waiting(m)
    /\ \E took \in BOOLEAN :
          /\ IF took THEN Accept(m) ELSE UNCHANGED inbox
          /\ mail' = [mail EXCEPT ![m] =
                IF mail[m].stalls = 0 THEN [Again(m, took) EXCEPT !.stalls = 1] ELSE Over(m)]

Deliver(m) == Accepted(m) \/ PassingError(m) \/ Refused(m) \/ MailWorkerDies(m)

\* deliver without the queue: each attempt whose answer is lost may leave a copy.
DeliverDirect(l) ==
    \E copies \in 0 .. DirectTries : inbox' = [inbox EXCEPT ![l] = @ + copies]

MailerTypeOK ==
    /\ mail \in [Mails -> MailJob \cup {Unused}]
    /\ inbox \in [Letters -> Nat]
=============================================================================
