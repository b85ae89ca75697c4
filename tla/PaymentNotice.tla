---------------------------- MODULE PaymentNotice ----------------------------
(***************************************************************************)
(* The e-mail "confirm your payment" (3D Secure), from the events          *)
(* invoice.payment_action_required to the customer: the deliveries and     *)
(* jobs of WebhookDelivery, the handler onPaymentActionRequired step by    *)
(* step with its sendOnce, and the e-mail queue of Mailer.  A worker that  *)
(* stops answering for longer than BullMQ's lock loses its job to another  *)
(* one and may go on all the same.                                         *)
(***************************************************************************)
EXTENDS WebhookDelivery, Mailer

CONSTANTS
    MaxWorkers,     \* jobs of the queue "stripe" that may run at once
    InvoiceOf,      \* the invoice of each event
    MaxFaults       \* answers of Redis that fail

ASSUME NoticeAssumption ==
    /\ InvoiceOf \in [Events -> Letters]
    /\ MaxFaults \in Nat
    /\ MaxWorkers \in Nat

VARIABLES
    notices,        \* the events of that type: what Stripe sends, never changed
    work,           \* what each worker is doing
    once,           \* keys stripe:mail-once:payment-action:<invoice>
    excused,        \* history: why the e-mail of an invoice may be missing or double
    faults          \* history: answers of Redis that failed

notice == <<notices, work, once, excused, faults>>
nvars  == <<vars, mailer, notice>>

\* Places for a running job; a job takes the first free one.
Workers == 1 .. MaxWorkers
Idle == [at |-> "idle"]
\* holds: the worker still has BullMQ's lock on the job.
Run == [at : {"start", "send", "end"}, job : JobIds, holds : BOOLEAN]
\* lost: a run of the job ended with the key taken and no e-mail queued, or found
\* no account; redis: an answer of Redis failed.
Reasons == {"lost", "redis"}

WorkInit ==
    /\ work = [w \in Workers |-> Idle]
    /\ once = {}
    /\ excused = [l \in Letters |-> {}]
    /\ faults = 0

NoticeInit == Init /\ notices \in SUBSET Events /\ MailerInit /\ WorkInit

-----------------------------------------------------------------------------
At(w, step) == work[w].at = step
Invoice(w)  == InvoiceOf[work[w].job.e]
GoTo(w, step) == work' = [work EXCEPT ![w].at = step]
Excuse(w, why) == excused' = [excused EXCEPT ![Invoice(w)] = @ \cup {why}]
RedisFault ==
    /\ faults < MaxFaults
    /\ faults' = faults + 1

Take(w, j) ==
    /\ j.e \in notices
    /\ work[w] = Idle
    /\ \A v \in 1 .. w - 1 : work[v] # Idle
    /\ TakeJob(j)
    /\ work' = [work EXCEPT ![w] = [at |-> "start", job |-> j, holds |-> TRUE]]
    /\ UNCHANGED <<mailer, notices, once, excused, faults>>

\* Faulty: the handler fails with the key in place.
FailsAnywhere(w) ==
    /\ work[w].at \in {"start", "send"}
    /\ IF work[w].holds THEN HandlerThrows(work[w].job) ELSE UNCHANGED vars
    /\ work' = [work EXCEPT ![w] = Idle]
    /\ UNCHANGED <<mailer, notices, once, excused, faults>>

\* The customer cannot be read: the handler throws.
ReadFails(w) ==
    /\ At(w, "start")
    /\ IF work[w].holds THEN HandlerThrows(work[w].job) ELSE UNCHANGED vars
    /\ work' = [work EXCEPT ![w] = Idle]
    /\ UNCHANGED <<mailer, notices, once, excused, faults>>

\* The account is gone by now: no e-mail.
NobodyToMail(w) ==
    /\ At(w, "start")
    /\ GoTo(w, "end")
    /\ Excuse(w, "lost")
    /\ UNCHANGED <<vars, mailer, notices, once, faults>>

\* Faulty: the key is not looked at.
MarkAnyMail(w) ==
    /\ At(w, "start")
    /\ once' = once \cup {Invoice(w)}
    /\ GoTo(w, "send")
    /\ UNCHANGED <<vars, mailer, notices, excused, faults>>

\* sendOnce: SET NX takes the key ...
MarkMail(w) ==
    /\ At(w, "start")
    /\ Invoice(w) \notin once
    /\ once' = once \cup {Invoice(w)}
    /\ GoTo(w, "send")
    /\ UNCHANGED <<vars, mailer, notices, excused, faults>>

\* ... or finds it: the e-mail was sent.
AlreadyMarked(w) ==
    /\ At(w, "start")
    /\ Invoice(w) \in once
    /\ GoTo(w, "end")
    /\ UNCHANGED <<vars, mailer, notices, once, excused, faults>>

\* ... or Redis does not answer, having set the key or not: the e-mail is sent.
OnceFails(w) ==
    /\ At(w, "start")
    /\ RedisFault
    /\ once' \in {once, once \cup {Invoice(w)}}
    /\ GoTo(w, "send")
    /\ Excuse(w, "redis")
    /\ UNCHANGED <<vars, mailer, notices>>

\* ResendService.send queues the e-mail ...
PostMail(w) ==
    /\ At(w, "send")
    /\ \E m \in Mails : Post(m, Invoice(w))
    /\ GoTo(w, "end")
    /\ UNCHANGED <<vars, inbox, notices, once, excused, faults>>

\* ... or Redis does not answer, having queued it or not, and it goes directly.
\* Neither way throws, so that sendOnce has no error after which to take the key
\* away.
PostFails(w) ==
    /\ At(w, "send")
    /\ RedisFault
    /\ UNCHANGED mail \/ \E m \in Mails : Post(m, Invoice(w))
    /\ DeliverDirect(Invoice(w))
    /\ GoTo(w, "end")
    /\ Excuse(w, "redis")
    /\ UNCHANGED <<vars, notices, once>>

\* The handler returns; without the lock BullMQ does not let the job end.
Finish(w) ==
    /\ At(w, "end")
    /\ IF work[w].holds THEN HandlerDone(work[w].job) ELSE UNCHANGED vars
    /\ work' = [work EXCEPT ![w] = Idle]
    /\ UNCHANGED <<mailer, notices, once, excused, faults>>

\* The worker loses the lock: it goes on without it, or it is dead.
LoseLock(w) ==
    /\ work[w] # Idle
    /\ work[w].holds
    /\ WorkerDies(work[w].job)
    /\ \/ /\ work' = [work EXCEPT ![w].holds = FALSE]
          /\ UNCHANGED excused
       \/ /\ work' = [work EXCEPT ![w] = Idle]
          /\ IF At(w, "send") THEN Excuse(w, "lost") ELSE UNCHANGED excused
    /\ UNCHANGED <<mailer, notices, once, faults>>

\* A worker that has lost the lock dies.
DieLate(w) ==
    /\ work[w] # Idle
    /\ ~ work[w].holds
    /\ work' = [work EXCEPT ![w] = Idle]
    /\ IF At(w, "send") THEN Excuse(w, "lost") ELSE UNCHANGED excused
    /\ UNCHANGED <<vars, mailer, notices, once, faults>>

-----------------------------------------------------------------------------
WorkStep(w) ==
    \/ ReadFails(w) \/ NobodyToMail(w)
    \/ MarkMail(w) \/ AlreadyMarked(w) \/ OnceFails(w)
    \/ PostMail(w) \/ PostFails(w)
    \/ Finish(w) \/ LoseLock(w) \/ DieLate(w)

DeliveryStep(d) ==
    /\ \/ \E e \in Events : Send(d, e)
       \/ StopWaiting(d) \/ HandleStep(d) \/ MarkFails(d) \/ CrashDelivery(d)
    /\ UNCHANGED <<mailer, notice>>

\* The handlers of the other types, one step as in WebhookDelivery.
OtherJob(j) ==
    /\ j.e \notin notices
    /\ RunJob(j)
    /\ UNCHANGED <<mailer, notice>>

NoticeNext ==
    \/ \E d \in Deliveries : DeliveryStep(d)
    \/ \E w \in Workers : WorkStep(w) \/ \E j \in JobIds : Take(w, j)
    \/ \E j \in JobIds : OtherJob(j)
    \/ \E m \in Mails : Deliver(m) /\ UNCHANGED <<vars, notice>>

\* Requests being handled end and jobs are taken and run to an end; which one first
\* is left open, as are the steps of Stripe and of the e-mail queue.
NoticeFairness ==
    /\ WF_nvars(\E d \in Deliveries : HandleStep(d) /\ UNCHANGED <<mailer, notice>>)
    /\ WF_nvars(\E w \in Workers : WorkStep(w) \/ \E j \in JobIds : Take(w, j))
    /\ WF_nvars(\E j \in JobIds : OtherJob(j))

NoticeSpec == NoticeInit /\ [][NoticeNext]_nvars /\ NoticeFairness

-----------------------------------------------------------------------------
(* Properties.                                                             *)

\* Types of the deliveries, jobs, workers and e-mails; attempts stay in their bounds.
NoticeTypeOK ==
    /\ TypeOK
    /\ MailerTypeOK
    /\ notices \subseteq Events
    /\ work \in [Workers -> Run \cup {Idle}]
    /\ once \subseteq Letters
    /\ excused \in [Letters -> SUBSET Reasons]
    /\ faults \in 0 .. MaxFaults

\* "Un e-mail par clé, même si la tâche est rejouée par BullMQ ou l'événement
\* renvoyé par Stripe": as long as Redis answers, the customer receives one e-mail
\* about an invoice, whatever events name it, jobs stored by an add that threw, jobs
\* run twice, workers that go on without their lock, and attempts whose answer is
\* lost.
NoticeOnce ==
    \A l \in Letters : "redis" \notin excused[l] => inbox[l] <= 1

\* An event whose job is done has its e-mail in the queue, or a worker about to
\* put it there; except when a worker died in between, Redis failed or the account
\* is gone.
HandledIsPosted ==
    \A j \in JobIds :
        j.e \in notices /\ job[j].state = "done" =>
            \/ excused[InvoiceOf[j.e]] # {}
            \/ \E m \in Mails : mail[m] # Unused /\ mail[m].letter = InvoiceOf[j.e]
            \/ \E w \in Workers : At(w, "send") /\ Invoice(w) = InvoiceOf[j.e]
=============================================================================
