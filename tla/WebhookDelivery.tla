--------------------------- MODULE WebhookDelivery ---------------------------
(***************************************************************************)
(* How a Stripe event reaches its handler (StripeWebhookService            *)
(* .handleWebhook and StripeProcessor).  Stripe sends an event again until *)
(* it hears a 2xx.  Each delivery inserts the event's row in StripeEvent,  *)
(* the idempotence mark, then puts a job in the BullMQ queue; when that    *)
(* throws, whether the job was stored or not, it takes the mark away and   *)
(* answers 5xx.  A worker runs the job, several times if the handler       *)
(* throws.                                                                 *)
(***************************************************************************)
EXTENDS Integers, FiniteSets

CONSTANTS
    Events,         \* Stripe event ids
    Deliveries,     \* HTTP requests the API may be handling at once
    MaxSends,       \* Stripe gives up after that many deliveries
    Attempts,       \* attempts of a job (5)
    Slow,           \* events whose requests may outlast the wait of Stripe
    Crashes,        \* events during which a process may die
    DbFails,        \* events whose mark may fail to be deleted, or be inserted
                    \* by a request that does not hear of it
    AddsLost,       \* events whose job may be stored by an add that throws
    MaxJobs         \* bound: jobs of an event

ASSUME DeliveryAssumption ==
    /\ MaxSends \in Nat
    /\ Attempts \in Nat \ {0}
    /\ MaxJobs \in Nat \ {0}
    /\ Slow \cup Crashes \cup DbFails \cup AddsLost \subseteq Events

VARIABLES
    sent,           \* deliveries of each event so far
    acked,          \* events Stripe heard a 2xx for
    marked,         \* rows of StripeEvent
    job,            \* the jobs of each event
    strays,         \* history: jobs that were added by a request told otherwise
    delivery        \* the request each Delivery is

vars == <<sent, acked, marked, job, strays, delivery>>
queue == <<job, strays>>

\* An event has one job, and one more for each add that threw.  They have no
\* jobId: BullMQ numbers them.
JobIds == [e : Events, n : 1 .. MaxJobs]

NoJob == [state |-> "none", tries |-> 0, stalls |-> 0]
Job   == [state  : {"none", "waiting", "active", "done", "failed"},
          tries  : 0 .. Attempts,
          stalls : 0 .. 1]

Free    == [at |-> "free"]
Request == [at : {"mark", "enqueue", "unmark"}, e : Events, heard : BOOLEAN]

Init ==
    /\ sent = [e \in Events |-> 0]
    /\ acked = {}
    /\ marked = {}
    /\ job = [j \in JobIds |-> NoJob]
    /\ strays = {}
    /\ delivery = [d \in Deliveries |-> Free]

-----------------------------------------------------------------------------
(* Stripe.                                                                 *)

HeardDeliveries(e) ==
    {d \in Deliveries : delivery[d] # Free /\ delivery[d].e = e /\ delivery[d].heard}

\* Stripe sends an event again while it has no 2xx and waits for no answer.
Send(d, e) ==
    /\ delivery[d] = Free
    /\ e \notin acked
    /\ HeardDeliveries(e) = {}
    /\ sent[e] < MaxSends
    /\ sent' = [sent EXCEPT ![e] = @ + 1]
    /\ delivery' = [delivery EXCEPT ![d] = [at |-> "mark", e |-> e, heard |-> TRUE]]
    /\ UNCHANGED <<acked, marked, queue>>

\* Stripe stops waiting for an answer; the request goes on.
StopWaiting(d) ==
    /\ delivery[d] # Free
    /\ delivery[d].e \in Slow
    /\ delivery[d].heard
    /\ delivery' = [delivery EXCEPT ![d].heard = FALSE]
    /\ UNCHANGED <<sent, acked, marked, queue>>

-----------------------------------------------------------------------------
(* handleWebhook.                                                          *)

Answer2xx(d) ==
    /\ acked' = IF delivery[d].heard THEN acked \cup {delivery[d].e} ELSE acked
    /\ delivery' = [delivery EXCEPT ![d] = Free]

Answer5xx(d) ==
    /\ delivery' = [delivery EXCEPT ![d] = Free]
    /\ UNCHANGED acked

\* Faulty: the mark is not checked.
MarkAnyway(d) ==
    /\ delivery[d].at = "mark"
    /\ marked' = marked \cup {delivery[d].e}
    /\ delivery' = [delivery EXCEPT ![d].at = "enqueue"]
    /\ UNCHANGED <<sent, acked, queue>>

\* markEventAsProcessing: the insert succeeds ...
Mark(d) ==
    /\ delivery[d].at = "mark"
    /\ delivery[d].e \notin marked
    /\ marked' = marked \cup {delivery[d].e}
    /\ delivery' = [delivery EXCEPT ![d].at = "enqueue"]
    /\ UNCHANGED <<sent, acked, queue>>

\* ... or the row exists: "déjà traité : skip".
Skip(d) ==
    /\ delivery[d].at = "mark"
    /\ delivery[d].e \in marked
    /\ Answer2xx(d)
    /\ UNCHANGED <<sent, marked, queue>>

\* ... or the database refuses, or has inserted it and cannot say so.
MarkFails(d) ==
    /\ delivery[d].at = "mark"
    /\ \/ UNCHANGED marked
       \/ delivery[d].e \in DbFails /\ marked' = marked \cup {delivery[d].e}
    /\ Answer5xx(d)
    /\ UNCHANGED <<sent, queue>>

\* webhookQueue.add.
Add(j) ==
    /\ job[j].state = "none"
    /\ \A i \in JobIds : i.e = j.e /\ i.n < j.n => job[i].state # "none"
    /\ job' = [job EXCEPT ![j].state = "waiting"]

Enqueue(d) ==
    /\ delivery[d].at = "enqueue"
    /\ \E j \in JobIds : j.e = delivery[d].e /\ Add(j)
    /\ Answer2xx(d)
    /\ UNCHANGED <<sent, marked, strays>>

\* Faulty: the error is swallowed.
EnqueueFailsSilently(d) ==
    /\ delivery[d].at = "enqueue"
    /\ Answer2xx(d)
    /\ UNCHANGED <<sent, marked, queue>>

\* The add throws.  The queue cannot be reached, or has the job all the same: the
\* answer of Redis was lost.
EnqueueFails(d) ==
    /\ delivery[d].at = "enqueue"
    /\ \/ UNCHANGED queue
       \/ \E j \in JobIds :
             /\ j.e = delivery[d].e /\ j.e \in AddsLost /\ j.n < MaxJobs
             /\ Add(j)
             /\ strays' = strays \cup {j}
    /\ delivery' = [delivery EXCEPT ![d].at = "unmark"]
    /\ UNCHANGED <<sent, acked, marked>>

\* unmarkEvent, whose own failure is swallowed; the error is thrown again.
Unmark(d) ==
    /\ delivery[d].at = "unmark"
    /\ \/ marked' = marked \ {delivery[d].e}
       \/ delivery[d].e \in DbFails /\ UNCHANGED marked
    /\ Answer5xx(d)
    /\ UNCHANGED <<sent, queue>>

\* The process dies, before or after what the request was about to do.
CrashDelivery(d) ==
    /\ delivery[d] # Free
    /\ delivery[d].e \in Crashes
    /\ \/ UNCHANGED job
       \/ /\ delivery[d].at = "enqueue"
          /\ \E j \in JobIds : j.e = delivery[d].e /\ Add(j)
    /\ Answer5xx(d)
    /\ UNCHANGED <<sent, marked, strays>>

-----------------------------------------------------------------------------
(* StripeProcessor: BullMQ gives a job to one worker at a time.            *)

SetJob(j, from, to) ==
    /\ job[j].state = from
    /\ job' = [job EXCEPT ![j] = to]
    /\ UNCHANGED <<sent, acked, marked, strays, delivery>>

TakeJob(j)  == SetJob(j, "waiting", [job[j] EXCEPT !.state = "active"])
HandlerDone(j) == SetJob(j, "active", [job[j] EXCEPT !.state = "done"])

\* Faulty: one attempt too many; attempts not counted.
HandlerThrowsLate(j) ==
    SetJob(j, "active",
           [job[j] EXCEPT !.tries = @ + 1,
                          !.state = IF job[j].tries <= Attempts THEN "waiting" ELSE "failed"])
HandlerThrowsForever(j) == SetJob(j, "active", [job[j] EXCEPT !.state = "waiting"])

\* The handler throws: another attempt after a delay, up to Attempts.
HandlerThrows(j) ==
    SetJob(j, "active",
           [job[j] EXCEPT !.tries = @ + 1,
                          !.state = IF job[j].tries + 1 < Attempts THEN "waiting" ELSE "failed"])

\* The worker dies: the job has stalled, and BullMQ runs it again once.
WorkerDies(j) ==
    /\ j.e \in Crashes
    /\ SetJob(j, "active",
              IF job[j].stalls = 0 THEN [job[j] EXCEPT !.state = "waiting", !.stalls = 1]
                                   ELSE [job[j] EXCEPT !.state = "failed"])

-----------------------------------------------------------------------------
HandleStep(d) == Mark(d) \/ Skip(d) \/ Enqueue(d) \/ EnqueueFails(d) \/ Unmark(d)
RunJob(j)     == TakeJob(j) \/ HandlerDone(j) \/ HandlerThrows(j) \/ WorkerDies(j)

Next ==
    \/ \E d \in Deliveries :
          \/ \E e \in Events : Send(d, e)
          \/ StopWaiting(d) \/ HandleStep(d) \/ MarkFails(d) \/ CrashDelivery(d)
    \/ \E j \in JobIds : RunJob(j)

\* Requests being handled end, Stripe sends again, and workers take jobs and
\* end them one way or the other.
Fairness ==
    /\ \A d \in Deliveries : WF_vars(HandleStep(d))
    /\ \A e \in Events : WF_vars(\E d \in Deliveries : Send(d, e))
    /\ \A j \in JobIds : WF_vars(RunJob(j))

Spec == Init /\ [][Next]_vars /\ Fairness

-----------------------------------------------------------------------------
(* Properties.                                                             *)

TypeOK ==
    /\ sent \in [Events -> 0 .. MaxSends]
    /\ acked \subseteq Events
    /\ marked \subseteq Events
    /\ job \in [JobIds -> Job]
    /\ strays \subseteq JobIds
    /\ delivery \in [Deliveries -> Request \cup {Free}]

JobsOf(e) == {j \in JobIds : j.e = e /\ job[j].state # "none"}

\* "Deux livraisons simultanées du même event ne peuvent pas enfiler deux jobs":
\* the unique insert before the queue leaves an event one job at most, however its
\* deliveries overlap, fail and are compensated; a further job is one that Redis
\* stored while the add threw.  And no request adds another beside the one job.
OneJobPerEvent ==
    \A e \in Events, j \in JobIds \ strays : j \in JobsOf(e) =>
        /\ JobsOf(e) \subseteq strays \cup {j}
        /\ \A d \in Deliveries : ~(delivery[d].at = "enqueue" /\ delivery[d].e = e)

\* An event that has a job, or whose request is about to add it.
Queued(e) ==
    \/ JobsOf(e) # {}
    \/ \E d \in Deliveries : delivery[d].at = "enqueue" /\ delivery[d].e = e

\* An event that Stripe heard a 2xx for, and will not send again, is queued: a
\* failed enqueue takes the mark away "pour que la redélivrance Stripe du même
\* event soit bien retraitée".
AckedIsQueued == \A e \in acked : Queued(e)

\* The same, for the events whose requests end before Stripe sends again, in a
\* process that lives on and with a database that answers.
CleanAckedIsQueued ==
    \A e \in acked \ (Slow \cup Crashes \cup DbFails) : Queued(e)

\* The jobs of an event end: the handler succeeds, or its attempts are used up and
\* it is kept as failed.
JobsEnd ==
    \A e \in Events :
        JobsOf(e) # {} ~> \A j \in JobsOf(e) : job[j].state \in {"done", "failed"}
=============================================================================
