------------------------- MODULE PaymentNoticeProofs -------------------------
(* Theorems about WebhookDelivery and, with them, about PaymentNotice that  *)
(* refines it: for any events, invoices, workers and bounds.               *)
EXTENDS PaymentNotice, TLAPS

(* Deliveries and jobs: WebhookDelivery.                                   *)

\* d is a request for e; d has marked e and is not done with it.
Handles(d, e) == delivery[d].at # "free" /\ delivery[d].e = e
Owns(d, e)    == delivery[d].at \in {"enqueue", "unmark"} /\ delivery[d].e = e

Clean == Events \ (Slow \cup Crashes \cup DbFails)

\* One request at a time owns an event; its mark stands, and what jobs there are
\* were added by requests told otherwise.  A job added by one that was told so is
\* the only one of that kind, and the mark stays.
OwnerInv ==
    /\ \A e \in Events, d, c \in Deliveries : Owns(d, e) /\ Owns(c, e) => d = c
    /\ \A e \in Events, d \in Deliveries :
          Owns(d, e) => e \in marked /\ JobsOf(e) \subseteq strays
    /\ \A e \in Events, j \in JobIds \ strays :
          j \in JobsOf(e) => e \in marked /\ JobsOf(e) \subseteq strays \cup {j}

\* A clean event has one request at a time, which Stripe waits for; its mark means
\* a job or an owner, and a 2xx means a job.
CleanInv ==
    \A e \in Clean :
        /\ \A d, c \in Deliveries : Handles(d, e) /\ Handles(c, e) => d = c
        /\ \A d \in Deliveries : Handles(d, e) => delivery[d].heard
        /\ e \in marked => JobsOf(e) # {} \/ \E d \in Deliveries : Owns(d, e)
        /\ e \in acked => JobsOf(e) # {}

\* A job that may run has attempts left.
TriesInv ==
    \A j \in JobIds :
        job[j].state \in {"none", "waiting", "active"} => job[j].tries < Attempts

LEMMA Shapes ==
    ASSUME NEW q \in Request \cup {Free}
    PROVE  /\ q = Free <=> q.at = "free"
           /\ q # Free => q \in Request /\ q.e \in Events /\ q.heard \in BOOLEAN
                          /\ q.at \in {"mark", "enqueue", "unmark"}
BY DEF Request, Free

LEMMA JobShapes ==
    ASSUME NEW i \in JobIds, job \in [JobIds -> Job]
    PROVE  /\ job[i].state \in {"none", "waiting", "active", "done", "failed"}
           /\ job[i].tries \in 0 .. Attempts
           /\ job[i].stalls \in 0 .. 1
           /\ i.e \in Events
BY DEF Job, JobIds

\* What an add does: one job more, which has all its attempts.
LEMMA AddShape ==
    ASSUME job \in [JobIds -> Job], NEW i \in JobIds, Add(i)
    PROVE  /\ job' \in [JobIds -> Job]
           /\ job[i].state = "none" /\ job'[i].state = "waiting"
           /\ job'[i].tries = job[i].tries
           /\ \A j \in JobIds : j # i => job'[j] = job[j]
           /\ \A e \in Events :
                 JobsOf(e)' = IF e = i.e THEN JobsOf(e) \cup {i} ELSE JobsOf(e)
<1> DEFINE to == [job[i] EXCEPT !.state = "waiting"]
<1>1. to \in Job /\ to.state = "waiting" /\ to.tries = job[i].tries
  BY DEF Job
<1>2. job' = [job EXCEPT ![i] = to] /\ job[i].state = "none"
  BY DEF Add
<1>3. /\ job' \in [JobIds -> Job] /\ job'[i] = to
      /\ \A j \in JobIds : j # i => job'[j] = job[j]
  BY <1>1, <1>2
<1>4. ASSUME NEW e \in Events
      PROVE  JobsOf(e)' = IF e = i.e THEN JobsOf(e) \cup {i} ELSE JobsOf(e)
  <2>1. \A j \in JobIds : job'[j].state # "none" <=> job[j].state # "none" \/ j = i
    BY <1>1, <1>3
  <2> QED
    BY <2>1 DEF JobsOf
<1> QED
  BY <1>1, <1>2, <1>3, <1>4

LEMMA StalledRecord ==
    ASSUME NEW S, NEW N, NEW K, NEW j \in [state : S, tries : N, stalls : K],
           "waiting" \in S, 1 \in K
    PROVE  /\ [j EXCEPT !.state = "waiting", !.stalls = 1] \in [state : S, tries : N, stalls : K]
           /\ [j EXCEPT !.state = "waiting", !.stalls = 1].tries = j.tries
           /\ [j EXCEPT !.state = "waiting", !.stalls = 1].state = "waiting"
OBVIOUS

LEMMA StalledJob ==
    ASSUME NEW j \in Job
    PROVE  /\ [j EXCEPT !.state = "waiting", !.stalls = 1] \in Job
           /\ [j EXCEPT !.state = "waiting", !.stalls = 1].tries = j.tries
           /\ [j EXCEPT !.state = "waiting", !.stalls = 1].state = "waiting"
<1>1. 1 \in 0 .. 1 /\ "waiting" \in {"none", "waiting", "active", "done", "failed"}
  OBVIOUS
<1> QED
  BY <1>1, StalledRecord DEF Job

\* Init has the right types.
LEMMA InitType == Init => TypeOK
BY DeliveryAssumption DEF Init, TypeOK, NoJob, Job

\* So has every step of Stripe and of a request ...
LEMMA DeliveryType ==
    ASSUME TypeOK, NEW d \in Deliveries,
           (\E e \in Events : Send(d, e)) \/ StopWaiting(d)
              \/ HandleStep(d) \/ MarkFails(d) \/ CrashDelivery(d)
    PROVE  TypeOK'
<1> DEFINE q == delivery[d]
<1>1. q \in Request \cup {Free} /\ delivery \in [Deliveries -> Request \cup {Free}]
  BY DEF TypeOK
<1>2. ASSUME NEW e \in Events, Send(d, e)
      PROVE  TypeOK'
  <2>1. [at |-> "mark", e |-> e, heard |-> TRUE] \in Request
    BY DEF Request
  <2>2. sent' \in [Events -> 0 .. MaxSends]
    BY <1>2, DeliveryAssumption DEF Send, TypeOK
  <2> QED
    BY <1>1, <1>2, <2>1, <2>2 DEF Send, TypeOK, queue
<1>3. CASE StopWaiting(d)
  <2>1. [q EXCEPT !.heard = FALSE] \in Request
    BY <1>1, <1>3, Shapes DEF StopWaiting, Request
  <2> QED
    BY <1>1, <1>3, <2>1 DEF StopWaiting, TypeOK, queue
<1>4. CASE Mark(d)
  <2>1. [q EXCEPT !.at = "enqueue"] \in Request /\ q.e \in Events
    BY <1>1, <1>4, Shapes DEF Mark, Request, Free
  <2> QED
    BY <1>1, <1>4, <2>1 DEF Mark, TypeOK, queue
<1>5. CASE Skip(d)
  <2>1. q.e \in Events
    BY <1>1, <1>5, Shapes DEF Skip
  <2> QED
    BY <1>1, <1>5, <2>1 DEF Skip, Answer2xx, TypeOK, queue
<1>6. CASE Enqueue(d)
  <2>1. q.e \in Events
    BY <1>1, <1>6, Shapes DEF Enqueue
  <2>2. job' \in [JobIds -> Job]
    BY <1>6, AddShape DEF Enqueue, TypeOK
  <2> QED
    BY <1>1, <1>6, <2>1, <2>2 DEF Enqueue, Answer2xx, TypeOK
<1>7. CASE EnqueueFails(d)
  <2>1. [q EXCEPT !.at = "unmark"] \in Request
    BY <1>1, <1>7, Shapes DEF EnqueueFails, Request, Free
  <2>2. job' \in [JobIds -> Job] /\ strays' \subseteq JobIds
    BY <1>7, AddShape DEF EnqueueFails, TypeOK, queue
  <2> QED
    BY <1>1, <1>7, <2>1, <2>2 DEF EnqueueFails, TypeOK
<1>8. CASE Unmark(d)
  BY <1>1, <1>8 DEF Unmark, Answer5xx, TypeOK, queue
<1>9. CASE MarkFails(d)
  <2>1. q.e \in Events
    BY <1>1, <1>9, Shapes DEF MarkFails
  <2> QED
    BY <1>1, <1>9, <2>1 DEF MarkFails, Answer5xx, TypeOK, queue
<1>10. CASE CrashDelivery(d)
  <2>1. job' \in [JobIds -> Job]
    BY <1>10, AddShape DEF CrashDelivery, TypeOK
  <2> QED
    BY <1>1, <1>10, <2>1 DEF CrashDelivery, Answer5xx, TypeOK
<1> QED
  BY <1>2, <1>3, <1>4, <1>5, <1>6, <1>7, <1>8, <1>9, <1>10 DEF HandleStep

\* ... and of a job.
LEMMA JobType ==
    ASSUME TypeOK, TriesInv, NEW i \in JobIds, RunJob(i)
    PROVE  /\ TypeOK' /\ TriesInv'
           /\ UNCHANGED <<sent, acked, marked, strays, delivery>>
           /\ \A e \in Events : JobsOf(e)' = JobsOf(e)
<1> DEFINE j == job[i]
<1>1. /\ j.state \in {"none", "waiting", "active", "done", "failed"}
      /\ j.tries \in 0 .. Attempts
      /\ j.stalls \in 0 .. 1
      /\ j \in Job
  BY JobShapes DEF TypeOK
<1>2. ASSUME NEW from \in {"waiting", "active"}, NEW to \in Job, SetJob(i, from, to),
             to.state # "none", to.state \in {"waiting", "active"} => to.tries < Attempts
      PROVE  /\ TypeOK' /\ TriesInv'
             /\ UNCHANGED <<sent, acked, marked, strays, delivery>>
             /\ \A e \in Events : JobsOf(e)' = JobsOf(e)
  <2>1. /\ job[i].state = from /\ job'[i] = to
        /\ \A k \in JobIds : k # i => job'[k] = job[k]
    BY <1>2 DEF SetJob, TypeOK
  <2>2. \A k \in JobIds : job'[k].state # "none" <=> job[k].state # "none"
    BY <1>2, <2>1
  <2>3. \A e \in Events : JobsOf(e)' = JobsOf(e)
    BY <2>2 DEF JobsOf
  <2>4. TypeOK' /\ UNCHANGED <<sent, acked, marked, strays, delivery>>
    BY <1>2 DEF SetJob, TypeOK
  <2>5. TriesInv'
    BY <1>2, <2>1 DEF TriesInv
  <2> QED
    BY <2>3, <2>4, <2>5
<1>3. CASE TakeJob(i)
  <2> DEFINE to == [j EXCEPT !.state = "active"]
  <2>1. to \in Job /\ to.tries = j.tries /\ to.state = "active"
    BY <1>1 DEF Job
  <2>2. j.state = "waiting" /\ SetJob(i, "waiting", to)
    BY <1>3 DEF TakeJob, SetJob
  <2>3. to.tries < Attempts
    BY <2>1, <2>2 DEF TriesInv
  <2> QED
    BY <1>2, <2>1, <2>2, <2>3
<1>4. CASE HandlerDone(i)
  <2> DEFINE to == [j EXCEPT !.state = "done"]
  <2>1. to \in Job /\ to.state = "done"
    BY <1>1 DEF Job
  <2>2. SetJob(i, "active", to)
    BY <1>4 DEF HandlerDone
  <2> QED
    BY <1>2, <2>1, <2>2
<1>5. CASE HandlerThrows(i)
  <2> DEFINE again == j.tries + 1 < Attempts
             to == [j EXCEPT !.tries = @ + 1, !.state = IF again THEN "waiting" ELSE "failed"]
  <2>1. j.state = "active" /\ SetJob(i, "active", to)
    BY <1>5 DEF HandlerThrows, SetJob
  <2>2. j.tries < Attempts
    BY <2>1 DEF TriesInv
  <2>3. j.tries + 1 \in 0 .. Attempts
    BY <1>1, <2>2, DeliveryAssumption
  <2>4. to \in Job /\ to.tries = j.tries + 1 /\ to.state = IF again THEN "waiting" ELSE "failed"
    BY <1>1, <2>3 DEF Job
  <2> HIDE DEF to
  <2> QED
    BY <1>2, <2>1, <2>4
<1>6. CASE WorkerDies(i)
  <2> DEFINE to == IF j.stalls = 0 THEN [j EXCEPT !.state = "waiting", !.stalls = 1]
                                   ELSE [j EXCEPT !.state = "failed"]
  <2>1. j.state = "active" /\ SetJob(i, "active", to)
    BY <1>6 DEF WorkerDies, SetJob
  <2>2. [j EXCEPT !.state = "waiting", !.stalls = 1] \in Job
        /\ [j EXCEPT !.state = "waiting", !.stalls = 1].tries = j.tries
        /\ [j EXCEPT !.state = "waiting", !.stalls = 1].state = "waiting"
    BY <1>1, StalledJob
  <2>3. [j EXCEPT !.state = "failed"] \in Job
        /\ [j EXCEPT !.state = "failed"].tries = j.tries
        /\ [j EXCEPT !.state = "failed"].state = "failed"
    BY <1>1 DEF Job
  <2>4. to \in Job /\ to.tries = j.tries /\ to.state \in {"waiting", "failed"}
    BY <2>2, <2>3
  <2>5. j.tries < Attempts
    BY <2>1 DEF TriesInv
  <2> HIDE DEF to
  <2> QED
    BY <1>2, <2>1, <2>4, <2>5
<1> QED
  BY <1>3, <1>4, <1>5, <1>6 DEF RunJob

\* The steps of a request leave the jobs' attempts alone, or add a new job.
LEMMA DeliveryTries ==
    ASSUME TypeOK, TriesInv, NEW d \in Deliveries,
           (\E e \in Events : Send(d, e)) \/ StopWaiting(d)
              \/ HandleStep(d) \/ MarkFails(d) \/ CrashDelivery(d)
    PROVE  TriesInv'
<1>1. ASSUME NEW i \in JobIds, Add(i) PROVE TriesInv'
  BY <1>1, AddShape DEF TypeOK, TriesInv
<1>2. CASE UNCHANGED job
  BY <1>2 DEF TriesInv
<1> QED
  BY <1>1, <1>2 DEF HandleStep, Send, StopWaiting, Mark, Skip, Enqueue, EnqueueFails, Unmark,
                    MarkFails, CrashDelivery, queue

\* Requests and jobs keep their types; no job runs beyond its attempts.
THEOREM TypeCorrect == Spec => []TypeOK
<1>1. Init => TypeOK /\ TriesInv
  BY InitType, DeliveryAssumption DEF Init, TriesInv, NoJob
<1>2. TypeOK /\ TriesInv /\ [Next]_vars => TypeOK' /\ TriesInv'
  <2> SUFFICES ASSUME TypeOK, TriesInv, [Next]_vars
               PROVE  TypeOK' /\ TriesInv'
    OBVIOUS
  <2>1. CASE UNCHANGED vars
    BY <2>1 DEF vars, TypeOK, TriesInv
  <2>2. CASE Next
    BY <2>2, DeliveryType, DeliveryTries, JobType DEF Next
  <2> QED
    BY <2>1, <2>2
<1> QED
  BY <1>1, <1>2, PTL DEF Spec

-----------------------------------------------------------------------------
(* One job per event.                                                      *)

RequestStep(d) ==
    (\E e \in Events : Send(d, e)) \/ StopWaiting(d)
       \/ HandleStep(d) \/ MarkFails(d) \/ CrashDelivery(d)

\* A step of d takes from nobody else: the other requests are as they were, and d
\* owns an event afterwards only if it did before, or has just marked it.
LEMMA OthersKeep ==
    ASSUME TypeOK, NEW d \in Deliveries, RequestStep(d),
           NEW e \in Events, NEW c \in Deliveries, Owns(c, e)'
    PROVE  \/ Owns(c, e)
           \/ c = d /\ Mark(d) /\ delivery[d].e = e
<1>1. delivery[d] \in Request \cup {Free} /\ delivery[c] \in Request \cup {Free}
  BY DEF TypeOK
<1>2. CASE c # d
  <2>1. delivery'[c] = delivery[c]
    BY <1>2 DEF RequestStep, Send, StopWaiting, HandleStep, Mark, Skip, Enqueue, EnqueueFails,
                Unmark, MarkFails, CrashDelivery, Answer2xx, Answer5xx, TypeOK
  <2> QED
    BY <2>1 DEF Owns
<1>3. CASE c = d
  <2>1. ASSUME delivery'[d] = Free
        PROVE  FALSE
    BY <1>3, <2>1 DEF Owns, Free
  <2>2. CASE \E f \in Events : Send(d, f)
    <3>1. delivery'[d].at = "mark"
      BY <2>2 DEF Send, TypeOK
    <3> QED
      BY <1>3, <3>1 DEF Owns
  <2>3. CASE StopWaiting(d)
    <3>1. delivery'[d] = [delivery[d] EXCEPT !.heard = FALSE] /\ delivery[d] \in Request
      BY <1>1, <2>3 DEF StopWaiting, TypeOK
    <3>2. delivery'[d].at = delivery[d].at /\ delivery'[d].e = delivery[d].e
      BY <3>1 DEF Request
    <3> QED
      BY <1>3, <3>2 DEF Owns
  <2>4. CASE Mark(d)
    <3>1. delivery'[d] = [delivery[d] EXCEPT !.at = "enqueue"] /\ delivery[d] \in Request
      BY <1>1, <2>4 DEF Mark, TypeOK, Free
    <3>2. delivery'[d].e = delivery[d].e
      BY <3>1 DEF Request
    <3> QED
      BY <1>3, <2>4, <3>2 DEF Owns
  <2>5. CASE EnqueueFails(d)
    <3>1. delivery'[d] = [delivery[d] EXCEPT !.at = "unmark"] /\ delivery[d] \in Request
      BY <1>1, <2>5 DEF EnqueueFails, TypeOK, Free
    <3>2. delivery'[d].e = delivery[d].e
      BY <3>1 DEF Request
    <3> QED
      BY <1>3, <2>5, <3>2 DEF Owns, EnqueueFails
  <2>6. CASE Skip(d) \/ Enqueue(d) \/ Unmark(d) \/ MarkFails(d) \/ CrashDelivery(d)
    <3>1. delivery'[d] = Free
      BY <2>6 DEF Skip, Enqueue, Unmark, MarkFails, CrashDelivery, Answer2xx, Answer5xx, TypeOK
    <3> QED
      BY <2>1, <3>1
  <2> QED
    BY <2>2, <2>3, <2>4, <2>5, <2>6 DEF RequestStep, HandleStep
<1> QED
  BY <1>2, <1>3

\* A step of d that adds no job and leaves the marks: OwnerInv stays, since nobody
\* comes to own an event.
LEMMA OwnerFrame ==
    ASSUME TypeOK, OwnerInv, UNCHANGED <<queue, marked>>,
           \A e \in Events, c \in Deliveries : Owns(c, e)' => Owns(c, e)
    PROVE  OwnerInv'
<1>1. strays' = strays /\ marked' = marked /\ \A e \in Events : JobsOf(e)' = JobsOf(e)
  BY DEF queue, JobsOf
<1> QED
  BY <1>1 DEF OwnerInv

\* The owner's job is added.  If the request is told so, it ends; if not, it goes on
\* to take the mark away.
LEMMA OwnerAdd ==
    ASSUME TypeOK, OwnerInv, NEW d \in Deliveries, RequestStep(d), ~ Mark(d),
           NEW i \in JobIds, Add(i), Owns(d, i.e), marked' = marked,
           \/ strays' = strays /\ delivery'[d] = Free
           \/ strays' = strays \cup {i}
    PROVE  OwnerInv'
<1>0. PICK x \in Events : x = i.e
  BY DEF JobIds
<1>1. \A e \in Events : JobsOf(e)' = IF e = x THEN JobsOf(e) \cup {i} ELSE JobsOf(e)
  BY <1>0, AddShape DEF TypeOK
<1>2. x \in marked /\ JobsOf(x) \subseteq strays
  BY <1>0 DEF OwnerInv
<1>3. \A e \in Events, c \in Deliveries : Owns(c, e)' => Owns(c, e)
  BY OthersKeep
<1>4. CASE strays' = strays /\ delivery'[d] = Free
  <2>1. ~ Owns(d, x)'
    BY <1>4 DEF Owns, Free
  <2>2. \A c \in Deliveries : ~ Owns(c, x)'
    BY <1>0, <1>3, <2>1 DEF OwnerInv
  <2> QED
    BY <1>1, <1>2, <1>3, <1>4, <2>2 DEF OwnerInv
<1>5. CASE strays' = strays \cup {i}
  BY <1>1, <1>2, <1>3, <1>5 DEF OwnerInv
<1> QED
  BY <1>4, <1>5

LEMMA OwnerStep ==
    ASSUME TypeOK, OwnerInv, NEW d \in Deliveries, RequestStep(d)
    PROVE  OwnerInv'
<1> DEFINE q == delivery[d]
<1>1. q \in Request \cup {Free}
  BY DEF TypeOK
<1>2. CASE Mark(d)
  <2>0. PICK x \in Events : x = q.e
    BY <1>1, <1>2, Shapes DEF Mark, Free
  <2>1. x \notin marked /\ marked' = marked \cup {x} /\ strays' = strays /\ job' = job
    BY <1>2, <2>0 DEF Mark, queue
  <2>2. \A c \in Deliveries : ~ Owns(c, x)
    BY <2>1 DEF OwnerInv
  <2>3. JobsOf(x) \subseteq strays
    BY <2>1 DEF OwnerInv, JobsOf
  <2>4. \A e \in Events : JobsOf(e)' = JobsOf(e)
    BY <2>1 DEF JobsOf
  <2>5. \A e \in Events, c \in Deliveries :
           Owns(c, e)' => Owns(c, e) \/ (c = d /\ e = x)
    BY <2>0, OthersKeep
  <2> QED
    BY <2>1, <2>2, <2>3, <2>4, <2>5 DEF OwnerInv
<1>3. CASE Enqueue(d) \/ EnqueueFails(d) \/ CrashDelivery(d)
  <2>1. ~ Mark(d) /\ marked' = marked
    <3>1. CASE Enqueue(d) \/ EnqueueFails(d)
      BY <3>1 DEF Enqueue, EnqueueFails, Mark
    <3>2. CASE CrashDelivery(d)
      <4>1. delivery'[d] = Free /\ Free # [q EXCEPT !.at = "enqueue"]
        BY <3>2 DEF CrashDelivery, Answer5xx, TypeOK, Free
      <4> QED
        BY <3>2, <4>1 DEF CrashDelivery, Mark, TypeOK
    <3> QED
      BY <1>3, <3>1, <3>2
  <2>2. CASE UNCHANGED queue
    BY <2>1, <2>2, OthersKeep, OwnerFrame
  <2>3. ASSUME NEW i \in JobIds, Add(i), i.e = q.e, q.at = "enqueue",
               strays' = strays \/ strays' = strays \cup {i},
               strays' = strays => delivery'[d] = Free
        PROVE  OwnerInv'
    <3>1. Owns(d, i.e)
      BY <2>3 DEF Owns
    <3> QED
      BY <2>1, <2>3, <3>1, OwnerAdd
  <2>4. CASE Enqueue(d)
    <3>1. delivery'[d] = Free
      BY <2>4 DEF Enqueue, Answer2xx, TypeOK
    <3> QED
      BY <2>3, <2>4, <3>1 DEF Enqueue
  <2>5. CASE EnqueueFails(d)
    <3>1. ASSUME NEW i \in JobIds, i.e = q.e, Add(i), strays' = strays \cup {i}
          PROVE  OwnerInv'
      <4>1. Owns(d, i.e)
        BY <2>5, <3>1 DEF EnqueueFails, Owns
      <4> QED
        BY <2>1, <3>1, <4>1, OwnerAdd
    <3> QED
      BY <2>2, <2>5, <3>1 DEF EnqueueFails
  <2>6. CASE CrashDelivery(d)
    <3>1. delivery'[d] = Free /\ strays' = strays
      BY <2>6 DEF CrashDelivery, Answer5xx, TypeOK
    <3> QED
      BY <2>2, <2>3, <2>6, <3>1 DEF CrashDelivery, queue
  <2> QED
    BY <1>3, <2>4, <2>5, <2>6
<1>4. CASE Unmark(d)
  <2>0. PICK x \in Events : x = q.e
    BY <1>1, <1>4, Shapes DEF Unmark, Free
  <2>1. Owns(d, x)
    BY <1>1, <1>4, <2>0, Shapes DEF Unmark, Owns, Free
  <2>2. /\ strays' = strays /\ \A e \in Events : JobsOf(e)' = JobsOf(e)
        /\ marked \ {x} \subseteq marked' /\ marked' \subseteq marked /\ ~ Mark(d)
    BY <1>4, <2>0 DEF Unmark, Mark, queue, JobsOf
  <2>3. JobsOf(x) \subseteq strays
    BY <2>1 DEF OwnerInv
  <2>4. delivery'[d] = Free
    BY <1>4 DEF Unmark, Answer5xx, TypeOK
  <2>5. \A c \in Deliveries : ~ Owns(c, x)'
    <3> SUFFICES ASSUME NEW c \in Deliveries, Owns(c, x)' PROVE FALSE
      OBVIOUS
    <3>1. Owns(c, x)
      BY <2>1, <2>2, OthersKeep
    <3>2. c = d
      BY <2>1, <3>1 DEF OwnerInv
    <3> QED
      BY <2>4, <3>2 DEF Owns, Free
  <2>6. \A e \in Events, c \in Deliveries : Owns(c, e)' => Owns(c, e)
    BY <2>2, OthersKeep
  <2> QED
    BY <2>2, <2>3, <2>5, <2>6 DEF OwnerInv
<1>5. CASE MarkFails(d)
  <2>1. /\ marked \subseteq marked' /\ strays' = strays
        /\ \A e \in Events : JobsOf(e)' = JobsOf(e)
    BY <1>5 DEF MarkFails, queue, JobsOf
  <2>2. delivery'[d] = Free
    BY <1>5 DEF MarkFails, Answer5xx, TypeOK
  <2>3. \A e \in Events, c \in Deliveries : Owns(c, e)' => Owns(c, e)
    BY <2>2, OthersKeep DEF Owns, Free
  <2> QED
    BY <2>1, <2>3 DEF OwnerInv
<1>6. CASE UNCHANGED <<queue, marked>> /\ ~ Mark(d)
  BY <1>6, OthersKeep, OwnerFrame
<1> QED
  BY <1>2, <1>3, <1>4, <1>5, <1>6 DEF RequestStep, HandleStep, Send, StopWaiting, Skip, Mark,
                                      queue

\* A step of a job adds none.
LEMMA OwnerJob ==
    ASSUME OwnerInv, UNCHANGED <<marked, strays, delivery>>,
           \A e \in Events : JobsOf(e)' = JobsOf(e)
    PROVE  OwnerInv'
BY DEF OwnerInv, Owns

\* OneJobPerEvent, for any number of events, deliveries and faults: besides the jobs
\* stored by adds that threw, an event has one job at most.
THEOREM OneJob == Spec => []OneJobPerEvent
<1> DEFINE Inv == TypeOK /\ TriesInv /\ OwnerInv
<1>1. Init => Inv
  <2>1. Init => TriesInv /\ OwnerInv
    BY DeliveryAssumption DEF Init, TriesInv, NoJob, OwnerInv, Owns, Free, JobsOf
  <2> QED
    BY <2>1, InitType
<1>2. Inv /\ [Next]_vars => Inv'
  <2> SUFFICES ASSUME Inv, [Next]_vars PROVE Inv'
    OBVIOUS
  <2>1. CASE UNCHANGED vars
    BY <2>1, OwnerJob DEF vars, TypeOK, TriesInv, JobsOf
  <2>2. ASSUME NEW d \in Deliveries, RequestStep(d) PROVE Inv'
    BY <2>2, OwnerStep, DeliveryType, DeliveryTries DEF RequestStep
  <2>3. ASSUME NEW j \in JobIds, RunJob(j) PROVE Inv'
    BY <2>3, JobType, OwnerJob
  <2> QED
    BY <2>1, <2>2, <2>3 DEF Next, RequestStep
<1>3. OwnerInv => OneJobPerEvent
  BY DEF OwnerInv, OneJobPerEvent, Owns
<1> QED
  BY <1>1, <1>2, <1>3, PTL DEF Spec

-----------------------------------------------------------------------------
(* What Stripe heard a 2xx for is queued.                                  *)

\* A request for e was one before, waited for as before unless its wait just ended,
\* or Stripe has just sent it.
LEMMA HandlesKeep ==
    ASSUME TypeOK, NEW d \in Deliveries, RequestStep(d),
           NEW e \in Events, NEW c \in Deliveries, Handles(c, e)'
    PROVE  \/ /\ Handles(c, e)
              /\ delivery'[c].heard = delivery[c].heard \/ e \in Slow
           \/ c = d /\ Send(d, e)
<1> DEFINE q == delivery[d]
<1>1. q \in Request \cup {Free}
  BY DEF TypeOK
<1>2. CASE c # d
  <2>1. delivery'[c] = delivery[c]
    BY <1>2 DEF RequestStep, Send, StopWaiting, HandleStep, Mark, Skip, Enqueue, EnqueueFails,
                Unmark, MarkFails, CrashDelivery, Answer2xx, Answer5xx, TypeOK
  <2> QED
    BY <2>1 DEF Handles
<1>3. CASE c = d
  <2>1. delivery'[d] # Free
    BY <1>3 DEF Handles, Free
  <2>2. ASSUME NEW f \in Events, Send(d, f)
        PROVE  c = d /\ Send(d, e)
    <3>1. delivery'[d] = [at |-> "mark", e |-> f, heard |-> TRUE]
      BY <2>2 DEF Send, TypeOK
    <3>2. f = e
      BY <1>3, <3>1 DEF Handles
    <3> QED
      BY <1>3, <2>2, <3>2
  <2>3. CASE StopWaiting(d)
    <3>1. /\ delivery'[d] = [q EXCEPT !.heard = FALSE]
          /\ q \in Request /\ q.e \in Slow /\ q # Free
      BY <1>1, <2>3 DEF StopWaiting, TypeOK
    <3>2. delivery'[d].e = q.e /\ delivery'[d].at = q.at
      BY <3>1 DEF Request
    <3> QED
      BY <1>1, <1>3, <3>1, <3>2 DEF Handles
  <2>4. CASE Mark(d) \/ EnqueueFails(d)
    <3>0. delivery'[d] = [q EXCEPT !.at = IF Mark(d) THEN "enqueue" ELSE "unmark"]
      BY <2>4 DEF Mark, EnqueueFails, TypeOK
    <3>1. q \in Request /\ q # Free
      BY <1>1, <2>4 DEF Mark, EnqueueFails, Free
    <3>2. delivery'[d].e = q.e /\ delivery'[d].heard = q.heard
      BY <3>0, <3>1 DEF Request
    <3>3. q.at # "free"
      BY <3>1 DEF Request
    <3> QED
      BY <1>3, <3>2, <3>3 DEF Handles
  <2>5. CASE Skip(d) \/ Enqueue(d) \/ Unmark(d) \/ MarkFails(d) \/ CrashDelivery(d)
    <3>1. delivery'[d] = Free
      BY <2>5 DEF Skip, Enqueue, Unmark, MarkFails, CrashDelivery, Answer2xx, Answer5xx, TypeOK
    <3> QED
      BY <2>1, <3>1
  <2> QED
    BY <2>2, <2>3, <2>4, <2>5 DEF RequestStep, HandleStep
<1> QED
  BY <1>2, <1>3

\* The first half of CleanInv: one request at a time, and Stripe waits for it.
LEMMA CleanRequests ==
    ASSUME TypeOK, CleanInv, NEW d \in Deliveries, RequestStep(d), NEW e \in Clean
    PROVE  /\ \A b, c \in Deliveries : Handles(b, e)' /\ Handles(c, e)' => b = c
           /\ \A c \in Deliveries : Handles(c, e)' => delivery'[c].heard
<1>1. e \in Events /\ e \notin Slow
  BY DEF Clean
<1>2. CASE Send(d, e)
  <2>1. \A c \in Deliveries : ~ Handles(c, e)
    <3> SUFFICES ASSUME NEW c \in Deliveries, Handles(c, e) PROVE FALSE
      OBVIOUS
    <3>1. delivery[c].heard
      BY DEF CleanInv
    <3>2. delivery[c] # Free
      BY DEF Handles, Free
    <3> QED
      BY <1>2, <3>1, <3>2 DEF Send, HeardDeliveries, Handles
  <2>2. \A c \in Deliveries : Handles(c, e)' => c = d
    BY <1>1, <2>1, HandlesKeep
  <2>3. delivery'[d].heard
    BY <1>2 DEF Send, TypeOK
  <2> QED
    BY <2>2, <2>3
<1>3. CASE ~ Send(d, e)
  <2>1. \A c \in Deliveries : Handles(c, e)' =>
           Handles(c, e) /\ delivery'[c].heard = delivery[c].heard
    BY <1>1, <1>3, HandlesKeep
  <2> QED
    BY <2>1 DEF CleanInv
<1> QED
  BY <1>2, <1>3

\* No request takes a job away.
LEMMA JobsGrow ==
    ASSUME TypeOK, NEW d \in Deliveries, RequestStep(d), NEW e \in Events
    PROVE  JobsOf(e) \subseteq JobsOf(e)'
<1>1. CASE UNCHANGED job
  BY <1>1 DEF JobsOf
<1>2. ASSUME NEW i \in JobIds, Add(i) PROVE JobsOf(e) \subseteq JobsOf(e)'
  BY <1>2, AddShape DEF TypeOK
<1> QED
  BY <1>1, <1>2 DEF RequestStep, HandleStep, Send, StopWaiting, Mark, Skip, Enqueue, EnqueueFails,
                    Unmark, MarkFails, CrashDelivery, queue

LEMMA CleanStep ==
    ASSUME TypeOK, OwnerInv, CleanInv, NEW d \in Deliveries, RequestStep(d)
    PROVE  CleanInv'
<1> DEFINE q == delivery[d]
<1>1. q \in Request \cup {Free}
  BY DEF TypeOK
<1> SUFFICES ASSUME NEW e \in Clean
             PROVE  /\ (e \in marked)' => JobsOf(e)' # {} \/ \E c \in Deliveries : Owns(c, e)'
                    /\ (e \in acked)' => JobsOf(e)' # {}
  BY CleanRequests DEF CleanInv
<1>2. /\ e \in Events /\ e \notin Slow /\ e \notin Crashes /\ e \notin DbFails
      /\ \A b, c \in Deliveries : Handles(b, e) /\ Handles(c, e) => b = c
      /\ e \in marked => JobsOf(e) # {} \/ \E c \in Deliveries : Owns(c, e)
      /\ e \in acked => JobsOf(e) # {}
      /\ JobsOf(e) \subseteq JobsOf(e)'
  BY JobsGrow DEF CleanInv, Clean
<1>3. CASE q.at # "free" /\ q.e = e
  <2>1. q \in Request /\ q # Free /\ Handles(d, e)
    BY <1>1, <1>3, Shapes DEF Handles
  <2>2. ~ (\E f \in Events : Send(d, f)) /\ ~ StopWaiting(d) /\ ~ CrashDelivery(d)
    BY <1>2, <1>3, <2>1 DEF Send, StopWaiting, CrashDelivery
  <2>3. CASE Mark(d)
    <3>1. delivery'[d] = [q EXCEPT !.at = "enqueue"]
      BY <2>3 DEF Mark, TypeOK
    <3>2. delivery'[d].at = "enqueue" /\ delivery'[d].e = e
      BY <1>3, <2>1, <3>1 DEF Request
    <3>3. Owns(d, e)'
      BY <3>2 DEF Owns
    <3> QED
      BY <1>2, <2>3, <3>3 DEF Mark, queue
  <2>4. CASE Skip(d)
    <3>1. \A c \in Deliveries : ~ Owns(c, e)
      <4> SUFFICES ASSUME NEW c \in Deliveries, Owns(c, e) PROVE FALSE
        OBVIOUS
      <4>1. Handles(c, e)
        BY DEF Owns, Handles
      <4>2. c = d
        BY <1>2, <2>1, <4>1
      <4> QED
        BY <2>4, <4>2 DEF Skip, Owns
    <3>2. JobsOf(e) # {}
      BY <1>2, <1>3, <2>4, <3>1 DEF Skip
    <3> QED
      BY <1>2, <3>2
  <2>5. CASE Enqueue(d)
    <3>1. PICK i \in JobIds : i.e = e /\ Add(i)
      BY <1>3, <2>5 DEF Enqueue
    <3>2. i \in JobsOf(e)'
      BY <1>2, <3>1, AddShape DEF TypeOK
    <3> QED
      BY <3>2
  <2>6. CASE EnqueueFails(d)
    <3>1. delivery'[d] = [q EXCEPT !.at = "unmark"]
      BY <2>6 DEF EnqueueFails, TypeOK
    <3>2. delivery'[d].at = "unmark" /\ delivery'[d].e = e
      BY <1>3, <2>1, <3>1 DEF Request
    <3>3. Owns(d, e)'
      BY <3>2 DEF Owns
    <3> QED
      BY <1>2, <2>6, <3>3 DEF EnqueueFails
  <2>7. CASE Unmark(d)
    BY <1>2, <1>3, <2>7 DEF Unmark, Answer5xx, queue
  <2>8. CASE MarkFails(d)
    <3>1. \A c \in Deliveries : ~ Owns(c, e)
      <4> SUFFICES ASSUME NEW c \in Deliveries, Owns(c, e) PROVE FALSE
        OBVIOUS
      <4>1. Handles(c, e)
        BY DEF Owns, Handles
      <4>2. c = d
        BY <1>2, <2>1, <4>1
      <4> QED
        BY <2>8, <4>2 DEF MarkFails, Owns
    <3> QED
      BY <1>2, <2>8, <3>1 DEF MarkFails, Answer5xx, queue
  <2> QED
    BY <2>2, <2>3, <2>4, <2>5, <2>6, <2>7, <2>8 DEF RequestStep, HandleStep
<1>4. CASE ~ (q.at # "free" /\ q.e = e)
  <2>1. /\ (e \in marked)' <=> e \in marked
        /\ (e \in acked)' <=> e \in acked
    <3>1. q # Free => q.e # e
      BY <1>1, <1>4, Shapes
    <3> QED
      BY <1>2, <3>1 DEF RequestStep, Send, StopWaiting, HandleStep, Mark, Skip, Enqueue,
             EnqueueFails, Unmark, MarkFails, CrashDelivery, Answer2xx, Answer5xx, TypeOK,
             Free
  <2>2. ASSUME NEW c \in Deliveries, Owns(c, e)
        PROVE  Owns(c, e)'
    <3>1. c # d
      BY <1>4, <2>2 DEF Owns
    <3>2. delivery'[c] = delivery[c]
      BY <3>1 DEF RequestStep, Send, StopWaiting, HandleStep, Mark, Skip, Enqueue,
             EnqueueFails, Unmark, MarkFails, CrashDelivery, Answer2xx, Answer5xx, TypeOK
    <3> QED
      BY <2>2, <3>2 DEF Owns
  <2> QED
    BY <1>2, <2>1, <2>2
<1> QED
  BY <1>3, <1>4

\* The invariants of the jobs' side, for the modules that build on this one.
SafetyInv == TypeOK /\ TriesInv /\ OwnerInv /\ CleanInv

LEMMA InitSafety == Init => SafetyInv
<1> SUFFICES ASSUME Init PROVE SafetyInv
  OBVIOUS
<1>1. TypeOK
  BY InitType
<1>2. TriesInv /\ OwnerInv
  BY DeliveryAssumption DEF Init, TriesInv, NoJob, OwnerInv, Owns, Free, JobsOf
<1>3. CleanInv
  BY DEF Init, CleanInv, Clean, Handles, Free
<1> QED
  BY <1>1, <1>2, <1>3 DEF SafetyInv

LEMMA NextSafety == SafetyInv /\ [Next]_vars => SafetyInv'
<1> SUFFICES ASSUME SafetyInv, [Next]_vars PROVE SafetyInv'
  OBVIOUS
<1> USE DEF SafetyInv
<1>1. ASSUME NEW d \in Deliveries, RequestStep(d) PROVE SafetyInv'
  BY <1>1, DeliveryType, DeliveryTries, OwnerStep, CleanStep DEF RequestStep
<1>2. ASSUME UNCHANGED <<acked, marked, strays, delivery>>,
             \A e \in Events : JobsOf(e)' = JobsOf(e)
      PROVE  OwnerInv' /\ CleanInv'
  <2>1. CleanInv'
    BY <1>2 DEF CleanInv, Clean, Owns, Handles
  <2> QED
    BY <1>2, <2>1, OwnerJob
<1>3. ASSUME NEW j \in JobIds, RunJob(j) PROVE SafetyInv'
  BY <1>2, <1>3, JobType
<1>4. CASE UNCHANGED vars
  <2>1. \A e \in Events : JobsOf(e)' = JobsOf(e)
    BY <1>4 DEF vars, JobsOf
  <2> QED
    BY <1>2, <1>4, <2>1 DEF vars, TypeOK, TriesInv
<1> QED
  BY <1>1, <1>3, <1>4 DEF Next, RequestStep

\* CleanAckedIsQueued, for any number of events, deliveries and faults.
THEOREM CleanAcked == Spec => []CleanAckedIsQueued
<1>1. SafetyInv => CleanAckedIsQueued
  BY DEF SafetyInv, TypeOK, CleanInv, Clean, CleanAckedIsQueued, Queued
<1> QED
  BY <1>1, InitSafety, NextSafety, PTL DEF Spec
------------------------------------------------------------------------------
(* The handler of payment notices, its workers and the e-mails.            *)

\* w is about to queue the e-mail of l; m is, or was, an e-mail of l.
Sends(w, l)  == work[w].at = "send" /\ InvoiceOf[work[w].job.e] = l
Carries(m, l) == mail[m].state # "unused" /\ mail[m].letter = l
Fresh(m)     == mail[m].state = "waiting" /\ ~ mail[m].taken

\* As long as Redis answers, the key of a letter stands for one token: a worker
\* about to queue the e-mail, then the e-mail; a copy is received when the e-mail
\* is first taken.
TokenInv ==
    \A l \in Letters : "redis" \notin excused[l] =>
        /\ \A w \in Workers : Sends(w, l) => l \in once
        /\ \A m \in Mails : Carries(m, l) => l \in once
        /\ \A v, w \in Workers : Sends(v, l) /\ Sends(w, l) => v = w
        /\ \A m, n \in Mails : Carries(m, l) /\ Carries(n, l) => m = n
        /\ \A w \in Workers, m \in Mails : ~ (Sends(w, l) /\ Carries(m, l))
        /\ inbox[l] \in {0, 1}
        /\ inbox[l] = 1 => \E m \in Mails : Carries(m, l)
        /\ \A m \in Mails : Carries(m, l) /\ Fresh(m) => inbox[l] = 0

\* The e-mail of l is queued, about to be, or excused.
Settled(l) ==
    \/ excused[l] # {}
    \/ \E m \in Mails : Carries(m, l)
    \/ \E w \in Workers : Sends(w, l)

SettledInv ==
    /\ \A l \in once : Settled(l)
    /\ \A w \in Workers : work[w].at = "end" => Settled(InvoiceOf[work[w].job.e])
    /\ \A j \in JobIds :
          j.e \in notices /\ job[j].state = "done" => Settled(InvoiceOf[j.e])

-----------------------------------------------------------------------------
(* Types, and the steps as steps of WebhookDelivery.                       *)

LEMMA RunShapes ==
    ASSUME NEW r \in Run \cup {Idle}
    PROVE  /\ r = Idle <=> r.at = "idle"
           /\ r # Idle => /\ r \in Run /\ r.job \in JobIds /\ r.holds \in BOOLEAN
                          /\ r.at \in {"start", "send", "end"}
BY DEF Run, Idle

LEMMA MailShapes ==
    ASSUME NEW j \in MailJob \cup {Unused}
    PROVE  /\ j = Unused <=> j.state = "unused"
           /\ j.state \in {"unused", "waiting", "over"}
           /\ j # Unused => j \in MailJob /\ j.letter \in Letters
           /\ j.state = "waiting" =>
                /\ j \in [state : {"waiting"}, letter : Letters, tries : 0 .. Tries - 1,
                          stalls : 0 .. 1, taken : BOOLEAN]
                /\ j.tries \in 0 .. Tries - 1 /\ j.stalls \in 0 .. 1 /\ j.taken \in BOOLEAN
BY DEF MailJob, Unused

NoticeOK ==
    /\ notices \subseteq Events
    /\ work \in [Workers -> Run \cup {Idle}]
    /\ once \subseteq Letters
    /\ excused \in [Letters -> SUBSET Reasons]
    /\ faults \in 0 .. MaxFaults

\* What a worker is on.
LEMMA RunningEvent ==
    ASSUME NoticeOK, NEW w \in Workers, work[w].at \in {"start", "send", "end"}
    PROVE  /\ work[w] \in Run /\ work[w] # Idle
           /\ work[w].job \in JobIds
           /\ Invoice(w) \in Letters
<1>1. /\ work[w] \in Run /\ work[w] # Idle
      /\ work[w].job \in JobIds /\ work[w].job.e \in Events
  BY RunShapes DEF NoticeOK, Idle, JobIds
<1> QED
  BY <1>1, NoticeAssumption DEF Invoice

LEMMA GoToType ==
    ASSUME NoticeOK, NEW w \in Workers, work[w] \in Run,
           NEW step \in {"start", "send", "end"}, GoTo(w, step)
    PROVE  /\ work' \in [Workers -> Run \cup {Idle}]
           /\ work'[w].at = step /\ work'[w].job = work[w].job
           /\ \A v \in Workers : v # w => work'[v] = work[v]
<1>1. [work[w] EXCEPT !.at = step] \in Run
  BY DEF Run
<1>2. work' = [work EXCEPT ![w] = [work[w] EXCEPT !.at = step]]
  BY DEF GoTo
<1>3. [work[w] EXCEPT !.at = step].at = step /\ [work[w] EXCEPT !.at = step].job = work[w].job
  BY DEF Run
<1> QED
  BY <1>1, <1>2, <1>3 DEF NoticeOK

LEMMA ExcuseType ==
    ASSUME NoticeOK, NEW w \in Workers, Invoice(w) \in Letters,
           NEW why \in Reasons, Excuse(w, why)
    PROVE  /\ excused' \in [Letters -> SUBSET Reasons]
           /\ why \in excused'[Invoice(w)]
           /\ \A l \in Letters : excused[l] \subseteq excused'[l]
           /\ \A l \in Letters : l # Invoice(w) => excused'[l] = excused[l]
BY DEF Excuse, NoticeOK

LEMMA FaultType == NoticeOK /\ RedisFault => faults' \in 0 .. MaxFaults
BY NoticeAssumption DEF NoticeOK, RedisFault

\* What a step of a worker does to its own state, keys and excuses, whichever it is.
LEMMA WorkerType ==
    ASSUME NoticeOK, NEW w \in Workers, WorkStep(w)
    PROVE  NoticeOK'
<1>1. CASE ReadFails(w) \/ Finish(w)
  BY <1>1 DEF ReadFails, Finish, NoticeOK
<1>2. CASE NobodyToMail(w)
  BY <1>2, RunningEvent, GoToType, ExcuseType DEF NobodyToMail, At, Reasons, NoticeOK
<1>3. CASE MarkMail(w) \/ AlreadyMarked(w)
  <2>1. Invoice(w) \in Letters /\ work[w] \in Run
    BY <1>3, RunningEvent DEF MarkMail, AlreadyMarked, At
  <2>2. work' \in [Workers -> Run \cup {Idle}]
    BY <1>3, <2>1, GoToType DEF MarkMail, AlreadyMarked
  <2> QED
    BY <1>3, <2>1, <2>2 DEF MarkMail, AlreadyMarked, NoticeOK
<1>4. CASE OnceFails(w)
  <2>1. Invoice(w) \in Letters /\ work[w] \in Run
    BY <1>4, RunningEvent DEF OnceFails, At
  <2>2. work' \in [Workers -> Run \cup {Idle}]
    BY <1>4, <2>1, GoToType DEF OnceFails
  <2>3. excused' \in [Letters -> SUBSET Reasons]
    BY <1>4, <2>1, ExcuseType DEF OnceFails, Reasons
  <2> QED
    BY <1>4, <2>1, <2>2, <2>3, FaultType DEF OnceFails, NoticeOK
<1>5. CASE PostMail(w)
  BY <1>5, RunningEvent, GoToType DEF PostMail, At, NoticeOK
<1>6. CASE PostFails(w)
  <2>1. Invoice(w) \in Letters /\ work[w] \in Run
    BY <1>6, RunningEvent DEF PostFails, At
  <2>2. work' \in [Workers -> Run \cup {Idle}]
    BY <1>6, <2>1, GoToType DEF PostFails
  <2>3. excused' \in [Letters -> SUBSET Reasons]
    BY <1>6, <2>1, ExcuseType DEF PostFails, Reasons
  <2> QED
    BY <1>6, <2>2, <2>3, FaultType DEF PostFails, NoticeOK
<1>7. CASE LoseLock(w) \/ DieLate(w)
  <2>1. work[w] \in Run /\ work[w] # Idle
    BY <1>7, RunShapes DEF LoseLock, DieLate, NoticeOK
  <2>2. [work[w] EXCEPT !.holds = FALSE] \in Run
    BY <2>1 DEF Run
  <2>3. work' \in [Workers -> Run \cup {Idle}]
    BY <1>7, <2>2 DEF LoseLock, DieLate, NoticeOK
  <2>4. excused' \in [Letters -> SUBSET Reasons]
    BY <1>7, RunningEvent, ExcuseType DEF LoseLock, DieLate, At, Reasons, NoticeOK
  <2> QED
    BY <1>7, <2>3, <2>4 DEF LoseLock, DieLate, NoticeOK
<1> QED
  BY <1>1, <1>2, <1>3, <1>4, <1>5, <1>6, <1>7 DEF WorkStep

LEMMA TakeType ==
    ASSUME NoticeOK, NEW w \in Workers, NEW i \in JobIds, Take(w, i)
    PROVE  NoticeOK'
<1>1. [at |-> "start", job |-> i, holds |-> TRUE] \in Run
  BY DEF Run
<1> QED
  BY <1>1 DEF Take, NoticeOK

LEMMA NextNoticeOK == NoticeOK /\ [NoticeNext]_nvars => NoticeOK'
<1> SUFFICES ASSUME NoticeOK, [NoticeNext]_nvars PROVE NoticeOK'
  OBVIOUS
<1>1. CASE UNCHANGED notice
  BY <1>1 DEF notice, NoticeOK
<1> QED
  BY <1>1, WorkerType, TakeType DEF NoticeNext, DeliveryStep, OtherJob, nvars

\* Every step is a step of WebhookDelivery, or none.
LEMMA StepMaps == NoticeOK /\ [NoticeNext]_nvars => [Next]_vars
<1> SUFFICES ASSUME NoticeOK, [NoticeNext]_nvars PROVE [Next]_vars
  OBVIOUS
<1>1. ASSUME NEW w \in Workers, WorkStep(w) PROVE [Next]_vars
  <2>1. CASE UNCHANGED vars
    BY <2>1
  <2>2. CASE HandlerThrows(work[w].job) /\ ReadFails(w)
    BY <2>2, RunningEvent DEF ReadFails, At, RunJob, Next
  <2>3. CASE HandlerDone(work[w].job) /\ Finish(w)
    BY <2>3, RunningEvent DEF Finish, At, RunJob, Next
  <2>4. CASE LoseLock(w)
    <3>1. work[w].job \in JobIds
      BY <2>4, RunShapes DEF LoseLock, NoticeOK
    <3> QED
      BY <2>4, <3>1 DEF LoseLock, RunJob, Next
  <2> QED
    BY <1>1, <2>1, <2>2, <2>3, <2>4 DEF WorkStep, ReadFails, NobodyToMail, MarkMail,
         AlreadyMarked, OnceFails, PostMail, PostFails, Finish, DieLate
<1>2. ASSUME NEW w \in Workers, NEW i \in JobIds, Take(w, i) PROVE [Next]_vars
  BY <1>2 DEF Take, RunJob, Next
<1>3. ASSUME NEW d \in Deliveries, DeliveryStep(d) PROVE [Next]_vars
  BY <1>3 DEF DeliveryStep, Next
<1>4. ASSUME NEW i \in JobIds, OtherJob(i) PROVE [Next]_vars
  BY <1>4 DEF OtherJob, Next
<1> QED
  BY <1>1, <1>2, <1>3, <1>4 DEF NoticeNext, nvars

-----------------------------------------------------------------------------
(* Types of the e-mail queue.                                              *)

\* What a step does to the jobs of the queue: nothing; one new job; or one attempt.
LEMMA PostShape ==
    ASSUME MailerTypeOK, NEW m \in Mails, NEW l \in Letters, Post(m, l)
    PROVE  /\ mail[m].state = "unused"
           /\ mail' \in [Mails -> MailJob \cup {Unused}]
           /\ mail'[m].state = "waiting" /\ ~ mail'[m].taken /\ mail'[m].letter = l
           /\ \A n \in Mails : n # m => mail'[n] = mail[n]
<1> DEFINE j == [state |-> "waiting", letter |-> l, tries |-> 0, stalls |-> 0, taken |-> FALSE]
<1>1. j \in MailJob
  BY MailerAssumption DEF MailJob
<1>2. mail' = [mail EXCEPT ![m] = j] /\ mail[m] = Unused
  BY DEF Post
<1> QED
  BY <1>1, <1>2 DEF MailerTypeOK, Unused

\* An attempt keeps the letter of the job; the e-mail is taken once, when a copy
\* is received.
LEMMA DeliverShape ==
    ASSUME MailerTypeOK, NEW m \in Mails, Deliver(m)
    PROVE  /\ mail[m].state = "waiting"
           /\ mail[m].letter \in Letters
           /\ mail' \in [Mails -> MailJob \cup {Unused}]
           /\ mail'[m].state # "unused" /\ mail'[m].letter = mail[m].letter
           /\ \A n \in Mails : n # m => mail'[n] = mail[n]
           /\ \/ /\ inbox' = inbox
                 /\ Fresh(m)' => Fresh(m)
              \/ /\ inbox' = [inbox EXCEPT ![mail[m].letter] = @ + 1]
                 /\ Fresh(m) /\ ~ Fresh(m)'
<1> DEFINE j == mail[m]
<1>1. j # Unused /\ j.state = "waiting"
  BY DEF Deliver, Accepted, PassingError, Refused, MailWorkerDies, Waiting
<1>2. /\ j \in [state : {"waiting"}, letter : Letters, tries : 0 .. Tries - 1,
               stalls : 0 .. 1, taken : BOOLEAN]
      /\ j.tries \in 0 .. Tries - 1 /\ j.taken \in BOOLEAN /\ j.letter \in Letters
  BY <1>1, MailShapes DEF MailerTypeOK
<1>3. Over(m) \in MailJob /\ Over(m).state = "over" /\ Over(m).letter = j.letter
  BY <1>2 DEF Over, MailJob
<1>4. ASSUME NEW took \in BOOLEAN
      PROVE  /\ Again(m, took) \in MailJob /\ Again(m, took).letter = j.letter
             /\ Again(m, took).state = "waiting"
             /\ Again(m, took).taken = (j.taken \/ took)
             /\ Again(m, took).tries = j.tries
             /\ Again(m, took) \in [state : {"waiting"}, letter : Letters,
                    tries : 0 .. Tries - 1, stalls : 0 .. 1, taken : BOOLEAN]
  <2>1. (j.taken \/ took) \in BOOLEAN
    OBVIOUS
  <2>2. Again(m, took) = [j EXCEPT !.taken = (j.taken \/ took)]
    BY DEF Again
  <2> QED
    BY <1>2, <2>1, <2>2 DEF MailJob
<1>5. ASSUME NEW to \in MailJob, mail' = [mail EXCEPT ![m] = to], to.letter = j.letter
      PROVE  /\ mail' \in [Mails -> MailJob \cup {Unused}]
             /\ mail'[m] = to
             /\ mail'[m].state # "unused" /\ mail'[m].letter = j.letter
             /\ \A n \in Mails : n # m => mail'[n] = mail[n]
  BY <1>5 DEF MailerTypeOK, MailJob
<1>6. ASSUME Accept(m)
      PROVE  \/ inbox' = inbox /\ j.taken
             \/ inbox' = [inbox EXCEPT ![j.letter] = @ + 1] /\ ~ j.taken
  BY <1>6 DEF Accept
<1>7. CASE Accepted(m) \/ Refused(m)
  <2>1. mail' = [mail EXCEPT ![m] = Over(m)]
    BY <1>7 DEF Accepted, Refused
  <2>2. inbox' = inbox \/ (inbox' = [inbox EXCEPT ![j.letter] = @ + 1] /\ ~ j.taken)
    BY <1>6, <1>7 DEF Accepted, Refused
  <2>3. mail'[m] = Over(m)
    BY <1>3, <1>5, <2>1
  <2>4. ~ Fresh(m)'
    BY <1>3, <2>3 DEF Fresh
  <2> QED
    BY <1>1, <1>2, <1>3, <1>5, <2>1, <2>2, <2>4 DEF Fresh
<1>8. ASSUME NEW took \in BOOLEAN, NEW to \in MailJob,
             mail' = [mail EXCEPT ![m] = to], to.letter = j.letter,
             to.state = "waiting" => to.taken = (j.taken \/ took),
             IF took THEN Accept(m) ELSE UNCHANGED inbox
      PROVE  \/ inbox' = inbox /\ (Fresh(m)' => Fresh(m))
             \/ /\ inbox' = [inbox EXCEPT ![j.letter] = @ + 1]
                /\ Fresh(m) /\ ~ Fresh(m)'
  <2>1. mail'[m] = to
    BY <1>5, <1>8
  <2>2. CASE took
    <3>1. Accept(m)
      BY <1>8, <2>2
    <3>2. ~ Fresh(m)'
      BY <1>8, <2>1, <2>2 DEF Fresh
    <3> QED
      BY <1>1, <1>6, <3>1, <3>2 DEF Fresh
  <2>3. CASE ~ took
    BY <1>1, <1>8, <2>1, <2>3 DEF Fresh
  <2> QED
    BY <2>2, <2>3
<1>9. CASE PassingError(m)
  <2>1. PICK took \in BOOLEAN :
          /\ IF took THEN Accept(m) ELSE UNCHANGED inbox
          /\ mail' = [mail EXCEPT ![m] =
               IF j.tries + 1 < Tries THEN [Again(m, took) EXCEPT !.tries = @ + 1] ELSE Over(m)]
    BY <1>9 DEF PassingError
  <2> DEFINE a == Again(m, took)
             to == IF j.tries + 1 < Tries THEN [a EXCEPT !.tries = a.tries + 1] ELSE Over(m)
  <2>2. ASSUME j.tries + 1 < Tries
        PROVE  LET b == [a EXCEPT !.tries = a.tries + 1]
               IN  /\ b \in MailJob /\ b.letter = j.letter /\ b.state = "waiting"
                   /\ b.taken = (j.taken \/ took)
    <3>1. a.tries + 1 \in 0 .. Tries - 1
      BY <1>2, <1>4, <2>2, MailerAssumption
    <3> HIDE DEF a
    <3> QED
      BY <1>4, <3>1 DEF MailJob, a
  <2>3. to \in MailJob /\ to.letter = j.letter
        /\ (to.state = "waiting" => to.taken = (j.taken \/ took))
    BY <1>3, <2>2
  <2>4. mail' = [mail EXCEPT ![m] = to]
    BY <2>1
  <2> HIDE DEF to
  <2> QED
    BY <1>1, <1>2, <1>5, <1>8, <2>1, <2>3, <2>4
<1>10. CASE MailWorkerDies(m)
  <2>1. PICK took \in BOOLEAN :
          /\ IF took THEN Accept(m) ELSE UNCHANGED inbox
          /\ mail' = [mail EXCEPT ![m] =
               IF j.stalls = 0 THEN [Again(m, took) EXCEPT !.stalls = 1] ELSE Over(m)]
    BY <1>10 DEF MailWorkerDies
  <2> DEFINE a == Again(m, took)
             to == IF j.stalls = 0 THEN [a EXCEPT !.stalls = 1] ELSE Over(m)
  <2>2. LET b == [a EXCEPT !.stalls = 1]
        IN  /\ b \in MailJob /\ b.letter = j.letter /\ b.state = "waiting"
            /\ b.taken = (j.taken \/ took)
    <3>1. 1 \in 0 .. 1
      OBVIOUS
    <3> HIDE DEF a
    <3> QED
      BY <1>4, <3>1 DEF MailJob, a
  <2>3. to \in MailJob /\ to.letter = j.letter
        /\ (to.state = "waiting" => to.taken = (j.taken \/ took))
    BY <1>3, <2>2
  <2>4. mail' = [mail EXCEPT ![m] = to]
    BY <2>1
  <2> HIDE DEF to
  <2> QED
    BY <1>1, <1>2, <1>5, <1>8, <2>1, <2>3, <2>4
<1> QED
  BY <1>7, <1>9, <1>10 DEF Deliver

LEMMA DirectType ==
    ASSUME MailerTypeOK, NEW l \in Letters, DeliverDirect(l)
    PROVE  inbox' \in [Letters -> Nat] /\ \A k \in Letters : k # l => inbox'[k] = inbox[k]
BY MailerAssumption DEF MailerTypeOK, DeliverDirect

LEMMA NextMailerType ==
    ASSUME NoticeOK, MailerTypeOK, [NoticeNext]_nvars
    PROVE  MailerTypeOK'
<1>1. CASE UNCHANGED mailer
  BY <1>1 DEF mailer, MailerTypeOK
<1>2. ASSUME NEW m \in Mails, Deliver(m) PROVE MailerTypeOK'
  <2>1. mail' \in [Mails -> MailJob \cup {Unused}] /\ mail[m].letter \in Letters
    BY <1>2, DeliverShape
  <2>2. inbox' = inbox \/ inbox' = [inbox EXCEPT ![mail[m].letter] = @ + 1]
    BY <1>2, DeliverShape
  <2> QED
    BY <2>1, <2>2 DEF MailerTypeOK
<1>3. ASSUME NEW w \in Workers, PostMail(w) PROVE MailerTypeOK'
  <2>1. Invoice(w) \in Letters
    BY <1>3, RunningEvent DEF PostMail, At
  <2> QED
    BY <1>3, <2>1, PostShape DEF PostMail, MailerTypeOK
<1>4. ASSUME NEW w \in Workers, PostFails(w) PROVE MailerTypeOK'
  <2>1. Invoice(w) \in Letters
    BY <1>4, RunningEvent DEF PostFails, At
  <2>2. mail' \in [Mails -> MailJob \cup {Unused}]
    BY <1>4, <2>1, PostShape DEF PostFails, MailerTypeOK
  <2>3. inbox' \in [Letters -> Nat]
    BY <1>4, <2>1, DirectType DEF PostFails
  <2> QED
    BY <2>2, <2>3 DEF MailerTypeOK
<1> QED
  BY <1>1, <1>2, <1>3, <1>4 DEF NoticeNext, WorkStep, ReadFails, NobodyToMail, MarkMail,
     AlreadyMarked, OnceFails, Finish, LoseLock, DieLate, Take, DeliveryStep, OtherJob,
     nvars, mailer

\* NoticeTypeOK, for any values of the constants.
THEOREM NoticeTypeCorrect == NoticeSpec => []NoticeTypeOK
<1> DEFINE Inv == SafetyInv /\ NoticeOK /\ MailerTypeOK
<1>1. NoticeInit => Inv
  <2> SUFFICES ASSUME NoticeInit PROVE Inv
    OBVIOUS
  <2>1. NoticeOK
    BY NoticeAssumption DEF NoticeInit, WorkInit, NoticeOK, Reasons
  <2>2. MailerTypeOK
    BY DEF NoticeInit, MailerInit, MailerTypeOK
  <2> QED
    BY <2>1, <2>2, InitSafety DEF NoticeInit
<1>2. Inv /\ [NoticeNext]_nvars => Inv'
  BY StepMaps, NextSafety, NextNoticeOK, NextMailerType
<1>3. Inv => NoticeTypeOK
  BY DEF SafetyInv, NoticeOK, NoticeTypeOK
<1> QED
  BY <1>1, <1>2, <1>3, PTL DEF NoticeSpec

\* The handler, its workers and the e-mail queue implement the intake: WebhookDelivery
\* leaves open what a job does, and this is one of the things it may do.
THEOREM NoticeImplementsDelivery == NoticeSpec => Init /\ [][Next]_vars
<1>1. NoticeInit => Init /\ NoticeOK
  BY NoticeAssumption DEF NoticeInit, WorkInit, NoticeOK, Reasons
<1>2. NoticeOK /\ [NoticeNext]_nvars => NoticeOK' /\ [Next]_vars
  BY NextNoticeOK, StepMaps
<1> QED
  BY <1>1, <1>2, PTL DEF NoticeSpec

\* What WebhookDelivery promises holds with the real handler and its workers too:
\* one job per event, but for those that an add stored and threw, and what Stripe
\* heard a 2xx for is queued.
THEOREM NoticeKeepsDelivery == NoticeSpec => [](OneJobPerEvent /\ CleanAckedIsQueued)
<1> DEFINE Inv == SafetyInv /\ NoticeOK
<1>1. NoticeInit => Inv
  BY InitSafety, NoticeAssumption DEF NoticeInit, WorkInit, NoticeOK, Reasons
<1>2. Inv /\ [NoticeNext]_nvars => Inv'
  BY StepMaps, NextSafety, NextNoticeOK
<1>3. Inv => OneJobPerEvent /\ CleanAckedIsQueued
  BY DEF SafetyInv, OwnerInv, Owns, TypeOK, CleanInv, Clean, OneJobPerEvent, CleanAckedIsQueued,
         Queued
<1> QED
  BY <1>1, <1>2, <1>3, PTL DEF NoticeSpec

-----------------------------------------------------------------------------
(* One copy of the e-mail.                                                 *)

\* A step that queues and delivers nothing, puts no worker before the send, takes
\* no key away and forgets no excuse.
LEMMA TokenFrame ==
    ASSUME TokenInv, UNCHANGED mailer, once \subseteq once',
           \A l \in Letters : excused[l] \subseteq excused'[l],
           \A l \in Letters, w \in Workers :
              "redis" \notin excused'[l] /\ Sends(w, l)' => Sends(w, l)
    PROVE  TokenInv'
<1>1. mail' = mail /\ inbox' = inbox
  BY DEF mailer
<1>2. \A l \in Letters, m \in Mails :
         (Carries(m, l)' <=> Carries(m, l)) /\ (Fresh(m)' <=> Fresh(m))
  BY <1>1 DEF Carries, Fresh
<1> QED
  BY <1>1, <1>2 DEF TokenInv

LEMMA MovedSends ==
    ASSUME NoticeOK, NEW w \in Workers, work[w] \in Run,
           NEW step \in {"start", "send", "end"}, GoTo(w, step),
           NEW l \in Letters, NEW v \in Workers, Sends(v, l)'
    PROVE  Sends(v, l) \/ (v = w /\ step = "send" /\ l = Invoice(w))
<1>1. CASE v # w
  BY <1>1, GoToType DEF Sends
<1>2. CASE v = w
  BY <1>2, GoToType DEF Sends, Invoice
<1> QED
  BY <1>1, <1>2

LEMMA TokenMark ==
    ASSUME NoticeOK, MailerTypeOK, TokenInv, NEW w \in Workers, MarkMail(w)
    PROVE  TokenInv'
<1>0. work[w] \in Run /\ Invoice(w) \in Letters
  BY RunningEvent DEF MarkMail, At
<1>1. PICK k \in Letters : k = Invoice(w)
  BY <1>0
<1>2. /\ mail' = mail /\ inbox' = inbox /\ excused' = excused
      /\ k \notin once /\ once' = once \cup {k} /\ GoTo(w, "send")
  BY <1>1 DEF MarkMail, mailer
<1>3. \A l \in Letters, v \in Workers : Sends(v, l)' => Sends(v, l) \/ (v = w /\ l = k)
  BY <1>0, <1>1, <1>2, MovedSends
<1>4. \A l \in Letters, m \in Mails :
         (Carries(m, l)' <=> Carries(m, l)) /\ (Fresh(m)' <=> Fresh(m))
  BY <1>2 DEF Carries, Fresh
<1>5. "redis" \notin excused[k] =>
         (\A v \in Workers : ~ Sends(v, k)) /\ (\A m \in Mails : ~ Carries(m, k))
  BY <1>2 DEF TokenInv
<1> QED
  BY <1>2, <1>3, <1>4, <1>5 DEF TokenInv

LEMMA TokenPost ==
    ASSUME NoticeOK, MailerTypeOK, TokenInv, NEW w \in Workers, PostMail(w)
    PROVE  TokenInv'
<1>0. work[w] \in Run /\ Invoice(w) \in Letters
  BY RunningEvent DEF PostMail, At
<1>1. PICK k \in Letters : k = Invoice(w)
  BY <1>0
<1>2. PICK m \in Mails : Post(m, k)
  BY <1>1 DEF PostMail
<1>3. inbox' = inbox /\ excused' = excused /\ once' = once /\ GoTo(w, "end") /\ Sends(w, k)
  BY <1>1 DEF PostMail, At, Sends, Invoice
<1>4. /\ ~ Sends(w, k)'
      /\ \A l \in Letters, v \in Workers : Sends(v, l)' => Sends(v, l) /\ v # w
  BY <1>0, <1>3, MovedSends, GoToType DEF Sends
<1>5. /\ mail'[m].state = "waiting" /\ mail'[m].letter = k /\ mail[m].state = "unused"
      /\ \A n \in Mails : n # m => mail'[n] = mail[n]
  BY <1>2, PostShape
<1>6. /\ Carries(m, k)' /\ \A l \in Letters : l # k => ~ Carries(m, l)'
      /\ \A l \in Letters : ~ Carries(m, l)
      /\ \A l \in Letters, n \in Mails : n # m => (Carries(n, l)' <=> Carries(n, l))
      /\ \A n \in Mails : n # m => (Fresh(n)' <=> Fresh(n))
  BY <1>5 DEF Carries, Fresh
<1>7. ASSUME "redis" \notin excused[k]
      PROVE  /\ k \in once /\ \A n \in Mails : ~ Carries(n, k)
             /\ \A v \in Workers : Sends(v, k) => v = w
             /\ inbox[k] = 0
  BY <1>3, <1>7 DEF TokenInv
<1> QED
  <2> SUFFICES ASSUME NEW l \in Letters, "redis" \notin excused'[l]
               PROVE  /\ \A v \in Workers : Sends(v, l)' => l \in once'
                      /\ \A n \in Mails : Carries(n, l)' => l \in once'
                      /\ \A u, v \in Workers : Sends(u, l)' /\ Sends(v, l)' => u = v
                      /\ \A a, b \in Mails : Carries(a, l)' /\ Carries(b, l)' => a = b
                      /\ \A v \in Workers, n \in Mails : ~ (Sends(v, l)' /\ Carries(n, l)')
                      /\ inbox'[l] \in {0, 1}
                      /\ inbox'[l] = 1 => \E n \in Mails : Carries(n, l)'
                      /\ \A n \in Mails : Carries(n, l)' /\ Fresh(n)' => inbox'[l] = 0
    BY DEF TokenInv
  <2>1. CASE l = k
    BY <1>3, <1>4, <1>6, <1>7, <2>1
  <2>2. CASE l # k
    BY <1>3, <1>4, <1>6, <2>2 DEF TokenInv
  <2> QED
    BY <2>1, <2>2

LEMMA TokenFault ==
    ASSUME NoticeOK, MailerTypeOK, TokenInv, NEW w \in Workers, OnceFails(w) \/ PostFails(w)
    PROVE  TokenInv'
<1>0. work[w] \in Run /\ Invoice(w) \in Letters
  BY RunningEvent DEF OnceFails, PostFails, At
<1>1. PICK k \in Letters : k = Invoice(w)
  BY <1>0
<1>2. /\ "redis" \in excused'[k] /\ once \subseteq once'
      /\ \A l \in Letters : l # k => excused'[l] = excused[l]
  BY <1>0, <1>1, ExcuseType DEF OnceFails, PostFails, Reasons
<1>3. PICK step \in {"send", "end"} : GoTo(w, step)
  BY DEF OnceFails, PostFails
<1>4. \A l \in Letters, v \in Workers : l # k /\ Sends(v, l)' => Sends(v, l)
  BY <1>0, <1>1, <1>3, MovedSends
<1>5. \A l \in Letters : l # k => inbox'[l] = inbox[l]
  <2>1. CASE OnceFails(w)
    BY <2>1 DEF OnceFails, mailer
  <2>2. CASE PostFails(w)
    BY <1>0, <1>1, <2>2, DirectType DEF PostFails
  <2> QED
    BY <2>1, <2>2
<1>6. \A l \in Letters, n \in Mails : l # k =>
         (Carries(n, l)' <=> Carries(n, l)) /\ (Carries(n, l) => (Fresh(n)' <=> Fresh(n)))
  <2>1. CASE mail' = mail
    BY <2>1 DEF Carries, Fresh
  <2>2. ASSUME NEW m \in Mails, Post(m, k)
        PROVE  \A l \in Letters, n \in Mails : l # k =>
                  (Carries(n, l)' <=> Carries(n, l)) /\ (Carries(n, l) => (Fresh(n)' <=> Fresh(n)))
    <3>1. /\ mail'[m].letter = k /\ mail[m].state = "unused"
          /\ \A n \in Mails : n # m => mail'[n] = mail[n]
      BY <2>2, PostShape
    <3> QED
      BY <3>1 DEF Carries, Fresh
  <2> QED
    BY <1>1, <2>1, <2>2 DEF OnceFails, PostFails, mailer
<1> QED
  <2> SUFFICES ASSUME NEW l \in Letters, l # k, "redis" \notin excused[l]
               PROVE  /\ \A v \in Workers : Sends(v, l)' => l \in once'
                      /\ \A n \in Mails : Carries(n, l)' => l \in once'
                      /\ \A u, v \in Workers : Sends(u, l)' /\ Sends(v, l)' => u = v
                      /\ \A a, b \in Mails : Carries(a, l)' /\ Carries(b, l)' => a = b
                      /\ \A v \in Workers, n \in Mails : ~ (Sends(v, l)' /\ Carries(n, l)')
                      /\ inbox'[l] \in {0, 1}
                      /\ inbox'[l] = 1 => \E n \in Mails : Carries(n, l)'
                      /\ \A n \in Mails : Carries(n, l)' /\ Fresh(n)' => inbox'[l] = 0
    BY <1>2 DEF TokenInv
  <2> QED
    BY <1>2, <1>4, <1>5, <1>6 DEF TokenInv

LEMMA TokenDeliver ==
    ASSUME NoticeOK, MailerTypeOK, TokenInv, NEW m \in Mails,
           Deliver(m) /\ UNCHANGED <<vars, notice>>
    PROVE  TokenInv'
<1>0. mail[m].letter \in Letters
  BY DeliverShape
<1>1. PICK k \in Letters : k = mail[m].letter
  BY <1>0
<1>2. /\ mail[m].state = "waiting" /\ mail'[m].state # "unused" /\ mail'[m].letter = k
      /\ \A n \in Mails : n # m => mail'[n] = mail[n]
      /\ \/ inbox' = inbox /\ (Fresh(m)' => Fresh(m))
         \/ inbox' = [inbox EXCEPT ![k] = @ + 1] /\ Fresh(m) /\ ~ Fresh(m)'
  BY <1>1, DeliverShape
<1>3. work' = work /\ once' = once /\ excused' = excused
  BY DEF notice
<1>4. /\ \A l \in Letters, v \in Workers : Sends(v, l)' <=> Sends(v, l)
      /\ \A l \in Letters, n \in Mails : Carries(n, l)' <=> Carries(n, l)
      /\ \A n \in Mails : Fresh(n)' => Fresh(n)
      /\ Carries(m, k)
  BY <1>1, <1>2, <1>3 DEF Sends, Carries, Fresh
<1>5. \A l \in Letters : inbox[l] \in Nat
  BY DEF MailerTypeOK
<1>6. CASE inbox' = inbox
  BY <1>3, <1>4, <1>6 DEF TokenInv
<1>7. CASE inbox' = [inbox EXCEPT ![k] = @ + 1] /\ Fresh(m) /\ ~ Fresh(m)'
  <2>1. \A l \in Letters : inbox'[l] = IF l = k THEN inbox[k] + 1 ELSE inbox[l]
    BY <1>7 DEF MailerTypeOK
  <2>2. ASSUME "redis" \notin excused[k]
        PROVE  inbox[k] = 0 /\ \A n \in Mails : Carries(n, k) => n = m
    BY <1>4, <1>7, <2>2 DEF TokenInv
  <2> SUFFICES ASSUME NEW l \in Letters, "redis" \notin excused[l]
               PROVE  /\ \A v \in Workers : Sends(v, l)' => l \in once'
                      /\ \A n \in Mails : Carries(n, l)' => l \in once'
                      /\ \A u, v \in Workers : Sends(u, l)' /\ Sends(v, l)' => u = v
                      /\ \A a, b \in Mails : Carries(a, l)' /\ Carries(b, l)' => a = b
                      /\ \A v \in Workers, n \in Mails : ~ (Sends(v, l)' /\ Carries(n, l)')
                      /\ inbox'[l] \in {0, 1}
                      /\ inbox'[l] = 1 => \E n \in Mails : Carries(n, l)'
                      /\ \A n \in Mails : Carries(n, l)' /\ Fresh(n)' => inbox'[l] = 0
    BY <1>3 DEF TokenInv
  <2>3. CASE l = k
    BY <1>3, <1>4, <1>7, <2>1, <2>2, <2>3 DEF TokenInv
  <2>4. CASE l # k
    BY <1>3, <1>4, <2>1, <2>4 DEF TokenInv
  <2> QED
    BY <2>3, <2>4
<1> QED
  BY <1>2, <1>6, <1>7

\* The steps of a worker that neither take the key nor send.
LEMMA TokenQuiet ==
    ASSUME NoticeOK, TokenInv, NEW w \in Workers,
           ReadFails(w) \/ NobodyToMail(w) \/ AlreadyMarked(w) \/ Finish(w)
             \/ LoseLock(w) \/ DieLate(w)
    PROVE  TokenInv'
<1>1. UNCHANGED mailer /\ once' = once
  BY DEF ReadFails, NobodyToMail, AlreadyMarked, Finish, LoseLock, DieLate
<1>2. \A l \in Letters : excused[l] \subseteq excused'[l]
  <2>1. CASE excused' = excused
    BY <2>1
  <2>2. CASE Excuse(w, "lost") /\ work[w].at \in {"start", "send", "end"}
    BY <2>2, RunningEvent, ExcuseType DEF Reasons
  <2> QED
    BY <2>1, <2>2 DEF ReadFails, NobodyToMail, AlreadyMarked, Finish, LoseLock, DieLate, At
<1>3. \A l \in Letters, v \in Workers : Sends(v, l)' => Sends(v, l)
  <2>1. CASE work' = [work EXCEPT ![w] = Idle]
    BY <2>1 DEF Sends, NoticeOK, Idle
  <2>2. CASE GoTo(w, "end") /\ At(w, "start")
    BY <2>2, RunningEvent, MovedSends DEF At
  <2>3. CASE LoseLock(w) /\ work' = [work EXCEPT ![w].holds = FALSE]
    <3>1. work[w] \in Run
      BY <2>3, RunShapes DEF LoseLock, NoticeOK
    <3>2. [work[w] EXCEPT !.holds = FALSE].at = work[w].at
          /\ [work[w] EXCEPT !.holds = FALSE].job = work[w].job
      BY <3>1 DEF Run
    <3> QED
      BY <2>3, <3>2 DEF Sends, NoticeOK
  <2> QED
    BY <2>1, <2>2, <2>3 DEF ReadFails, NobodyToMail, AlreadyMarked, Finish, LoseLock, DieLate
<1> QED
  BY <1>1, <1>2, <1>3, TokenFrame

LEMMA NextToken == NoticeOK /\ MailerTypeOK /\ TokenInv /\ [NoticeNext]_nvars => TokenInv'
<1> SUFFICES ASSUME NoticeOK, MailerTypeOK, TokenInv, [NoticeNext]_nvars PROVE TokenInv'
  OBVIOUS
<1>1. CASE UNCHANGED <<mailer, notice>>
  BY <1>1, TokenFrame DEF notice, Sends
<1>2. ASSUME NEW w \in Workers, NEW i \in JobIds, Take(w, i) PROVE TokenInv'
  <2>1. \A l \in Letters, v \in Workers : Sends(v, l)' => Sends(v, l)
    BY <1>2 DEF Take, Sends, NoticeOK
  <2> QED
    BY <1>2, <2>1, TokenFrame DEF Take
<1>3. ASSUME NEW w \in Workers, WorkStep(w) PROVE TokenInv'
  BY <1>3, TokenMark, TokenPost, TokenFault, TokenQuiet DEF WorkStep
<1> QED
  BY <1>1, <1>2, <1>3, TokenDeliver DEF NoticeNext, DeliveryStep, OtherJob, nvars

\* NoticeOnce, for any events, invoices, workers, attempts and faults.
THEOREM OneCopy == NoticeSpec => []NoticeOnce
<1> DEFINE Inv == NoticeOK /\ MailerTypeOK /\ TokenInv
<1>1. NoticeInit => Inv
  <2> SUFFICES ASSUME NoticeInit PROVE Inv
    OBVIOUS
  <2>1. NoticeOK
    BY NoticeAssumption DEF NoticeInit, WorkInit, NoticeOK, Reasons
  <2>2. MailerTypeOK
    BY DEF NoticeInit, MailerInit, MailerTypeOK
  <2>3. TokenInv
    BY DEF NoticeInit, WorkInit, MailerInit, TokenInv, Sends, Carries, Idle, Unused
  <2> QED
    BY <2>1, <2>2, <2>3
<1>2. Inv /\ [NoticeNext]_nvars => Inv'
  BY NextNoticeOK, NextMailerType, NextToken
<1>3. Inv => NoticeOnce
  BY DEF TokenInv, NoticeOnce
<1> QED
  BY <1>1, <1>2, <1>3, PTL DEF NoticeSpec

-----------------------------------------------------------------------------
(* A handled event has its e-mail.                                         *)

\* The jobs of the queue keep their letters.
LEMMA CarriesStay ==
    ASSUME NoticeOK, MailerTypeOK, [NoticeNext]_nvars,
           NEW l \in Letters, NEW m \in Mails, Carries(m, l)
    PROVE  Carries(m, l)'
<1>1. CASE mail' = mail
  BY <1>1 DEF Carries
<1>2. ASSUME NEW n \in Mails, Deliver(n) PROVE Carries(m, l)'
  BY <1>2, DeliverShape DEF Carries
<1>3. ASSUME NEW n \in Mails, NEW k \in Letters, Post(n, k) PROVE Carries(m, l)'
  BY <1>3, PostShape DEF Carries
<1>4. ASSUME NEW w \in Workers, PostMail(w) \/ PostFails(w) PROVE Carries(m, l)'
  <2>1. Invoice(w) \in Letters
    BY <1>4, RunningEvent DEF PostMail, PostFails, At
  <2> QED
    BY <1>1, <1>3, <1>4, <2>1 DEF PostMail, PostFails
<1> QED
  BY <1>1, <1>2, <1>4 DEF NoticeNext, WorkStep, ReadFails, NobodyToMail, MarkMail,
     AlreadyMarked, OnceFails, Finish, LoseLock, DieLate, Take, DeliveryStep, OtherJob,
     nvars, mailer

\* A letter that is settled stays settled.
LEMMA SettledFrame ==
    ASSUME NoticeOK, MailerTypeOK, [NoticeNext]_nvars, NEW l \in Letters, Settled(l),
           excused[l] \subseteq excused'[l],
           \A v \in Workers : Sends(v, l) =>
              Sends(v, l)' \/ excused'[l] # {} \/ \E m \in Mails : Carries(m, l)'
    PROVE  Settled(l)'
BY CarriesStay DEF Settled

\* What a worker's step does to what is settled: the sender of a letter stays, or
\* leaves it queued or excused.
LEMMA WorkerSettles ==
    ASSUME NoticeOK, MailerTypeOK, NEW w \in Workers, WorkStep(w), NEW l \in Letters
    PROVE  /\ excused[l] \subseteq excused'[l]
           /\ \A v \in Workers : Sends(v, l) =>
                 Sends(v, l)' \/ excused'[l] # {} \/ \E m \in Mails : Carries(m, l)'
<1>1. excused[l] \subseteq excused'[l]
  <2>1. CASE excused' = excused
    BY <2>1
  <2>2. ASSUME NEW why \in Reasons, Excuse(w, why), work[w].at \in {"start", "send", "end"}
        PROVE  excused[l] \subseteq excused'[l]
    BY <2>2, RunningEvent, ExcuseType
  <2> QED
    BY <2>1, <2>2 DEF WorkStep, ReadFails, NobodyToMail, MarkMail, AlreadyMarked, OnceFails,
       PostMail, PostFails, Finish, LoseLock, DieLate, At, Reasons
<1>2. ASSUME NEW v \in Workers, v # w PROVE work'[v] = work[v]
  BY <1>2 DEF WorkStep, ReadFails, NobodyToMail, MarkMail, AlreadyMarked, OnceFails,
     PostMail, PostFails, Finish, LoseLock, DieLate, GoTo, NoticeOK
<1>3. ASSUME Sends(w, l)
      PROVE  Sends(w, l)' \/ excused'[l] # {} \/ \E m \in Mails : Carries(m, l)'
  <2>1. At(w, "send") /\ Invoice(w) = l /\ work[w] \in Run
    BY <1>3, RunningEvent DEF Sends, At, Invoice
  <2>2. CASE PostMail(w)
    <3>1. PICK m \in Mails : Post(m, l)
      BY <2>1, <2>2 DEF PostMail
    <3> QED
      BY <3>1, PostShape DEF Carries
  <2>3. CASE PostFails(w)
    <3>1. "redis" \in excused'[l]
      BY <2>1, <2>3, ExcuseType DEF PostFails, Reasons
    <3> QED
      BY <3>1
  <2>4. CASE LoseLock(w) /\ work' = [work EXCEPT ![w].holds = FALSE]
    <3>1. [work[w] EXCEPT !.holds = FALSE].at = work[w].at
          /\ [work[w] EXCEPT !.holds = FALSE].job = work[w].job
      BY <2>1 DEF Run
    <3> QED
      BY <1>3, <2>4, <3>1 DEF Sends, NoticeOK
  <2>5. CASE Excuse(w, "lost")
    <3>1. "lost" \in excused'[l]
      BY <2>1, <2>5, ExcuseType DEF Reasons
    <3> QED
      BY <3>1
  <2> QED
    BY <2>1, <2>2, <2>3, <2>4, <2>5 DEF WorkStep, ReadFails, NobodyToMail, MarkMail,
       AlreadyMarked, OnceFails, Finish, LoseLock, DieLate, At
<1> QED
  BY <1>1, <1>2, <1>3 DEF Sends

LEMMA KeepSettled ==
    ASSUME NoticeOK, MailerTypeOK, [NoticeNext]_nvars, NEW l \in Letters, Settled(l)
    PROVE  Settled(l)'
<1>1. ASSUME NEW w \in Workers, WorkStep(w) PROVE Settled(l)'
  BY <1>1, WorkerSettles, SettledFrame
<1>2. CASE excused' = excused /\ \A v \in Workers : Sends(v, l) => Sends(v, l)'
  BY <1>2, SettledFrame
<1>3. ASSUME NEW w \in Workers, NEW i \in JobIds, Take(w, i) PROVE Settled(l)'
  BY <1>2, <1>3 DEF Take, Sends, NoticeOK, Idle
<1>4. CASE UNCHANGED notice
  BY <1>2, <1>4 DEF notice, Sends
<1> QED
  BY <1>1, <1>3, <1>4 DEF NoticeNext, DeliveryStep, OtherJob, nvars

\* A key is taken with the send to follow.
LEMMA KeysSettled ==
    ASSUME NoticeOK, MailerTypeOK, SettledInv, [NoticeNext]_nvars
    PROVE  \A l \in once' : Settled(l)'
<1>1. CASE once' = once
  BY <1>1, KeepSettled DEF SettledInv, NoticeOK
<1>2. ASSUME NEW w \in Workers, MarkMail(w) \/ OnceFails(w)
      PROVE  \A l \in once' : Settled(l)'
  <2>1. work[w] \in Run /\ Invoice(w) \in Letters /\ GoTo(w, "send")
    BY <1>2, RunningEvent DEF MarkMail, OnceFails, At
  <2>2. PICK k \in Letters : k = Invoice(w)
    BY <2>1
  <2>3. Sends(w, k)'
    BY <2>1, <2>2, GoToType DEF Sends, Invoice
  <2>4. once' \subseteq once \cup {k}
    BY <1>2, <2>2 DEF MarkMail, OnceFails
  <2> QED
    BY <2>3, <2>4, KeepSettled DEF SettledInv, NoticeOK, Settled
<1> QED
  BY <1>1, <1>2 DEF NoticeNext, WorkStep, ReadFails, NobodyToMail, AlreadyMarked, PostMail,
     PostFails, Finish, LoseLock, DieLate, Take, DeliveryStep, OtherJob, nvars, notice

\* A worker reaches the end of the handler with the e-mail settled.
LEMMA EndsSettled ==
    ASSUME NoticeOK, MailerTypeOK, SettledInv, [NoticeNext]_nvars,
           NEW v \in Workers, work'[v].at = "end"
    PROVE  \E k \in Letters : k = InvoiceOf[work'[v].job.e] /\ Settled(k)'
<1>1. ASSUME work[v].at = "end", work'[v].job = work[v].job
      PROVE  \E k \in Letters : k = InvoiceOf[work'[v].job.e] /\ Settled(k)'
  <2>1. PICK k \in Letters : k = Invoice(v)
    BY <1>1, RunningEvent
  <2>2. Settled(k)
    BY <1>1, <2>1 DEF SettledInv, Invoice
  <2>3. Settled(k)'
    BY <2>2, KeepSettled
  <2>4. k = InvoiceOf[work'[v].job.e]
    BY <1>1, <2>1 DEF Invoice
  <2> QED
    BY <2>3, <2>4
<1>2. CASE UNCHANGED notice
  BY <1>1, <1>2 DEF notice
<1>3. ASSUME NEW w \in Workers, NEW i \in JobIds, Take(w, i)
      PROVE  \E k \in Letters : k = InvoiceOf[work'[v].job.e] /\ Settled(k)'
  BY <1>1, <1>3 DEF Take, NoticeOK
<1>4. ASSUME NEW w \in Workers, WorkStep(w)
      PROVE  \E k \in Letters : k = InvoiceOf[work'[v].job.e] /\ Settled(k)'
  <2>1. CASE v # w
    <3>1. work'[v] = work[v]
      BY <1>4, <2>1 DEF WorkStep, ReadFails, NobodyToMail, MarkMail, AlreadyMarked, OnceFails,
         PostMail, PostFails, Finish, LoseLock, DieLate, GoTo, NoticeOK
    <3> QED
      BY <1>1, <3>1
  <2>2. CASE v = w
    <3>1. CASE work' = [work EXCEPT ![w] = Idle]
      BY <2>2, <3>1 DEF NoticeOK, Idle
    <3>2. CASE LoseLock(w) /\ work' = [work EXCEPT ![w].holds = FALSE]
      <4>1. work[w] \in Run
        BY <3>2, RunShapes DEF LoseLock, NoticeOK
      <4>2. [work[w] EXCEPT !.holds = FALSE].at = work[w].at
            /\ [work[w] EXCEPT !.holds = FALSE].job = work[w].job
        BY <4>1 DEF Run
      <4> QED
        BY <1>1, <2>2, <3>2, <4>2 DEF NoticeOK
    <3>3. CASE MarkMail(w) \/ OnceFails(w)
      <4>1. work'[w].at = "send"
        BY <3>3, RunningEvent, GoToType DEF MarkMail, OnceFails, At
      <4> QED
        BY <2>2, <4>1
    <3>4. CASE NobodyToMail(w) \/ AlreadyMarked(w) \/ PostMail(w) \/ PostFails(w)
      <4>1. work[w] \in Run /\ Invoice(w) \in Letters /\ GoTo(w, "end")
        BY <3>4, RunningEvent DEF NobodyToMail, AlreadyMarked, PostMail, PostFails, At
      <4>2. PICK k \in Letters : k = Invoice(w)
        BY <4>1
      <4>3. k = InvoiceOf[work'[w].job.e]
        BY <4>1, <4>2, GoToType DEF Invoice
      <4>4. Settled(k)'
        <5>1. CASE NobodyToMail(w) \/ PostFails(w)
          <6>1. excused'[k] # {}
            BY <4>1, <4>2, <5>1, ExcuseType DEF NobodyToMail, PostFails, Reasons
          <6> QED
            BY <6>1 DEF Settled
        <5>2. CASE AlreadyMarked(w)
          BY <4>2, <5>2, KeepSettled DEF AlreadyMarked, SettledInv
        <5>3. CASE PostMail(w)
          <6>1. PICK m \in Mails : Post(m, k)
            BY <4>2, <5>3 DEF PostMail
          <6>2. Carries(m, k)'
            BY <6>1, PostShape DEF Carries
          <6> QED
            BY <6>2 DEF Settled
        <5> QED
          BY <3>4, <5>1, <5>2, <5>3
      <4> QED
        BY <2>2, <4>3, <4>4
    <3> QED
      BY <1>4, <3>1, <3>2, <3>3, <3>4 DEF WorkStep, ReadFails, Finish, LoseLock, DieLate
  <2> QED
    BY <2>1, <2>2
<1> QED
  BY <1>2, <1>3, <1>4 DEF NoticeNext, DeliveryStep, OtherJob, nvars

\* A job of a notice is done only when a worker has reached the end of its handler.
LEMMA DoneSettled ==
    ASSUME SafetyInv, NoticeOK, MailerTypeOK, SettledInv, [NoticeNext]_nvars,
           NEW j \in JobIds, j.e \in notices, job'[j].state = "done"
    PROVE  Settled(InvoiceOf[j.e])'
<1>0. j.e \in Events /\ job \in [JobIds -> Job]
  BY DEF NoticeOK, SafetyInv, TypeOK
<1>1. PICK k \in Letters : k = InvoiceOf[j.e]
  BY <1>0, NoticeAssumption
<1>2. CASE job[j].state = "done"
  BY <1>1, <1>2, KeepSettled DEF SettledInv
<1>3. ASSUME NEW w \in Workers, Finish(w), job[j].state # "done"
      PROVE  Settled(k)'
  <2>1. work[w].job \in JobIds /\ Invoice(w) \in Letters
    BY <1>3, RunningEvent DEF Finish, At
  <2>2. work[w].job = j
    BY <1>0, <1>3, <2>1 DEF Finish, HandlerDone, SetJob, vars
  <2>3. Settled(k)
    BY <1>1, <1>3, <2>2 DEF Finish, At, SettledInv
  <2> QED
    BY <2>3, KeepSettled
<1>4. CASE job[j].state # "done"
  <2>1. ASSUME NEW f \in JobIds, NEW from, NEW to, SetJob(f, from, to), to.state # "done"
        PROVE  FALSE
    BY <1>0, <1>4, <2>1 DEF SetJob
  <2>2. ASSUME job' = job PROVE FALSE
    BY <1>4, <2>2
  <2>3. ASSUME NEW f \in JobIds, Add(f) PROVE FALSE
    BY <1>0, <1>4, <2>3, AddShape
  <2>4. ASSUME NEW f \in JobIds, TakeJob(f) \/ HandlerThrows(f) \/ WorkerDies(f) PROVE FALSE
    <3>1. job[f] \in Job
      BY <1>0
    <3>2. CASE TakeJob(f)
      <4>1. [job[f] EXCEPT !.state = "active"].state = "active"
        BY <3>1 DEF Job
      <4> QED
        BY <2>1, <3>2, <4>1 DEF TakeJob
    <3>3. CASE HandlerThrows(f)
      <4> DEFINE again == job[f].tries + 1 < Attempts
                 to == [job[f] EXCEPT !.tries = @ + 1,
                                      !.state = IF again THEN "waiting" ELSE "failed"]
      <4>1. to.state = IF again THEN "waiting" ELSE "failed"
        BY <3>1 DEF Job
      <4>2. to.state # "done" /\ SetJob(f, "active", to)
        BY <3>3, <4>1 DEF HandlerThrows
      <4> HIDE DEF to
      <4> QED
        BY <2>1, <4>2
    <3>4. CASE WorkerDies(f)
      <4> DEFINE to == IF job[f].stalls = 0
                       THEN [job[f] EXCEPT !.state = "waiting", !.stalls = 1]
                       ELSE [job[f] EXCEPT !.state = "failed"]
      <4>1. to.state \in {"waiting", "failed"}
        BY <3>1 DEF Job
      <4>2. to.state # "done" /\ SetJob(f, "active", to)
        BY <3>4, <4>1 DEF WorkerDies
      <4> HIDE DEF to
      <4> QED
        BY <2>1, <4>2
    <3> QED
      BY <2>4, <3>2, <3>3, <3>4
  <2>5. ASSUME NEW f \in JobIds, OtherJob(f) PROVE FALSE
    <3>1. f # j
      BY <2>5 DEF OtherJob
    <3>2. job'[j] = job[j]
      BY <1>0, <2>5, <3>1 DEF OtherJob, RunJob, TakeJob, HandlerDone, HandlerThrows, WorkerDies,
         SetJob
    <3> QED
      BY <1>4, <3>2
  <2>6. ASSUME NEW w \in Workers, WorkStep(w) PROVE Settled(k)'
    <3>1. CASE ReadFails(w)
      BY <2>2, <2>4, <3>1, RunningEvent DEF ReadFails, At, vars
    <3>2. CASE LoseLock(w)
      <4>1. work[w].job \in JobIds
        BY <3>2, RunShapes DEF LoseLock, NoticeOK
      <4> QED
        BY <2>4, <3>2, <4>1 DEF LoseLock
    <3>3. CASE Finish(w)
      BY <1>3, <1>4, <3>3
    <3>4. CASE UNCHANGED vars
      BY <2>2, <3>4 DEF vars
    <3> QED
      BY <2>6, <3>1, <3>2, <3>3, <3>4 DEF WorkStep, NobodyToMail, MarkMail, AlreadyMarked,
         OnceFails, PostMail, PostFails, DieLate
  <2>7. ASSUME NEW d \in Deliveries, DeliveryStep(d) PROVE FALSE
    BY <2>2, <2>3, <2>7 DEF DeliveryStep, Send, StopWaiting, HandleStep, Mark, Skip, Enqueue,
       EnqueueFails, Unmark, MarkFails, CrashDelivery, queue
  <2>8. ASSUME UNCHANGED vars PROVE FALSE
    BY <2>2, <2>8 DEF vars
  <2>9. ASSUME NEW w \in Workers, NEW f \in JobIds, Take(w, f) PROVE FALSE
    BY <2>4, <2>9 DEF Take
  <2>10. Settled(k)'
    BY <2>5, <2>6, <2>7, <2>8, <2>9 DEF NoticeNext, nvars
  <2>11. Settled(InvoiceOf[j.e])' <=> Settled(k)'
    BY <1>1
  <2> QED
    BY <2>10, <2>11
<1> QED
  BY <1>2, <1>4

LEMMA NextSettled ==
    SafetyInv /\ NoticeOK /\ MailerTypeOK /\ SettledInv /\ [NoticeNext]_nvars => SettledInv'
<1> SUFFICES ASSUME SafetyInv, NoticeOK, MailerTypeOK, SettledInv, [NoticeNext]_nvars
             PROVE  SettledInv'
  OBVIOUS
<1>1. notices' = notices
  BY DEF NoticeNext, WorkStep, ReadFails, NobodyToMail, MarkMail, AlreadyMarked, OnceFails,
     PostMail, PostFails, Finish, LoseLock, DieLate, Take, DeliveryStep, OtherJob, nvars, notice
<1>2. \A v \in Workers : work'[v].at = "end" => Settled(InvoiceOf[work[v].job.e])'
  <2> SUFFICES ASSUME NEW v \in Workers, work'[v].at = "end"
               PROVE  Settled(InvoiceOf[work[v].job.e])'
    OBVIOUS
  <2>1. PICK k \in Letters : k = InvoiceOf[work'[v].job.e] /\ Settled(k)'
    BY EndsSettled
  <2> QED
    BY <2>1 DEF Settled, Sends, Carries
<1> QED
  BY <1>1, <1>2, KeysSettled, DoneSettled DEF SettledInv

\* HandledIsPosted, for any events, invoices, workers, attempts and faults.
THEOREM HandledPosted == NoticeSpec => []HandledIsPosted
<1> DEFINE Inv == SafetyInv /\ NoticeOK /\ MailerTypeOK /\ SettledInv
<1>1. NoticeInit => Inv
  <2> SUFFICES ASSUME NoticeInit PROVE Inv
    OBVIOUS
  <2>1. NoticeOK
    BY NoticeAssumption DEF NoticeInit, WorkInit, NoticeOK, Reasons
  <2>2. MailerTypeOK
    BY DEF NoticeInit, MailerInit, MailerTypeOK
  <2>3. SettledInv
    BY <2>1 DEF NoticeInit, WorkInit, SettledInv, Idle, Init, NoJob, NoticeOK
  <2> QED
    BY <2>1, <2>2, <2>3, InitSafety DEF NoticeInit
<1>2. Inv /\ [NoticeNext]_nvars => Inv'
  BY StepMaps, NextSafety, NextNoticeOK, NextMailerType, NextSettled
<1>3. Inv => HandledIsPosted
  <2> SUFFICES ASSUME Inv, NEW j \in JobIds, j.e \in notices, job[j].state = "done",
                      excused[InvoiceOf[j.e]] = {}
               PROVE  \/ \E m \in Mails : mail[m] # Unused /\ mail[m].letter = InvoiceOf[j.e]
                      \/ \E w \in Workers : At(w, "send") /\ Invoice(w) = InvoiceOf[j.e]
    BY DEF HandledIsPosted
  <2> QED
    BY DEF SettledInv, Settled, Sends, Carries, Unused, At, Invoice
<1> QED
  BY <1>1, <1>2, <1>3, PTL DEF NoticeSpec
=============================================================================
