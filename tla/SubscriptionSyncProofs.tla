----------------------- MODULE SubscriptionSyncProofs -----------------------
(***************************************************************************)
(* Theorems about SubscriptionSync with one webhook job at a time, as in   *)
(* production, for any number of subscriptions and of events: what the row *)
(* says differs from what Stripe says only while an event of the           *)
(* subscription is still to be handled.                                    *)
(***************************************************************************)
EXTENDS SubscriptionSync, FiniteSetTheorems, TLAPS

OneWorker == \A v, w \in Workers : v = w

Asks(w) == worker[w].at \in {"read", "write"}

Claims(w) == worker[w].at \in {"claim", "cancel"}

\* The job of w has asked Stripe what to say of its event e.
Holds(w, e) == (Asks(w) \/ Claims(w)) /\ worker[w].e = e

\* An event of s is in the queue for which Stripe is still to be asked.
Due(s) ==
    \E k \in Kind :
        /\ todo[EventOf(k, s)] > 0
        /\ todo[EventOf(k, s)] > 1 \/ \A w \in Workers : ~Holds(w, EventOf(k, s))

\* The event of a job stays in the queue while it runs.
Queued == \A w \in Workers : worker[w] # Idle => todo[worker[w].e] >= 1

\* What a job saw is what Stripe says, unless another event follows.
SeenOrDue ==
    \A w \in Workers :
        Asks(w) => worker[w].seen = stripe[worker[w].e.sub] \/ Due(worker[w].e.sub)

\* The row is what Stripe says, or an event follows, or a job that saw it.
RowOrDue ==
    row.sub # None =>
        \/ row.status = stripe[row.sub]
        \/ Due(row.sub)
        \/ \E w \in Workers :
              Asks(w) /\ worker[w].e.sub = row.sub /\ worker[w].seen = stripe[row.sub]

\* A job about to write read the row as it still is.
ReadIsCurrent ==
    \A w \in Workers : worker[w].at = "write" => row.linked /\ ~KeepsOther(worker[w])

\* A customer who is gone has no subscription, and without one no status.
EmptyRow ==
    /\ ~row.linked => row.sub = None
    /\ row.sub = None => row.status = None

\* Only the events of a subscription are worth a question.
AskedKinds ==
    \A w \in Workers :
        Asks(w) \/ Claims(w) => worker[w].e.kind \in {"changed", "first"}

\* Stripe has an event only of a subscription that exists.
Started == \A k \in Kind, s \in Subs : todo[EventOf(k, s)] > 0 => stripe[s] # "none"

SyncInv ==
    /\ Queued /\ AskedKinds /\ Started
    /\ SeenOrDue /\ RowOrDue /\ ReadIsCurrent /\ EmptyRow

-----------------------------------------------------------------------------
(* Events and jobs.                                                        *)

LEMMA Events ==
    /\ \A k \in Kind, s \in Subs :
         /\ EventOf(k, s) \in Event
         /\ EventOf(k, s).kind = k /\ EventOf(k, s).sub = s
    /\ \A e \in Event : e.kind # "gone" =>
         e.kind \in Kind /\ e.sub \in Subs /\ e = EventOf(e.kind, e.sub)
    /\ \A e \in Event : e.kind = "gone" => e = Gone
    /\ Gone \in Event /\ Gone.kind = "gone"
BY DEF Event, EventOf, Kind, Gone

LEMMA Shapes ==
    ASSUME TypeOK, NEW w \in Workers
    PROVE  /\ worker[w].at \in {"idle", "start", "read", "write", "claim", "cancel"}
           /\ worker[w] = Idle <=> worker[w].at = "idle"
           /\ worker[w] # Idle => worker[w].e \in Event
           /\ Asks(w) =>
                /\ worker[w].seen \in Status
                /\ worker[w] = [at |-> worker[w].at, e |-> worker[w].e, seen |-> worker[w].seen]
           /\ worker[w].at = "cancel" =>
                /\ worker[w].left \subseteq Subs
                /\ worker[w] = [at |-> "cancel", e |-> worker[w].e, left |-> worker[w].left]
BY DEF TypeOK, Task, Idle, Asks

\* What the jobs ask about is a subscription.
LEMMA AskedSub ==
    ASSUME TypeOK, AskedKinds, NEW w \in Workers, Asks(w) \/ Claims(w)
    PROVE  /\ worker[w].e \in Event /\ worker[w].e.sub \in Subs
           /\ worker[w].e.kind \in Kind
           /\ worker[w].e = EventOf(worker[w].e.kind, worker[w].e.sub)
<1>1. worker[w].e \in Event
  BY Shapes DEF Asks, Claims
<1>2. worker[w].e.kind # "gone"
  BY DEF AskedKinds
<1> QED
  BY <1>1, <1>2, Events

-----------------------------------------------------------------------------
(* Stripe and its customer: whatever changes a status emits an event.      *)

\* A job may go from one cancellation to the next.
SameJobs ==
    \A w \in Workers :
        \/ worker'[w] = worker[w]
        \/ /\ worker[w].at = "cancel" /\ worker'[w].at = "cancel"
           /\ worker'[w].e = worker[w].e

Outside ==
    /\ row' = row /\ SameJobs
    /\ todo' \in [Event -> 0 .. MaxEvents]
    /\ \A e \in Event : todo'[e] \in {todo[e], todo[e] + 1}
    /\ \A s \in Subs :
          \/ stripe'[s] = stripe[s]
          \/ \E k \in Kind : todo'[EventOf(k, s)] = todo[EventOf(k, s)] + 1
    /\ \A s \in Subs : stripe'[s] = "none" =>
          /\ stripe[s] = "none"
          /\ \A k \in Kind : todo'[EventOf(k, s)] = todo[EventOf(k, s)]

LEMMA EmitCounts ==
    ASSUME TypeOK, NEW S, S \subseteq Event, Emit(S)
    PROVE  /\ todo' \in [Event -> 0 .. MaxEvents]
           /\ \A e \in Event : todo'[e] = IF e \in S THEN todo[e] + 1 ELSE todo[e]
<1>1. \A e \in Event : todo'[e] = IF e \in S THEN todo[e] + 1 ELSE todo[e]
  BY DEF Emit
<1>2. \A e \in Event : e \in S => todo[e] < MaxEvents
  BY DEF Emit
<1>3. \A e \in Event : todo'[e] \in 0 .. MaxEvents
  BY <1>1, <1>2, SyncAssumption DEF TypeOK
<1> QED
  BY <1>1, <1>3 DEF Emit

\* One kind of event of one subscription.
LEMMA EmitOne ==
    ASSUME TypeOK, NEW k \in Kind, NEW s \in Subs, NEW S,
           S \subseteq Event, EventOf(k, s) \in S, Emit(S),
           \A e \in S : e.sub = s, stripe'[s] # "none",
           \A t \in Subs \ {s} : stripe'[t] = stripe[t],
           row' = row, SameJobs
    PROVE  Outside
<1>1. /\ todo' \in [Event -> 0 .. MaxEvents]
      /\ \A e \in Event : todo'[e] = IF e \in S THEN todo[e] + 1 ELSE todo[e]
  BY EmitCounts
<1>2. todo'[EventOf(k, s)] = todo[EventOf(k, s)] + 1
  BY <1>1, Events
<1>3. \A e \in Event : todo'[e] \in {todo[e], todo[e] + 1}
  BY <1>1
<1>4. \A t \in Subs \ {s}, j \in Kind : todo'[EventOf(j, t)] = todo[EventOf(j, t)]
  BY <1>1, Events
<1> QED
  BY <1>1, <1>2, <1>3, <1>4 DEF Outside

CheckOut(s) == Check(s) \/ ListOpen(s) \/ Expire(s) \/ OpenSession(s)

\* A cancellation by a job is one at Stripe.
OutsideStep ==
    \/ \E s \in Subs : CheckOut(s) \/ Subscribe(s) \/ Renew(s) \/ Touch(s) \/ Cancel(s)
    \/ DeleteCustomer
    \/ \E w \in Workers : CancelOne(w)

\* A checkout opens sessions, and closes some, only in front of a customer.
LEMMA CheckOutStep ==
    ASSUME TypeOK, NEW s \in Subs, CheckOut(s)
    PROVE  /\ UNCHANGED <<stripe, todo, row, touches, worker, patient>>
           /\ session' \subseteq Subs
           /\ request' \in [Subs -> [at : {"none", "checked", "expiring"}, left : SUBSET Subs]]
           /\ \A t \in Subs \ {s} : request'[t] = request[t]
           /\ request'[s].at # "none" =>
                 request[s].at # "none" \/ (stripe[s] = "none" /\ s \notin session)
           /\ request'[s].at # "none" /\ s \in session' => s \in session
           /\ \A t \in session' \ session :
                 t = s /\ request[s].at # "none" /\ row.linked /\ todo[Gone] = 0
<1> USE DEF TypeOK, NoRequest
<1>1. CASE Check(s)
  BY <1>1 DEF Check
<1>2. CASE ListOpen(s)
  <2>1. PICK S \in SUBSET Subs : request' = [request EXCEPT ![s] = [at |-> "expiring", left |-> S]]
    BY <1>2 DEF ListOpen
  <2> QED
    BY <1>2, <2>1 DEF ListOpen
<1>3. CASE Expire(s)
  <2>1. PICK t \in request[s].left : request' = [request EXCEPT ![s].left = @ \ {t}]
    BY <1>3 DEF Expire
  <2> QED
    BY <1>3, <2>1 DEF Expire
<1>4. CASE OpenSession(s)
  BY <1>4 DEF OpenSession
<1> QED
  BY <1>1, <1>2, <1>3, <1>4 DEF CheckOut

LEMMA CancelOneStep ==
    ASSUME TypeOK, NEW w \in Workers, CancelOne(w)
    PROVE  /\ SameJobs /\ worker' \in [Workers -> Task \cup {Idle}]
           /\ UNCHANGED <<request, session, row, touches, patient>>
           /\ (\E t \in Subs : Ends(t)) \/ UNCHANGED <<stripe, todo>>
<1>1. /\ worker[w].at = "cancel" /\ worker[w].e \in Event /\ worker[w].left \subseteq Subs
      /\ worker[w] = [at |-> "cancel", e |-> worker[w].e, left |-> worker[w].left]
  BY Shapes DEF CancelOne, Idle
<1>2. PICK t \in worker[w].left :
        /\ Go(w, [worker[w] EXCEPT !.left = @ \ {t}])
        /\ Ends(t) \/ UNCHANGED <<stripe, todo>>
  BY DEF CancelOne
<1> DEFINE task == [worker[w] EXCEPT !.left = @ \ {t}]
<1>3. task = [at |-> "cancel", e |-> worker[w].e, left |-> worker[w].left \ {t}]
  BY <1>1
<1>4. task \in Task /\ task.at = "cancel" /\ task.e = worker[w].e
  BY <1>1, <1>3 DEF Task
<1> HIDE DEF task
<1>5. worker' = [worker EXCEPT ![w] = task]
  BY <1>2 DEF Go, task
<1>6. SameJobs /\ worker' \in [Workers -> Task \cup {Idle}]
  BY <1>1, <1>4, <1>5 DEF SameJobs, TypeOK
<1> QED
  BY <1>1, <1>2, <1>6 DEF CancelOne

LEMMA OutsideSteps ==
    ASSUME TypeOK, OutsideStep
    PROVE  Outside
<1>0. UNCHANGED worker => SameJobs
  BY DEF SameJobs
<1>1. ASSUME NEW s \in Subs, CheckOut(s)
      PROVE  Outside
  BY <1>0, <1>1, CheckOutStep DEF Outside, TypeOK
<1>2. ASSUME NEW s \in Subs, Subscribe(s)
      PROVE  Outside
  <2> DEFINE S == {EventOf("changed", s)} \cup IF s \in Founder THEN {EventOf("first", s)} ELSE {}
  <2>1. /\ S \subseteq Event /\ EventOf("changed", s) \in S /\ "changed" \in Kind
        /\ \A e \in S : e.sub = s
    BY Events DEF Kind
  <2>2. Emit(S) /\ row' = row /\ SameJobs
    BY <1>0, <1>2 DEF Subscribe
  <2>3. (\A t \in Subs \ {s} : stripe'[t] = stripe[t]) /\ stripe'[s] # "none"
    BY <1>2 DEF Subscribe, TypeOK, Active
  <2> HIDE DEF S
  <2> QED
    BY <2>1, <2>2, <2>3, EmitOne
<1>3. ASSUME NEW s \in Subs, Renew(s) \/ Touch(s)
      PROVE  Outside
  <2>1. /\ {EventOf("changed", s)} \subseteq Event /\ "changed" \in Kind
        /\ EventOf("changed", s).sub = s
    BY Events DEF Kind
  <2>2. Emit({EventOf("changed", s)}) /\ row' = row /\ SameJobs
    BY <1>0, <1>3 DEF Renew, Touch
  <2>3. (\A t \in Subs \ {s} : stripe'[t] = stripe[t]) /\ stripe'[s] # "none"
    BY <1>3 DEF Renew, Touch, TypeOK, Status, Active
  <2> QED
    BY <2>1, <2>2, <2>3, EmitOne
<1>4. ASSUME NEW s \in Subs, Ends(s), row' = row, SameJobs
      PROVE  Outside
  <2>1. /\ {EventOf("deleted", s)} \subseteq Event /\ "deleted" \in Kind
        /\ EventOf("deleted", s).sub = s
    BY Events DEF Kind
  <2>2. Emit({EventOf("deleted", s)})
    BY <1>4 DEF Ends
  <2>3. (\A t \in Subs \ {s} : stripe'[t] = stripe[t]) /\ stripe'[s] # "none"
    BY <1>4 DEF Ends, Ended, TypeOK
  <2> QED
    BY <1>4, <2>1, <2>2, <2>3, EmitOne
<1>5. ASSUME DeleteCustomer
      PROVE  Outside
  <2> DEFINE running == {s \in Subs : stripe[s] \in Status \ {"canceled"}}
             S == {Gone} \cup {EventOf("deleted", s) : s \in running}
  <2>1. S \subseteq Event /\ \A s \in running : EventOf("deleted", s) \in S
    BY Events DEF Kind
  <2>2. Emit(S) /\ row' = row /\ SameJobs /\ stripe' = Ended(running)
    BY <1>0, <1>5 DEF DeleteCustomer
  <2>3. \A s \in Subs : stripe'[s] = IF s \in running THEN "canceled" ELSE stripe[s]
    BY <2>2 DEF Ended
  <2>7. ASSUME NEW s \in Subs, NEW k \in Kind, s \notin running
        PROVE  EventOf(k, s) \notin S
    <3>1. EventOf(k, s) # Gone
      BY DEF EventOf, Kind, Gone
    <3>2. \A t \in running : EventOf("deleted", t) # EventOf(k, s)
      BY <2>7 DEF EventOf
    <3> QED
      BY <3>1, <3>2
  <2> HIDE DEF S, running
  <2>4. /\ todo' \in [Event -> 0 .. MaxEvents]
        /\ \A e \in Event : todo'[e] = IF e \in S THEN todo[e] + 1 ELSE todo[e]
    BY <2>1, <2>2, EmitCounts
  <2>5. \A s \in Subs : s \in running => todo'[EventOf("deleted", s)] = todo[EventOf("deleted", s)] + 1
    BY <2>1, <2>4, Events
  <2>6. \A e \in Event : todo'[e] \in {todo[e], todo[e] + 1}
    BY <2>4
  <2>8. \A s \in Subs, k \in Kind :
            s \notin running => todo'[EventOf(k, s)] = todo[EventOf(k, s)]
    BY <2>4, <2>7, Events
  <2> QED
    BY <2>2, <2>3, <2>4, <2>5, <2>6, <2>8 DEF Outside, Kind
<1>6. ASSUME NEW s \in Subs, Cancel(s)
      PROVE  Outside
  BY <1>0, <1>4, <1>6 DEF Cancel
<1>7. ASSUME NEW w \in Workers, CancelOne(w)
      PROVE  Outside
  <2>1. /\ row' = row /\ SameJobs
        /\ (\E t \in Subs : Ends(t)) \/ UNCHANGED <<stripe, todo>>
    BY <1>7, CancelOneStep
  <2>2. CASE UNCHANGED <<stripe, todo>>
    BY <2>1, <2>2 DEF Outside, TypeOK
  <2> QED
    BY <1>4, <2>1, <2>2
<1> QED
  BY <1>1, <1>2, <1>3, <1>5, <1>6, <1>7 DEF OutsideStep

LEMMA OutsideJobs ==
    ASSUME TypeOK, Outside, NEW w \in Workers
    PROVE  /\ worker'[w].at = worker[w].at /\ worker'[w].e = worker[w].e
           /\ Asks(w) => worker'[w] = worker[w]
           /\ worker[w] = Idle => worker'[w] = Idle
BY DEF Outside, SameJobs, Asks, Idle

\* An event stays due, and whatever changes makes one due.
LEMMA OutsideDue ==
    ASSUME TypeOK, SyncInv, Outside, NEW s \in Subs, Due(s) \/ stripe'[s] # stripe[s]
    PROVE  Due(s)'
<1>1. \A e \in Event : todo[e] \in Nat /\ todo'[e] \in Nat /\ todo'[e] >= todo[e]
  BY DEF Outside, TypeOK
<1>2. \A w \in Workers : worker'[w].at = worker[w].at /\ worker'[w].e = worker[w].e
  BY OutsideJobs
<1>3. CASE Due(s)
  <2>1. PICK k \in Kind :
          /\ todo[EventOf(k, s)] > 0
          /\ todo[EventOf(k, s)] > 1 \/ \A w \in Workers : ~Holds(w, EventOf(k, s))
    BY <1>3 DEF Due
  <2>2. EventOf(k, s) \in Event
    BY Events
  <2>3. todo'[EventOf(k, s)] >= todo[EventOf(k, s)]
    BY <1>1, <2>2
  <2>4. \A w \in Workers : Holds(w, EventOf(k, s))' <=> Holds(w, EventOf(k, s))
    BY <1>2 DEF Holds, Asks, Claims, EventOf
  <2> QED
    BY <1>1, <2>1, <2>2, <2>3, <2>4 DEF Due, EventOf
<1>4. CASE stripe'[s] # stripe[s]
  <2>1. PICK k \in Kind : todo'[EventOf(k, s)] = todo[EventOf(k, s)] + 1
    BY <1>4 DEF Outside
  <2>2. EventOf(k, s) \in Event
    BY Events
  <2>3. todo'[EventOf(k, s)] > 0
    BY <1>1, <2>1, <2>2
  <2>4. ASSUME NEW w \in Workers, Holds(w, EventOf(k, s))'
        PROVE  todo'[EventOf(k, s)] > 1
    <3>1. Holds(w, EventOf(k, s))
      BY <1>2, <2>4 DEF Holds, Asks, Claims, EventOf
    <3>2. worker[w] # Idle /\ worker[w].e = EventOf(k, s)
      BY <3>1, Shapes DEF Holds, Asks, Claims
    <3>3. todo[EventOf(k, s)] >= 1
      BY <3>2 DEF SyncInv, Queued
    <3> QED
      BY <1>1, <2>1, <2>2, <3>3
  <2> QED
    BY <2>3, <2>4 DEF Due, EventOf
<1> QED
  BY <1>3, <1>4

LEMMA OutsideKeeps ==
    ASSUME TypeOK, SyncInv, Outside
    PROVE  SyncInv'
<1>1. \A e \in Event : todo[e] \in Nat /\ todo'[e] \in Nat /\ todo'[e] >= todo[e]
  BY DEF Outside, TypeOK
<1>2. \A w \in Workers :
        /\ worker'[w].at = worker[w].at /\ worker'[w].e = worker[w].e
        /\ Asks(w) => worker'[w] = worker[w]
        /\ worker[w] = Idle => worker'[w] = Idle
  BY OutsideJobs
<1>3. \A s \in Subs : Due(s) \/ stripe'[s] # stripe[s] => Due(s)'
  BY OutsideDue
<1>5. Queued'
  <2>1. ASSUME NEW w \in Workers, worker[w] # Idle
        PROVE  todo'[worker[w].e] >= 1
    <3>1. worker[w].e \in Event /\ todo[worker[w].e] >= 1
      BY <2>1, Shapes DEF SyncInv, Queued
    <3> QED
      BY <1>1, <3>1
  <2>2. ASSUME NEW w \in Workers, worker'[w] # Idle
        PROVE  todo'[worker'[w].e] >= 1
    BY <1>2, <2>1, <2>2
  <2> QED
    BY <2>2 DEF Queued, Idle
<1>6. SeenOrDue'
  <2>1. ASSUME NEW w \in Workers, Asks(w)
        PROVE  worker[w].seen = stripe'[worker[w].e.sub] \/ Due(worker[w].e.sub)'
    <3>1. worker[w].e.sub \in Subs
      BY <2>1, AskedSub DEF SyncInv
    <3>2. worker[w].seen = stripe[worker[w].e.sub] \/ Due(worker[w].e.sub)
      BY <2>1 DEF SyncInv, SeenOrDue
    <3>3. CASE Due(worker[w].e.sub)
      BY <1>2, <1>3, <3>1, <3>3
    <3>4. CASE stripe'[worker[w].e.sub] # stripe[worker[w].e.sub]
      BY <1>2, <1>3, <3>1, <3>4
    <3> QED
      BY <3>2, <3>3, <3>4
  <2> QED
    BY <1>2, <2>1 DEF SeenOrDue, Asks
<1>7. RowOrDue'
  <2>1. row' = row
    BY DEF Outside
  <2>2. ASSUME row.sub # None
        PROVE  row.sub \in Subs
    BY <2>2 DEF TypeOK
  <2>3. ASSUME row.sub # None, stripe'[row.sub] # stripe[row.sub]
        PROVE  Due(row.sub)'
    BY <1>3, <2>1, <2>2, <2>3
  <2>4. ASSUME row.sub # None, Due(row.sub)
        PROVE  Due(row.sub)'
    BY <1>3, <2>1, <2>2, <2>4
  <2> QED
    BY <1>2, <2>1, <2>3, <2>4 DEF SyncInv, RowOrDue, Asks
<1>8. AskedKinds' /\ ReadIsCurrent' /\ EmptyRow'
  BY <1>2 DEF Outside, SyncInv, AskedKinds, ReadIsCurrent, EmptyRow, Asks, Claims, KeepsOther
<1>9. Started'
  BY DEF Outside, SyncInv, Started, EventOf
<1> QED
  BY <1>5, <1>6, <1>7, <1>8, <1>9 DEF SyncInv

-----------------------------------------------------------------------------
(* Jobs, one at a time.                                                    *)

\* What the step of a job leaves due.
LEMMA DueSame ==
    ASSUME NEW s \in Subs, Due(s), todo' = todo,
           \A w \in Workers, e \in Event : Holds(w, e)' => Holds(w, e)
    PROVE  Due(s)'
<1>1. PICK k \in Kind :
        /\ todo[EventOf(k, s)] > 0
        /\ todo[EventOf(k, s)] > 1 \/ \A w \in Workers : ~Holds(w, EventOf(k, s))
  BY DEF Due
<1>2. EventOf(k, s) \in Event
  BY Events
<1>3. \A w \in Workers : Holds(w, EventOf(k, s))' => Holds(w, EventOf(k, s))
  BY <1>2 DEF EventOf
<1> QED
  BY <1>1, <1>3 DEF Due, EventOf

LEMMA DueAfterEnd ==
    ASSUME OneWorker, TypeOK, Queued, NEW w \in Workers, worker[w] # Idle, Finish(w),
           NEW s \in Subs, Due(s),
           worker[w].at # "start" \/ worker[w].e.sub # s
    PROVE  Due(s)'
<1>1. PICK k \in Kind :
        /\ todo[EventOf(k, s)] > 0
        /\ todo[EventOf(k, s)] > 1 \/ \A v \in Workers : ~Holds(v, EventOf(k, s))
  BY DEF Due
<1>2. EventOf(k, s) \in Event /\ EventOf(k, s).sub = s
  BY Events
<1>3. \A v \in Workers : v = w /\ worker'[v] = Idle
  BY DEF Finish, Go, TypeOK, OneWorker
<1>4. \A v \in Workers : ~Holds(v, EventOf(k, s))'
  BY <1>3 DEF Holds, Claims, Asks, Idle
<1>5. worker[w].e \in Event /\ todo[EventOf(k, s)] \in Nat
  BY <1>2, Shapes DEF TypeOK
<1>6. CASE worker[w].e # EventOf(k, s)
  <2>1. todo'[EventOf(k, s)] = todo[EventOf(k, s)]
    BY <1>2, <1>5, <1>6 DEF Finish, TypeOK
  <2> QED
    BY <1>1, <1>4, <2>1 DEF Due, EventOf
<1>7. CASE worker[w].e = EventOf(k, s)
  <2>1. Holds(w, EventOf(k, s))
    BY <1>2, <1>7, Shapes DEF Holds, Claims, Asks
  <2>2. todo'[EventOf(k, s)] = todo[EventOf(k, s)] - 1
    BY <1>5, <1>7 DEF Finish, TypeOK
  <2>3. todo'[EventOf(k, s)] > 0
    BY <1>1, <1>5, <2>1, <2>2
  <2> QED
    BY <1>4, <2>3 DEF Due, EventOf
<1> QED
  BY <1>6, <1>7

\* A job that has ended leaves only the row to look at.
LEMMA EndedJob ==
    ASSUME OneWorker, TypeOK, NEW w \in Workers, Go(w, Idle)
    PROVE  /\ Queued' /\ AskedKinds' /\ SeenOrDue' /\ ReadIsCurrent'
           /\ \A v \in Workers : worker'[v] = Idle
           /\ worker' \in [Workers -> Task \cup {Idle}]
<1>1. \A v \in Workers : v = w /\ worker'[v] = Idle
  BY DEF Go, TypeOK, OneWorker
<1>2. worker' \in [Workers -> Task \cup {Idle}]
  BY DEF Go, TypeOK
<1>3. \A v \in Workers : worker'[v].at = "idle"
  BY <1>1 DEF Idle
<1> QED
  BY <1>1, <1>2, <1>3 DEF Queued, AskedKinds, Claims, SeenOrDue, ReadIsCurrent, Asks

LEMMA FinishTodo ==
    ASSUME TypeOK, Queued, NEW w \in Workers, worker[w] # Idle, Finish(w)
    PROVE  todo' \in [Event -> 0 .. MaxEvents]
<1>1. worker[w].e \in Event /\ todo[worker[w].e] >= 1
  BY Shapes DEF Queued
<1>2. todo[worker[w].e] - 1 \in 0 .. MaxEvents
  BY <1>1, SyncAssumption DEF TypeOK
<1> QED
  BY <1>1, <1>2 DEF Finish, TypeOK

\* Only Stripe adds events, for most steps of a job.
LEMMA StartedStays ==
    ASSUME TypeOK, Started, stripe' = stripe, \A e \in Event : todo'[e] <= todo[e],
           todo' \in [Event -> 0 .. MaxEvents]
    PROVE  Started'
<1> SUFFICES ASSUME NEW k \in Kind, NEW s \in Subs, todo'[EventOf(k, s)] > 0
             PROVE  stripe[s] # "none"
  BY DEF Started, EventOf
<1>1. EventOf(k, s) \in Event
  BY Events
<1>2. todo'[EventOf(k, s)] \in Nat /\ todo[EventOf(k, s)] \in Nat
      /\ todo'[EventOf(k, s)] <= todo[EventOf(k, s)]
  BY <1>1 DEF TypeOK
<1> QED
  BY <1>2 DEF Started

\* The end of a job takes its event away.
LEMMA FinishStarted ==
    ASSUME TypeOK, SyncInv, NEW w \in Workers, worker[w] # Idle, Finish(w), stripe' = stripe
    PROVE  Started'
<1>1. todo' \in [Event -> 0 .. MaxEvents]
  BY FinishTodo DEF SyncInv
<1>2. \A e \in Event : todo'[e] <= todo[e]
  BY DEF Finish, TypeOK
<1> QED
  BY <1>1, <1>2, StartedStays DEF SyncInv

LEMMA SameStarted ==
    ASSUME TypeOK, SyncInv, UNCHANGED <<stripe, todo>>
    PROVE  Started'
BY DEF SyncInv, Started, EventOf

\* A job that runs again will ask again.
LEMMA ThrowDue ==
    ASSUME OneWorker, TypeOK, SyncInv, NEW w \in Workers, Throw(w), NEW s \in Subs,
           Due(s) \/ \E v \in Workers : Asks(v) /\ worker[v].e.sub = s
    PROVE  Due(s)'
<1>1. Go(w, Idle) /\ UNCHANGED <<customer, todo, row>> /\ worker[w] # Idle
  BY DEF Throw
<1>2. \A v \in Workers : worker'[v] = Idle
  BY <1>1, EndedJob
<1>3. \A v \in Workers, e \in Event : ~Holds(v, e)'
  BY <1>2 DEF Holds, Claims, Asks, Idle
<1>4. CASE Due(s)
  BY <1>1, <1>3, <1>4, DueSame
<1>5. CASE Asks(w) /\ worker[w].e.sub = s
  <2> DEFINE k == worker[w].e.kind
  <2>1. /\ k \in Kind /\ worker[w].e \in Event
        /\ worker[w].e = EventOf(k, s)
    BY <1>5, AskedSub DEF SyncInv
  <2>2. todo'[worker[w].e] >= 1 /\ todo'[worker[w].e] \in Nat
    BY <1>1, <2>1 DEF SyncInv, Queued, TypeOK
  <2>3. todo'[EventOf(k, s)] > 0
    BY <2>1, <2>2
  <2> QED
    BY <1>2, <2>1, <2>3 DEF Due, EventOf, Holds, Claims, Asks, Idle
<1> QED
  BY <1>4, <1>5 DEF OneWorker

LEMMA ThrowKeeps ==
    ASSUME OneWorker, TypeOK, SyncInv, NEW w \in Workers, Throw(w)
    PROVE  TypeOK' /\ SyncInv'
<1>1. Go(w, Idle) /\ UNCHANGED <<customer, todo, row>> /\ worker[w] # Idle
  BY DEF Throw
<1>2. /\ Queued' /\ AskedKinds' /\ SeenOrDue' /\ ReadIsCurrent'
      /\ \A v \in Workers : worker'[v] = Idle
      /\ worker' \in [Workers -> Task \cup {Idle}]
  BY <1>1, EndedJob
<1>3. TypeOK'
  BY <1>1, <1>2 DEF TypeOK, customer
<1>5. ASSUME row.sub # None, Due(row.sub) \/ \E v \in Workers : Asks(v) /\ worker[v].e.sub = row.sub
      PROVE  Due(row.sub)'
  <2>1. row.sub \in Subs
    BY <1>5 DEF TypeOK
  <2> QED
    BY <1>1, <1>5, <2>1, ThrowDue
<1>7. RowOrDue' /\ EmptyRow'
  BY <1>1, <1>5 DEF SyncInv, RowOrDue, EmptyRow, customer
<1>8. Started'
  BY <1>1, SameStarted DEF customer
<1> QED
  BY <1>2, <1>3, <1>7, <1>8 DEF SyncInv

LEMMA DeletedKeeps ==
    ASSUME OneWorker, TypeOK, SyncInv, NEW w \in Workers, Deleted(w) \/ CustomerDeleted(w)
    PROVE  TypeOK' /\ SyncInv'
<1>1. Finish(w) /\ Go(w, Idle) /\ UNCHANGED customer /\ worker[w] # Idle /\ worker[w].at = "start"
  BY Shapes DEF Deleted, CustomerDeleted, Finish
<1>2. /\ Queued' /\ AskedKinds' /\ SeenOrDue' /\ ReadIsCurrent'
      /\ worker' \in [Workers -> Task \cup {Idle}]
  BY <1>1, EndedJob
<1>3. \/ row' = row /\ worker[w].e.sub # row.sub
      \/ row'.sub = None /\ row'.status = None
  BY DEF Deleted, CustomerDeleted, NoSub, TypeOK
<1>4. row' \in [linked : BOOLEAN, sub : Subs \cup {None}, status : Status \cup {None}]
  BY DEF Deleted, CustomerDeleted, NoSub, TypeOK
<1>5. todo' \in [Event -> 0 .. MaxEvents]
  BY <1>1, FinishTodo DEF SyncInv
<1>6. TypeOK'
  BY <1>1, <1>2, <1>4, <1>5 DEF TypeOK, customer
<1>7. EmptyRow'
  BY <1>3 DEF SyncInv, EmptyRow
<1>8. ASSUME row'.sub = None
      PROVE  RowOrDue'
  BY <1>8 DEF RowOrDue
<1>9. ASSUME row' = row, worker[w].e.sub # row.sub, row.sub # None
      PROVE  RowOrDue'
  <2>1. row.sub \in Subs
    BY <1>9 DEF TypeOK
  <2>2. \A v \in Workers : ~Asks(v)
    BY <1>1 DEF OneWorker, Asks
  <2>3. Due(row.sub) => Due(row.sub)'
    BY <1>1, <1>9, <2>1, DueAfterEnd DEF SyncInv
  <2>4. stripe' = stripe
    BY <1>1 DEF customer
  <2> QED
    BY <1>9, <2>2, <2>3, <2>4 DEF SyncInv, RowOrDue
<1>10. Started'
  BY <1>1, FinishStarted DEF customer
<1> QED
  BY <1>2, <1>3, <1>6, <1>7, <1>8, <1>9, <1>10 DEF SyncInv

LEMMA IgnoreKeeps ==
    ASSUME OneWorker, TypeOK, SyncInv, NEW w \in Workers, Ignore(w)
    PROVE  TypeOK' /\ SyncInv'
<1>1. /\ Finish(w) /\ Go(w, Idle) /\ UNCHANGED <<customer, row>>
      /\ worker[w] # Idle /\ worker[w].at = "read"
  BY Shapes DEF Ignore, Finish
<1>2. /\ Queued' /\ AskedKinds' /\ SeenOrDue' /\ ReadIsCurrent'
      /\ worker' \in [Workers -> Task \cup {Idle}]
  BY <1>1, EndedJob
<1>3. todo' \in [Event -> 0 .. MaxEvents]
  BY <1>1, FinishTodo DEF SyncInv
<1>4. TypeOK'
  BY <1>1, <1>2, <1>3 DEF TypeOK, customer
<1>5. row.sub \notin {None, worker[w].e.sub} \/ row.sub = None
  BY DEF Ignore, KeepsOther, SyncInv, EmptyRow
<1>6. ASSUME row.sub # None
      PROVE  row.status = stripe[row.sub] \/ Due(row.sub)'
  <2>1. row.sub \in Subs
    BY <1>6 DEF TypeOK
  <2>2. \A v \in Workers : ~(Asks(v) /\ worker[v].e.sub = row.sub)
    BY <1>5, <1>6 DEF OneWorker
  <2>3. Due(row.sub) => Due(row.sub)'
    BY <1>1, <2>1, DueAfterEnd DEF SyncInv
  <2> QED
    BY <1>6, <2>2, <2>3 DEF SyncInv, RowOrDue
<1>7. RowOrDue' /\ EmptyRow'
  BY <1>1, <1>6 DEF SyncInv, RowOrDue, EmptyRow, customer
<1>8. Started'
  BY <1>1, FinishStarted DEF customer
<1> QED
  BY <1>2, <1>4, <1>7, <1>8 DEF SyncInv

\* The job goes on, with the same event.
LEMMA GoneOn ==
    ASSUME OneWorker, TypeOK, NEW w \in Workers, NEW task \in Task \cup {Idle}, Go(w, task)
    PROVE  /\ \A v \in Workers : v = w /\ worker'[v] = task
           /\ worker' \in [Workers -> Task \cup {Idle}]
BY DEF Go, TypeOK, OneWorker

LEMMA TakeKeeps ==
    ASSUME OneWorker, TypeOK, SyncInv, NEW w \in Workers, NEW e \in Event, Take(w, e)
    PROVE  TypeOK' /\ SyncInv'
<1> DEFINE task == [at |-> "start", e |-> e]
<1>1. Go(w, task) /\ UNCHANGED <<customer, todo, row>> /\ worker[w] = Idle
  BY DEF Take, Go
<1>2. task \in Task /\ task.at = "start" /\ task.e = e
  BY DEF Task
<1>3. todo[e] >= 1
  <2>1. {v \in Workers : worker[v] # Idle /\ worker[v].e = e} = {}
    BY <1>1 DEF OneWorker
  <2>2. todo[e] > 0
    BY <2>1, FS_EmptySet DEF Take
  <2> QED
    BY <2>2 DEF TypeOK
<1> HIDE DEF task
<1>4. /\ \A v \in Workers : v = w /\ worker'[v] = task
      /\ worker' \in [Workers -> Task \cup {Idle}]
  BY <1>1, <1>2, GoneOn
<1>5. TypeOK'
  BY <1>1, <1>4 DEF TypeOK, customer
<1>6. Queued' /\ AskedKinds' /\ SeenOrDue' /\ ReadIsCurrent' /\ EmptyRow'
  BY <1>1, <1>2, <1>3, <1>4
  DEF Queued, AskedKinds, Claims, SeenOrDue, ReadIsCurrent, EmptyRow, Asks, SyncInv
<1>7. \A v \in Workers : ~Asks(v)
  BY <1>1, <1>4 DEF Asks, Idle
<1>8. \A v \in Workers, f \in Event : ~Holds(v, f)'
  BY <1>2, <1>4 DEF Holds, Claims, Asks
<1>9. ASSUME row.sub # None
      PROVE  row.status = stripe[row.sub] \/ Due(row.sub)'
  <2>1. row.sub \in Subs
    BY <1>9 DEF TypeOK
  <2>2. Due(row.sub) => Due(row.sub)'
    BY <1>1, <1>8, <2>1, DueSame
  <2> QED
    BY <1>7, <1>9, <2>2 DEF SyncInv, RowOrDue
<1>10. RowOrDue'
  BY <1>1, <1>9 DEF RowOrDue, customer
<1>11. Started'
  BY <1>1, SameStarted DEF customer
<1> QED
  BY <1>5, <1>6, <1>10, <1>11 DEF SyncInv

LEMMA RetrieveDue ==
    ASSUME OneWorker, TypeOK, NEW w \in Workers, Retrieve(w),
           NEW s \in Subs, Due(s), worker[w].e.sub # s
    PROVE  Due(s)'
<1>1. PICK k \in Kind : todo[EventOf(k, s)] > 0
  BY DEF Due
<1>2. \A v \in Workers : v = w /\ worker'[v].e = worker[w].e
  BY DEF Retrieve, Go, TypeOK, OneWorker
<1>3. EventOf(k, s) # worker[w].e
  BY Events
<1>4. \A v \in Workers : ~Holds(v, EventOf(k, s))'
  BY <1>2, <1>3 DEF Holds, Claims, EventOf
<1> QED
  BY <1>1, <1>4 DEF Due, EventOf, Retrieve

LEMMA RetrieveKeeps ==
    ASSUME OneWorker, TypeOK, SyncInv, NEW w \in Workers, Retrieve(w)
    PROVE  TypeOK' /\ SyncInv'
<1> DEFINE e == worker[w].e
           task == [at |-> "read", e |-> e, seen |-> stripe[e.sub]]
<1>1. /\ Go(w, task) /\ UNCHANGED <<customer, todo, row>>
      /\ worker[w].at = "start" /\ worker[w] # Idle
      /\ e.kind \in {"changed", "first"}
  BY Shapes DEF Retrieve
<1>2. e \in Event /\ e.kind \in Kind /\ e.sub \in Subs /\ e = EventOf(e.kind, e.sub)
  BY <1>1, Shapes, Events
<1>3. stripe[e.sub] \in Status
  <2>1. todo[EventOf(e.kind, e.sub)] >= 1 /\ todo[e] \in Nat
    BY <1>1, <1>2 DEF SyncInv, Queued, TypeOK
  <2>2. stripe[e.sub] # "none"
    BY <1>2, <2>1 DEF SyncInv, Started
  <2> QED
    BY <1>2, <2>2 DEF TypeOK
<1>4. task \in Task /\ task.at = "read" /\ task.e = e /\ task.seen = stripe[e.sub]
  BY <1>2, <1>3 DEF Task
<1> HIDE DEF task
<1>5. /\ \A v \in Workers : v = w /\ worker'[v] = task
      /\ worker' \in [Workers -> Task \cup {Idle}]
  BY <1>1, <1>4, GoneOn
<1>6. TypeOK'
  BY <1>1, <1>5 DEF TypeOK, customer
<1>7. Queued' /\ AskedKinds' /\ SeenOrDue' /\ ReadIsCurrent' /\ EmptyRow'
  BY <1>1, <1>4, <1>5
  DEF Queued, AskedKinds, Claims, SeenOrDue, ReadIsCurrent, EmptyRow, Asks, SyncInv, customer
<1>8. ASSUME row.sub # None
      PROVE  row.status = stripe[row.sub] \/ Due(row.sub)' \/ e.sub = row.sub
  <2>1. row.sub \in Subs
    BY <1>8 DEF TypeOK
  <2>2. \A v \in Workers : ~Asks(v)
    BY <1>1, <1>5 DEF Asks
  <2>3. ASSUME Due(row.sub), e.sub # row.sub
        PROVE  Due(row.sub)'
    BY <1>1, <2>1, <2>3, RetrieveDue
  <2> QED
    BY <1>8, <2>2, <2>3 DEF SyncInv, RowOrDue
<1>9. RowOrDue'
  BY <1>1, <1>4, <1>5, <1>8 DEF RowOrDue, customer, Asks
<1>10. Started'
  BY <1>1, SameStarted DEF customer
<1> QED
  BY <1>6, <1>7, <1>9, <1>10 DEF SyncInv

LEMMA ReadKeeps ==
    ASSUME OneWorker, TypeOK, SyncInv, NEW w \in Workers, Read(w)
    PROVE  TypeOK' /\ SyncInv'
<1> DEFINE task == [worker[w] EXCEPT !.at = "write"]
<1>1. /\ Go(w, task) /\ UNCHANGED <<customer, todo, row>>
      /\ worker[w].at = "read" /\ Asks(w) /\ worker[w] # Idle
      /\ row.linked /\ ~KeepsOther(worker[w])
  BY Shapes DEF Read, Asks
<1>2. /\ task \in Task /\ task.at = "write"
      /\ task.e = worker[w].e /\ task.seen = worker[w].seen
  <2>1. /\ worker[w] = [at |-> worker[w].at, e |-> worker[w].e, seen |-> worker[w].seen]
        /\ worker[w].e \in Event /\ worker[w].seen \in Status
    BY <1>1, Shapes
  <2>2. task = [at |-> "write", e |-> worker[w].e, seen |-> worker[w].seen]
    BY <2>1
  <2> QED
    BY <2>1, <2>2 DEF Task
<1> HIDE DEF task
<1>3. /\ \A v \in Workers : v = w /\ worker'[v] = task
      /\ worker' \in [Workers -> Task \cup {Idle}]
  BY <1>1, <1>2, GoneOn
<1>4. TypeOK'
  BY <1>1, <1>3 DEF TypeOK, customer
<1>5. Queued' /\ AskedKinds' /\ ReadIsCurrent' /\ EmptyRow'
  BY <1>1, <1>2, <1>3
  DEF Queued, AskedKinds, Claims, ReadIsCurrent, EmptyRow, Asks, SyncInv, KeepsOther
<1>6. \A v \in Workers, f \in Event : Holds(v, f)' => Holds(v, f)
  BY <1>1, <1>2, <1>3 DEF Holds, Claims, Asks
<1>7. ASSUME NEW s \in Subs, Due(s)
      PROVE  Due(s)'
  BY <1>1, <1>6, <1>7, DueSame
<1>8. SeenOrDue'
  <2>1. worker[w].e.sub \in Subs
    BY <1>1, AskedSub DEF SyncInv
  <2>2. worker[w].seen = stripe[worker[w].e.sub] \/ Due(worker[w].e.sub)
    BY <1>1 DEF SyncInv, SeenOrDue
  <2>3. worker'[w].e.sub = worker[w].e.sub /\ worker'[w].seen = worker[w].seen
    BY <1>2, <1>3
  <2>4. stripe' = stripe
    BY <1>1 DEF customer
  <2>5. worker'[w].seen = stripe'[worker'[w].e.sub] \/ Due(worker[w].e.sub)'
    BY <1>7, <2>1, <2>2, <2>3, <2>4
  <2> QED
    BY <1>3, <2>3, <2>5 DEF SeenOrDue, Due, Holds, Claims, Asks
<1>9. RowOrDue'
  <2>1. row.sub # None => row.sub \in Subs
    BY DEF TypeOK
  <2>2. row.sub # None /\ Due(row.sub) => Due(row.sub)'
    BY <1>1, <1>7, <2>1
  <2>3. \A v \in Workers : Asks(v) =>
            Asks(v)' /\ worker'[v].e.sub = worker[v].e.sub /\ worker'[v].seen = worker[v].seen
    BY <1>2, <1>3 DEF Asks
  <2> QED
    BY <1>1, <2>2, <2>3 DEF SyncInv, RowOrDue, customer
<1>10. Started'
  BY <1>1, SameStarted DEF customer
<1> QED
  BY <1>4, <1>5, <1>8, <1>9, <1>10 DEF SyncInv

LEMMA WriteKeeps ==
    ASSUME OneWorker, TypeOK, SyncInv, NEW w \in Workers, Write(w)
    PROVE  TypeOK' /\ SyncInv'
<1> DEFINE e == worker[w].e
           task == [at |-> "claim", e |-> e]
<1>1. /\ worker[w].at = "write" /\ Asks(w) /\ worker[w] # Idle
      /\ UNCHANGED customer /\ stripe' = stripe
      /\ row' = [row EXCEPT !.sub = e.sub, !.status = worker[w].seen]
  BY Shapes DEF Write, Asks, customer
<1>2. e \in Event /\ e.sub \in Subs /\ e.sub # None /\ worker[w].seen \in Status
  BY <1>1, AskedSub, Shapes, SyncAssumption DEF SyncInv
<1> PICK s \in Subs : s = worker[w].e.sub
  BY <1>2
<1>3. /\ row' \in [linked : BOOLEAN, sub : Subs \cup {None}, status : Status \cup {None}]
      /\ row'.sub = s /\ row'.status = worker[w].seen /\ row'.linked = row.linked
  BY <1>1, <1>2 DEF TypeOK
<1>4. EmptyRow'
  BY <1>1, <1>2, <1>3 DEF SyncInv, ReadIsCurrent, EmptyRow
<1>5. worker[w].seen = stripe[s] \/ Due(s)
  BY <1>1 DEF SyncInv, SeenOrDue
<1>6. ASSUME Due(s) => Due(s)'
      PROVE  RowOrDue'
  <2>1. row'.status = stripe'[row'.sub] \/ Due(s)'
    BY <1>1, <1>3, <1>5, <1>6
  <2> QED
    BY <1>3, <2>1 DEF RowOrDue, Due, Holds, Claims, Asks, EventOf
<1>7. CASE Finish(w)
  <2>1. /\ Queued' /\ AskedKinds' /\ SeenOrDue' /\ ReadIsCurrent'
        /\ worker' \in [Workers -> Task \cup {Idle}]
    BY <1>7, EndedJob DEF Finish
  <2>2. todo' \in [Event -> 0 .. MaxEvents]
    BY <1>1, <1>7, FinishTodo DEF SyncInv
  <2>3. TypeOK'
    BY <1>1, <1>3, <2>1, <2>2 DEF TypeOK, customer
  <2>4. Due(s) => Due(s)'
    BY <1>1, <1>2, <1>7, DueAfterEnd DEF SyncInv
  <2>5. Started'
    BY <1>1, <1>7, FinishStarted
  <2> QED
    BY <1>4, <1>6, <2>1, <2>3, <2>4, <2>5 DEF SyncInv
<1>8. CASE Go(w, task) /\ UNCHANGED todo /\ e.kind = "first"
  <2>1. task \in Task /\ task.at = "claim" /\ task.e = e
    BY <1>2 DEF Task
  <2> HIDE DEF task
  <2>2. /\ \A v \in Workers : v = w /\ worker'[v] = task
        /\ worker' \in [Workers -> Task \cup {Idle}]
    BY <1>8, <2>1, GoneOn
  <2>3. TypeOK'
    BY <1>1, <1>3, <1>8, <2>2 DEF TypeOK, customer
  <2>4. Queued' /\ AskedKinds' /\ SeenOrDue' /\ ReadIsCurrent'
    BY <1>1, <1>8, <2>1, <2>2
    DEF Queued, AskedKinds, Claims, SeenOrDue, ReadIsCurrent, Asks, SyncInv
  <2>5. \A v \in Workers, f \in Event : Holds(v, f)' => Holds(v, f)
    BY <1>1, <2>1, <2>2 DEF Holds, Claims, Asks
  <2>6. Due(s) => Due(s)'
    BY <1>2, <1>8, <2>5, DueSame
  <2>7. Started'
    BY <1>1, <1>8, SameStarted
  <2> QED
    BY <1>4, <1>6, <2>3, <2>4, <2>6, <2>7 DEF SyncInv
<1> QED
  BY <1>7, <1>8 DEF Write

\* The claim goes on with the same event, to cancel.
LEMMA ClaimStep ==
    ASSUME OneWorker, TypeOK, SyncInv, NEW w \in Workers, Claim(w)
    PROVE  /\ worker[w].at = "claim" /\ worker[w] # Idle
           /\ UNCHANGED <<customer, todo, row>>
           /\ worker' \in [Workers -> Task \cup {Idle}]
           /\ \A v \in Workers :
                 v = w /\ worker'[v].at = "cancel" /\ worker'[v].e = worker[w].e
<1>1. worker[w].at = "claim" /\ worker[w] # Idle
  BY Shapes DEF Claim
<1>2. worker[w].e \in Event /\ worker[w].e.sub \in Subs
  BY <1>1, AskedSub DEF SyncInv, Claims
<1>3. PICK S \in SUBSET Subs : Go(w, [at |-> "cancel", e |-> worker[w].e, left |-> S])
  <2>1. \A s \in Subs :
          \A S \in {Replaced(s), {s}} \cup (IF StripeFails THEN {{}} ELSE {}) : S \in SUBSET Subs
    BY DEF Replaced
  <2> QED
    BY <1>2, <2>1 DEF Claim
<1> DEFINE task == [at |-> "cancel", e |-> worker[w].e, left |-> S]
<1>4. task \in Task /\ task.at = "cancel" /\ task.e = worker[w].e
  BY <1>2 DEF Task
<1>5. Go(w, task)
  BY <1>3
<1> HIDE DEF task
<1>6. /\ \A v \in Workers : v = w /\ worker'[v] = task
      /\ worker' \in [Workers -> Task \cup {Idle}]
  BY <1>4, <1>5, GoneOn
<1> QED
  BY <1>1, <1>4, <1>6 DEF Claim

LEMMA ClaimDue ==
    ASSUME OneWorker, TypeOK, SyncInv, NEW w \in Workers, Claim(w), NEW s \in Subs, Due(s)
    PROVE  Due(s)'
<1>1. \A v \in Workers, f \in Event : Holds(v, f)' => Holds(v, f)
  BY ClaimStep DEF Holds, Asks, Claims
<1> QED
  BY <1>1, ClaimStep, DueSame

LEMMA ClaimKeeps ==
    ASSUME OneWorker, TypeOK, SyncInv, NEW w \in Workers, Claim(w)
    PROVE  TypeOK' /\ SyncInv'
<1>1. /\ worker[w].at = "claim" /\ worker[w] # Idle
      /\ UNCHANGED <<customer, todo, row>>
      /\ worker' \in [Workers -> Task \cup {Idle}]
      /\ \A v \in Workers :
            v = w /\ worker'[v].at = "cancel" /\ worker'[v].e = worker[w].e
  BY ClaimStep
<1>2. TypeOK'
  BY <1>1 DEF TypeOK, customer
<1>3. Queued' /\ AskedKinds' /\ SeenOrDue' /\ ReadIsCurrent' /\ EmptyRow'
  BY <1>1 DEF Queued, AskedKinds, Claims, SeenOrDue, ReadIsCurrent, EmptyRow, Asks, SyncInv
<1>4. \A v \in Workers : ~Asks(v)
  BY <1>1 DEF Asks
<1>5. ASSUME row.sub # None
      PROVE  row.status = stripe[row.sub] \/ Due(row.sub)'
  <2>1. row.sub \in Subs
    BY <1>5 DEF TypeOK
  <2> QED
    BY <1>1, <1>4, <1>5, <2>1, ClaimDue DEF SyncInv, RowOrDue
<1>6. RowOrDue'
  BY <1>1, <1>5 DEF RowOrDue, customer
<1>7. Started'
  BY <1>1, SameStarted DEF customer
<1> QED
  BY <1>2, <1>3, <1>6, <1>7 DEF SyncInv

LEMMA ClaimedKeeps ==
    ASSUME OneWorker, TypeOK, SyncInv, NEW w \in Workers, Claimed(w)
    PROVE  TypeOK' /\ SyncInv'
<1>1. /\ Finish(w) /\ Go(w, Idle) /\ UNCHANGED <<customer, row>>
      /\ worker[w] # Idle /\ worker[w].at = "cancel"
  BY Shapes DEF Claimed, Finish
<1>2. /\ Queued' /\ AskedKinds' /\ SeenOrDue' /\ ReadIsCurrent'
      /\ worker' \in [Workers -> Task \cup {Idle}]
  BY <1>1, EndedJob
<1>3. todo' \in [Event -> 0 .. MaxEvents]
  BY <1>1, FinishTodo DEF SyncInv
<1>4. TypeOK'
  BY <1>1, <1>2, <1>3 DEF TypeOK, customer
<1>5. \A v \in Workers : ~Asks(v)
  BY <1>1 DEF OneWorker, Asks
<1>6. ASSUME row.sub # None
      PROVE  row.status = stripe[row.sub] \/ Due(row.sub)'
  <2>1. row.sub \in Subs
    BY <1>6 DEF TypeOK
  <2>2. Due(row.sub) => Due(row.sub)'
    BY <1>1, <2>1, DueAfterEnd DEF SyncInv
  <2> QED
    BY <1>5, <1>6, <2>2 DEF SyncInv, RowOrDue
<1>7. RowOrDue' /\ EmptyRow'
  BY <1>1, <1>6 DEF SyncInv, RowOrDue, EmptyRow, customer
<1>8. Started'
  BY <1>1, FinishStarted DEF customer
<1> QED
  BY <1>2, <1>4, <1>7, <1>8 DEF SyncInv

-----------------------------------------------------------------------------
(* The invariant.                                                          *)

LEMMA InitHolds ==
    ASSUME Init
    PROVE  TypeOK /\ SyncInv
<1>1. TypeOK
  BY SyncAssumption DEF Init, TypeOK, NoSub, NoRequest
<1>2. Queued /\ AskedKinds /\ SeenOrDue /\ ReadIsCurrent
  BY DEF Init, Queued, AskedKinds, Claims, SeenOrDue, ReadIsCurrent, Asks, Idle
<1>3. RowOrDue /\ EmptyRow
  BY DEF Init, RowOrDue, EmptyRow, NoSub
<1>4. Started
  BY Events DEF Init, Started
<1> QED
  BY <1>1, <1>2, <1>3, <1>4 DEF SyncInv

LEMMA OutsideTypes ==
    ASSUME TypeOK, OutsideStep
    PROVE  TypeOK'
<1>1. todo' \in [Event -> 0 .. MaxEvents] /\ row' = row
  BY OutsideSteps DEF Outside
<1>2. stripe' \in [Subs -> Status \cup {"none"}]
  <2>1. ASSUME NEW S, stripe' = Ended(S)
        PROVE  stripe' \in [Subs -> Status \cup {"none"}]
    BY <2>1 DEF Ended, TypeOK, Status
  <2>2. ASSUME NEW s \in Subs, NEW to \in Status, stripe' = [stripe EXCEPT ![s] = to]
        PROVE  stripe' \in [Subs -> Status \cup {"none"}]
    BY <2>2 DEF TypeOK
  <2>3. ASSUME NEW s \in Subs, CheckOut(s) \/ Touch(s)
        PROVE  stripe' = stripe
    BY <2>3, CheckOutStep DEF Touch
  <2>4. ASSUME NEW s \in Subs, Subscribe(s) \/ Renew(s)
        PROVE  \E to \in Status : stripe' = [stripe EXCEPT ![s] = to]
    BY <2>4 DEF Subscribe, Renew, Status, Active
  <2>5. ASSUME (\E s \in Subs : Cancel(s)) \/ DeleteCustomer
        PROVE  \E S \in SUBSET Subs : stripe' = Ended(S)
    BY <2>5 DEF Cancel, Ends, DeleteCustomer
  <2>6. ASSUME NEW w \in Workers, CancelOne(w)
        PROVE  stripe' = stripe \/ \E S \in SUBSET Subs : stripe' = Ended(S)
    BY <2>6, CancelOneStep DEF Ends
  <2>7. stripe \in [Subs -> Status \cup {"none"}]
    BY DEF TypeOK
  <2> QED
    BY <2>1, <2>2, <2>3, <2>4, <2>5, <2>6, <2>7 DEF OutsideStep
<1>3. ASSUME NEW w \in Workers, CancelOne(w)
      PROVE  TypeOK'
  BY <1>1, <1>2, <1>3, CancelOneStep DEF TypeOK
<1>4. ASSUME NEW s \in Subs, CheckOut(s)
      PROVE  TypeOK'
  BY <1>1, <1>2, <1>4, CheckOutStep DEF TypeOK
<1>5. ASSUME NEW s \in Subs, Subscribe(s) \/ Renew(s) \/ Touch(s) \/ Cancel(s)
      PROVE  TypeOK'
  <2>1. /\ UNCHANGED <<request, worker, patient>> /\ session' \subseteq session
        /\ touches' = touches \/ (touches' = touches + 1 /\ touches < MaxTouches)
    BY <1>5 DEF Subscribe, Renew, Touch, Cancel
  <2>2. touches' \in 0 .. MaxTouches
    BY <2>1, SyncAssumption DEF TypeOK
  <2> QED
    BY <1>1, <1>2, <2>1, <2>2 DEF TypeOK
<1>6. CASE DeleteCustomer
  BY <1>1, <1>2, <1>6 DEF DeleteCustomer, TypeOK
<1> QED
  BY <1>3, <1>4, <1>5, <1>6 DEF OutsideStep

LEMMA StepKeeps ==
    ASSUME OneWorker, TypeOK, SyncInv, [Next]_vars
    PROVE  TypeOK' /\ SyncInv'
<1>1. CASE OutsideStep
  BY <1>1, OutsideSteps, OutsideKeeps, OutsideTypes
<1>2. ASSUME NEW w \in Workers, JobStep(w)
      PROVE  TypeOK' /\ SyncInv'
  BY <1>2, ThrowKeeps, DeletedKeeps, RetrieveKeeps, ReadKeeps, IgnoreKeeps,
     WriteKeeps, ClaimKeeps, ClaimedKeeps, OutsideSteps, OutsideKeeps, OutsideTypes
     DEF JobStep, OutsideStep
<1>3. ASSUME NEW w \in Workers, NEW e \in Event, Take(w, e)
      PROVE  TypeOK' /\ SyncInv'
  BY <1>3, TakeKeeps
<1>4. CASE UNCHANGED vars
  <2>1. TypeOK'
    BY <1>4 DEF vars, TypeOK
  <2>2. Queued' /\ AskedKinds' /\ Started' /\ ReadIsCurrent' /\ EmptyRow'
    BY <1>4 DEF vars, SyncInv, Queued, AskedKinds, Claims, Started, ReadIsCurrent,
                EmptyRow, Asks, KeepsOther, EventOf
  <2>3. SeenOrDue' /\ RowOrDue'
    BY <1>4 DEF vars, SyncInv, SeenOrDue, RowOrDue, Due, Holds, Claims, Asks, EventOf
  <2> QED
    BY <2>1, <2>2, <2>3 DEF SyncInv
<1> QED
  BY <1>1, <1>2, <1>3, <1>4 DEF Next, OutsideStep, CheckOut

LEMMA SyncInvariant ==
    ASSUME OneWorker
    PROVE  Spec => [](TypeOK /\ SyncInv)
<1>1. Init => TypeOK /\ SyncInv
  BY InitHolds
<1>2. TypeOK /\ SyncInv /\ [Next]_vars => (TypeOK /\ SyncInv)'
  BY StepKeeps
<1> QED
  BY <1>1, <1>2, PTL DEF Spec

\* Every variable has its type, whatever the number of subscriptions, of events
\* and of jobs thrown: the queue never counts below zero.
THEOREM TypeCorrect ==
    ASSUME OneWorker
    PROVE  Spec => []TypeOK
<1>1. TypeOK /\ SyncInv => TypeOK
  OBVIOUS
<1> QED
  BY <1>1, SyncInvariant, PTL

\* syncSubscription and onSubscriptionDeleted: once the queue is empty, the row
\* says of its subscription what Stripe says.
THEOREM RowStaysCurrent ==
    ASSUME OneWorker
    PROVE  Spec => []RowIsCurrent
<1>1. ASSUME TypeOK, SyncInv, Quiet, row.sub # None
      PROVE  row.status = stripe[row.sub]
  <2>1. ~Due(row.sub)
    <3>1. row.sub \in Subs
      BY <1>1 DEF TypeOK
    <3>2. \A k \in Kind : todo[EventOf(k, row.sub)] = 0
      BY <1>1, <3>1, Events DEF Quiet
    <3> QED
      BY <3>2 DEF Due
  <2>2. \A w \in Workers : ~Asks(w)
    BY <1>1 DEF Quiet, Asks, Idle
  <2> QED
    BY <1>1, <2>1, <2>2 DEF SyncInv, RowOrDue
<1>2. TypeOK /\ SyncInv => RowIsCurrent
  BY <1>1 DEF RowIsCurrent
<1> QED
  BY <1>2, SyncInvariant, PTL

\* syncSubscription: an inactive subscription never replaces the active one of
\* another id.  The row read before the write is still the row written.
THEOREM InactiveNever ==
    ASSUME OneWorker
    PROVE  Spec => InactiveNeverReplaces
<1>1. ASSUME TypeOK, SyncInv, [Next]_vars, Premium, row'.sub \notin {row.sub, None}
      PROVE  row'.status \in Active
  <2>1. ASSUME NEW w \in Workers, Write(w)
        PROVE  row'.status \in Active
    <3>1. /\ worker[w].at = "write" /\ row.sub \in Subs \cup {None}
          /\ row'.sub = worker[w].e.sub /\ row'.status = worker[w].seen
      BY <1>1, <2>1 DEF Write, TypeOK
    <3>2. ~KeepsOther(worker[w])
      BY <1>1, <3>1 DEF SyncInv, ReadIsCurrent
    <3>3. row.sub # None
      BY <1>1, <3>1, NullAssumption DEF Premium, SyncInv, EmptyRow, Status
    <3> QED
      BY <1>1, <3>1, <3>2, <3>3 DEF KeepsOther, Premium
  <2>2. ASSUME NEW w \in Workers, Deleted(w) \/ CustomerDeleted(w)
        PROVE  row'.sub \in {row.sub, None}
    BY <1>1, <2>2 DEF Deleted, CustomerDeleted, NoSub, TypeOK
  <2>3. ASSUME NEW w \in Workers,
               Throw(w) \/ Retrieve(w) \/ Read(w) \/ Ignore(w) \/ Claim(w) \/ Claimed(w)
               \/ \E e \in Event : Take(w, e)
        PROVE  row' = row
    BY <2>3 DEF Throw, Retrieve, Read, Ignore, Claim, Claimed, Take
  <2>4. CASE OutsideStep
    BY <1>1, <2>4, OutsideSteps DEF Outside
  <2>5. CASE UNCHANGED vars
    BY <1>1, <2>5 DEF vars
  <2> QED
    BY <1>1, <2>1, <2>2, <2>3, <2>4, <2>5 DEF Next, JobStep, OutsideStep, CheckOut
<1>2. TypeOK /\ SyncInv /\ [Next]_vars =>
        [Premium /\ row'.sub \notin {row.sub, None} => row'.status \in Active]_vars
  BY <1>1
<1> QED
  BY <1>2, SyncInvariant, PTL DEF Spec, InactiveNeverReplaces

-----------------------------------------------------------------------------
(* A customer who starts a subscription only while none runs.              *)

Live == Status \ {"canceled"}

\* An open session has no subscription yet, nor has a request for one, which
\* has no session either.
SessionWaits ==
    /\ \A s \in session : stripe[s] = "none"
    /\ \A s \in Subs : request[s].at # "none" => stripe[s] = "none" /\ s \notin session

\* A subscription does not come back, nor does a customer; the row names only
\* subscriptions that were started.
EndIsFinal ==
    /\ \A s \in Subs : todo[EventOf("deleted", s)] > 0 => stripe[s] = "canceled"
    /\ todo[Gone] > 0 \/ ~row.linked => session = {} /\ \A s \in Subs : stripe[s] \notin Live
    /\ row.sub # None => stripe[row.sub] # "none"

OneLive == \A s, t \in Subs : stripe[s] \in Live /\ stripe[t] \in Live => s = t

\* A job asks about another subscription than the live one of the row only to
\* hear that it has ended.
OthersOver ==
    \A w \in Workers, s \in Subs :
        Asks(w) /\ row.sub = s /\ stripe[s] \in Live /\ worker[w].e.sub # s =>
            worker[w].seen = "canceled"

\* What runs is in the row, or an event follows, or a job that saw it.
Followed(s) ==
    \/ row.sub = s
    \/ Due(s)
    \/ \E w \in Workers : Asks(w) /\ worker[w].e.sub = s /\ worker[w].seen = stripe[s]

PatientInv ==
    /\ SessionWaits /\ EndIsFinal
    /\ patient => OneLive /\ OthersOver /\ \A s \in Running : Followed(s)

\* The events of the customer, as EmitOne has those of one subscription.
LEMMA OutsideEnds ==
    ASSUME TypeOK, SyncInv, PatientInv, OutsideStep
    PROVE  /\ SessionWaits' /\ EndIsFinal'
           /\ patient' = patient /\ (patient => OneLive')
<1>0. /\ row' = row /\ patient' = patient
      /\ \A s \in Subs : stripe'[s] = "none" => stripe[s] = "none"
      /\ \A s \in Subs : EventOf("deleted", s) \in Event
      /\ \A s \in Subs : EventOf("deleted", s) # Gone
      /\ Gone \in Event /\ todo \in [Event -> 0 .. MaxEvents]
      /\ stripe \in [Subs -> Status \cup {"none"}] /\ session \subseteq Subs
  <2>1. patient' = patient
    BY CheckOutStep, CancelOneStep
    DEF OutsideStep, Subscribe, Renew, Touch, Cancel, DeleteCustomer
  <2>2. \A s \in Subs : EventOf("deleted", s) # Gone
    BY DEF EventOf, Gone
  <2> QED
    BY <2>1, <2>2, OutsideSteps, Events DEF Outside, Kind, TypeOK
<1>1. row.sub # None => stripe'[row.sub] # "none"
  BY <1>0 DEF PatientInv, EndIsFinal, TypeOK
<1> USE DEF PatientInv
<1>2. ASSUME NEW s \in Subs, CheckOut(s)
      PROVE  SessionWaits' /\ EndIsFinal' /\ (patient => OneLive')
  <2>1. /\ UNCHANGED <<stripe, todo, row>>
        /\ \A t \in Subs \ {s} : request'[t] = request[t]
        /\ request'[s].at # "none" =>
              request[s].at # "none" \/ (stripe[s] = "none" /\ s \notin session)
        /\ request'[s].at # "none" /\ s \in session' => s \in session
        /\ session' \subseteq Subs
        /\ \A t \in session' \ session :
              t = s /\ request[s].at # "none" /\ row.linked /\ todo[Gone] = 0
    BY <1>2, CheckOutStep
  <2>2. EndIsFinal'
    BY <2>1 DEF EndIsFinal, EventOf, Gone
  <2>3. SessionWaits'
    BY <2>1 DEF SessionWaits
  <2> QED
    BY <2>1, <2>2, <2>3 DEF OneLive
<1>3. ASSUME NEW s \in Subs, Subscribe(s)
      PROVE  SessionWaits' /\ EndIsFinal' /\ (patient => OneLive')
  <2> DEFINE S == {EventOf("changed", s)} \cup IF s \in Founder THEN {EventOf("first", s)} ELSE {}
  <2>1. S \subseteq Event /\ Gone \notin S /\ \A t \in Subs : EventOf("deleted", t) \notin S
    BY Events DEF Kind, EventOf, Gone
  <2>2. /\ Emit(S) /\ s \in session /\ session' = session \ {s} /\ request' = request
        /\ \E status \in Active : stripe' = [stripe EXCEPT ![s] = status]
        /\ patient => \A t \in Subs : stripe[t] \in {"none", "canceled"}
    BY <1>3 DEF Subscribe
  <2> HIDE DEF S
  <2>3. \A e \in Event : todo'[e] = IF e \in S THEN todo[e] + 1 ELSE todo[e]
    BY <2>1, <2>2, EmitCounts
  <2>4. /\ todo'[Gone] = todo[Gone]
        /\ \A t \in Subs : todo'[EventOf("deleted", t)] = todo[EventOf("deleted", t)]
    BY <1>0, <2>1, <2>3
  <2>5. stripe[s] = "none" /\ \A t \in Subs \ {s} : stripe'[t] = stripe[t]
    BY <1>0, <2>2 DEF SessionWaits
  <2>6. \A t \in Subs : todo'[EventOf("deleted", t)] > 0 => stripe'[t] = "canceled"
    BY <2>4, <2>5 DEF EndIsFinal
  <2>7. todo[Gone] = 0 /\ row.linked
    BY <1>0, <2>2 DEF EndIsFinal
  <2>8. EndIsFinal'
    BY <1>0, <1>1, <2>4, <2>6, <2>7 DEF EndIsFinal, EventOf, Gone
  <2>9. patient => OneLive'
    BY <1>0, <2>2, <2>5 DEF OneLive, Live
  <2>10. SessionWaits'
    BY <1>0, <2>2, <2>5 DEF SessionWaits
  <2> QED
    BY <2>8, <2>9, <2>10
<1>4. ASSUME NEW s \in Subs, Renew(s) \/ Touch(s)
      PROVE  SessionWaits' /\ EndIsFinal' /\ (patient => OneLive')
  <2> DEFINE S == {EventOf("changed", s)}
  <2>1. S \subseteq Event /\ Gone \notin S /\ \A t \in Subs : EventOf("deleted", t) \notin S
    BY Events DEF Kind, EventOf, Gone
  <2>2. Emit(S) /\ session' = session /\ request' = request
    BY <1>4 DEF Renew, Touch
  <2> HIDE DEF S
  <2>3. \A e \in Event : todo'[e] = IF e \in S THEN todo[e] + 1 ELSE todo[e]
    BY <2>1, <2>2, EmitCounts
  <2>4. /\ todo'[Gone] = todo[Gone]
        /\ \A t \in Subs : todo'[EventOf("deleted", t)] = todo[EventOf("deleted", t)]
    BY <1>0, <2>1, <2>3
  <2>5. /\ stripe[s] \in Live /\ stripe'[s] \in Live
        /\ \A t \in Subs \ {s} : stripe'[t] = stripe[t]
    BY <1>0, <1>4 DEF Renew, Touch, Live, Status, Active
  <2>6. /\ \A t \in Subs : todo'[EventOf("deleted", t)] > 0 => stripe'[t] = "canceled"
        /\ todo[Gone] = 0 /\ row.linked
    BY <1>0, <2>4, <2>5 DEF EndIsFinal, Live
  <2>7. EndIsFinal'
    BY <1>0, <1>1, <2>4, <2>6 DEF EndIsFinal, EventOf, Gone
  <2>8. (patient => OneLive') /\ SessionWaits'
    BY <1>0, <2>2, <2>5 DEF OneLive, SessionWaits, Live, Status, Active
  <2> QED
    BY <2>7, <2>8
<1>5. ASSUME NEW s \in Subs, Ends(s), session' = session, request' = request
      PROVE  SessionWaits' /\ EndIsFinal' /\ (patient => OneLive')
  <2> DEFINE S == {EventOf("deleted", s)}
  <2>1. S \subseteq Event /\ Gone \notin S /\ \A t \in Subs \ {s} : EventOf("deleted", t) \notin S
    BY Events DEF Kind, EventOf, Gone
  <2>2. /\ Emit(S) /\ session' = session /\ request' = request
        /\ stripe' = Ended({s}) /\ stripe[s] \in Live
    BY <1>5 DEF Ends, Live
  <2> HIDE DEF S
  <2>3. \A e \in Event : todo'[e] = IF e \in S THEN todo[e] + 1 ELSE todo[e]
    BY <2>1, <2>2, EmitCounts
  <2>4. /\ todo'[Gone] = todo[Gone]
        /\ \A t \in Subs \ {s} : todo'[EventOf("deleted", t)] = todo[EventOf("deleted", t)]
    BY <1>0, <2>1, <2>3
  <2>5. stripe'[s] = "canceled" /\ \A t \in Subs \ {s} : stripe'[t] = stripe[t]
    BY <2>2 DEF Ended
  <2>6. \A t \in Subs : todo'[EventOf("deleted", t)] > 0 => stripe'[t] = "canceled"
    BY <2>4, <2>5 DEF EndIsFinal
  <2>9. todo[Gone] = 0 /\ row.linked
    BY <1>0, <2>2 DEF EndIsFinal
  <2>7. EndIsFinal'
    BY <1>0, <1>1, <2>4, <2>6, <2>9 DEF EndIsFinal, EventOf, Gone
  <2>8. (patient => OneLive') /\ SessionWaits'
    BY <1>0, <2>2, <2>5 DEF OneLive, SessionWaits, Live, Status, Active
  <2> QED
    BY <2>7, <2>8
<1>6. ASSUME DeleteCustomer
      PROVE  SessionWaits' /\ EndIsFinal' /\ (patient => OneLive')
  <2> DEFINE running == {s \in Subs : stripe[s] \in Live}
             S == {Gone} \cup {EventOf("deleted", s) : s \in running}
  <2>1. S \subseteq Event /\ \A t \in Subs \ running : EventOf("deleted", t) \notin S
    <3>1. S \subseteq Event
      BY Events DEF Kind
    <3>2. \A t, r \in Subs : EventOf("deleted", t) = EventOf("deleted", r) => t = r
      BY DEF EventOf
    <3> QED
      BY <1>0, <3>1, <3>2
  <2>2. /\ Emit(S) /\ session' = {} /\ request' = request
        /\ stripe' = Ended(running) /\ row.linked
    BY <1>6 DEF DeleteCustomer, Live
  <2>3. \A s \in Subs : stripe'[s] = IF s \in running THEN "canceled" ELSE stripe[s]
    BY <2>2 DEF Ended
  <2>4. \A s \in Subs : stripe'[s] \notin Live
    BY <2>3 DEF Live
  <2> HIDE DEF S
  <2>5. \A e \in Event : todo'[e] = IF e \in S THEN todo[e] + 1 ELSE todo[e]
    BY <2>1, <2>2, EmitCounts
  <2>6. \A t \in Subs \ running : todo'[EventOf("deleted", t)] = todo[EventOf("deleted", t)]
    BY <1>0, <2>1, <2>5
  <2> HIDE DEF running
  <2>7. \A t \in Subs : todo'[EventOf("deleted", t)] > 0 => stripe'[t] = "canceled"
    BY <2>3, <2>6 DEF EndIsFinal
  <2>8. EndIsFinal'
    BY <1>0, <1>1, <2>2, <2>4, <2>7 DEF EndIsFinal, EventOf, Gone
  <2>9. SessionWaits'
    BY <2>2, <2>3 DEF SessionWaits, running, Live, Status, Active
  <2> QED
    BY <2>4, <2>8, <2>9 DEF OneLive
<1>7. ASSUME NEW s \in Subs, Cancel(s)
      PROVE  SessionWaits' /\ EndIsFinal' /\ (patient => OneLive')
  BY <1>5, <1>7 DEF Cancel
<1>8. ASSUME NEW w \in Workers, CancelOne(w)
      PROVE  SessionWaits' /\ EndIsFinal' /\ (patient => OneLive')
  <2>1. /\ session' = session /\ request' = request
        /\ (\E t \in Subs : Ends(t)) \/ UNCHANGED <<stripe, todo>>
    BY <1>8, CancelOneStep
  <2>2. CASE UNCHANGED <<stripe, todo>>
    BY <1>0, <2>1, <2>2 DEF SessionWaits, EndIsFinal, OneLive, EventOf, Gone
  <2> QED
    BY <1>5, <2>1, <2>2
<1> QED
  BY <1>0, <1>2, <1>3, <1>4, <1>6, <1>7, <1>8 DEF OutsideStep

LEMMA CanceledStays ==
    ASSUME TypeOK, SessionWaits, OutsideStep
    PROVE  \A s \in Subs : stripe[s] = "canceled" => stripe'[s] = "canceled"
<1>1. ASSUME NEW s \in Subs, Ends(s)
      PROVE  \A t \in Subs : stripe[t] = "canceled" => stripe'[t] = "canceled"
  BY <1>1 DEF Ends, Ended
<1>2. ASSUME NEW s \in Subs, CheckOut(s) \/ Touch(s)
      PROVE  stripe' = stripe
  BY <1>2, CheckOutStep DEF Touch
<1>3. ASSUME NEW s \in Subs, Subscribe(s) \/ Renew(s)
      PROVE  \A t \in Subs : stripe[t] = "canceled" => stripe'[t] = "canceled"
  BY <1>3 DEF TypeOK, SessionWaits, Subscribe, Renew
<1>4. ASSUME DeleteCustomer
      PROVE  \A t \in Subs : stripe[t] = "canceled" => stripe'[t] = "canceled"
  BY <1>4 DEF DeleteCustomer, Ended
<1>5. ASSUME NEW w \in Workers, CancelOne(w)
      PROVE  (\E s \in Subs : Ends(s)) \/ stripe' = stripe
  BY <1>5, CancelOneStep
<1> QED
  BY <1>1, <1>2, <1>3, <1>4, <1>5 DEF OutsideStep, Cancel

LEMMA OutsidePatient ==
    ASSUME TypeOK, SyncInv, PatientInv, OutsideStep
    PROVE  PatientInv'
<1>1. /\ SessionWaits' /\ EndIsFinal'
      /\ patient' = patient /\ (patient => OneLive')
  BY OutsideEnds
<1>2. /\ Outside /\ row' = row
      /\ \A w \in Workers :
           /\ worker'[w].at = worker[w].at /\ worker'[w].e = worker[w].e
           /\ Asks(w) => worker'[w] = worker[w]
  BY OutsideSteps, OutsideJobs DEF Outside
<1>3. ASSUME patient PROVE OthersOver'
  <2>1. ASSUME row.sub \in Subs, stripe'[row.sub] \in Live
        PROVE  stripe[row.sub] \in Live
    <3>1. stripe[row.sub] # "none"
      BY <2>1, SyncAssumption DEF PatientInv, EndIsFinal
    <3>2. stripe[row.sub] # "canceled"
      BY <2>1, CanceledStays DEF PatientInv, Live
    <3> QED
      BY <2>1, <3>1, <3>2 DEF TypeOK, Live
  <2> QED
    BY <1>2, <1>3, <2>1 DEF PatientInv, OthersOver, Asks
<1>4. ASSUME patient, NEW s \in Subs, stripe'[s] \in Active PROVE Followed(s)'
  <2>1. CASE stripe'[s] # stripe[s]
    BY <1>2, <2>1, OutsideDue DEF Followed
  <2>2. CASE stripe'[s] = stripe[s]
    <3>1. Followed(s)
      BY <1>4, <2>2 DEF PatientInv, Running
    <3>2. Due(s) => Due(s)'
      BY <1>2, OutsideDue
    <3> QED
      BY <1>2, <2>2, <3>1, <3>2 DEF Followed, Asks
  <2> QED
    BY <2>1, <2>2
<1> QED
  BY <1>1, <1>3, <1>4 DEF PatientInv, Running, Followed, Due, Holds, Claims, Asks, EventOf

\* A job other than a claim changes nothing at Stripe.
LEMMA JobEnds ==
    ASSUME TypeOK, PatientInv, UNCHANGED customer,
           todo' \in [Event -> 0 .. MaxEvents], \A e \in Event : todo'[e] <= todo[e],
           row'.linked = row.linked \/ todo[Gone] > 0,
           row'.sub # None => stripe[row'.sub] # "none"
    PROVE  /\ SessionWaits' /\ EndIsFinal' /\ patient' = patient /\ Running' = Running
           /\ patient => OneLive'
<1>1. /\ UNCHANGED <<stripe, request, session, patient>>
  BY DEF customer
<1>2. /\ \A e \in Event : todo[e] \in Nat /\ todo'[e] \in Nat
      /\ Gone \in Event /\ \A s \in Subs : EventOf("deleted", s) \in Event
  BY Events DEF TypeOK, Kind
<1>3. todo'[Gone] > 0 => todo[Gone] > 0
  BY <1>2
<1>4. \A s \in Subs : todo'[EventOf("deleted", s)] > 0 => todo[EventOf("deleted", s)] > 0
  BY <1>2
<1>5. EndIsFinal'
  BY <1>1, <1>3, <1>4 DEF PatientInv, EndIsFinal, EventOf, Gone
<1> QED
  BY <1>1, <1>5 DEF PatientInv, SessionWaits, OneLive, Running

\* The event of a job is of a subscription that was started.
LEMMA JobStarted ==
    ASSUME TypeOK, SyncInv, NEW w \in Workers, Asks(w)
    PROVE  worker[w].e.sub \in Subs /\ stripe[worker[w].e.sub] # "none"
<1>1. /\ worker[w].e \in Event /\ worker[w].e.sub \in Subs /\ worker[w].e.kind \in Kind
      /\ worker[w].e = EventOf(worker[w].e.kind, worker[w].e.sub)
  BY AskedSub DEF SyncInv
<1>2. todo[worker[w].e] >= 1 /\ todo[worker[w].e] \in Nat
  BY <1>1, Shapes DEF SyncInv, Queued, Asks, TypeOK
<1>3. todo[EventOf(worker[w].e.kind, worker[w].e.sub)] > 0
  BY <1>1, <1>2
<1> QED
  BY <1>1, <1>3 DEF SyncInv, Started

LEMMA TakePatient ==
    ASSUME OneWorker, TypeOK, SyncInv, PatientInv, NEW w \in Workers, NEW e \in Event, Take(w, e)
    PROVE  PatientInv'
<1> DEFINE task == [at |-> "start", e |-> e]
<1>1. Go(w, task) /\ UNCHANGED <<customer, todo, row>> /\ worker[w] = Idle
  BY DEF Take, Go
<1>2. \A v \in Workers : v = w /\ worker'[v] = task
  BY <1>1, GoneOn DEF Task
<1>3. \A v \in Workers : ~Asks(v) /\ ~Asks(v)'
  BY <1>1, <1>2 DEF Asks, Idle
<1>4. \A v \in Workers, f \in Event : ~Holds(v, f)'
  BY <1>2 DEF Holds, Claims, Asks
<1>5. ASSUME NEW s \in Subs, Followed(s) PROVE Followed(s)'
  BY <1>1, <1>3, <1>4, <1>5, DueSame DEF Followed
<1>6. /\ SessionWaits' /\ EndIsFinal' /\ patient' = patient /\ Running' = Running
      /\ patient => OneLive'
  BY <1>1, JobEnds DEF TypeOK, PatientInv, EndIsFinal
<1>7. OthersOver'
  BY <1>3 DEF OthersOver
<1> QED
  BY <1>5, <1>6, <1>7 DEF PatientInv, Running

LEMMA ThrowPatient ==
    ASSUME OneWorker, TypeOK, SyncInv, PatientInv, NEW w \in Workers, Throw(w)
    PROVE  PatientInv'
<1>1. Go(w, Idle) /\ UNCHANGED <<customer, todo, row>>
  BY DEF Throw
<1>2. \A v \in Workers : ~Asks(v)'
  BY <1>1, EndedJob DEF Asks, Idle
<1>3. ASSUME NEW s \in Subs, Followed(s) PROVE Followed(s)'
  BY <1>1, <1>3, ThrowDue DEF Followed
<1>4. /\ SessionWaits' /\ EndIsFinal' /\ patient' = patient /\ Running' = Running
      /\ patient => OneLive'
  BY <1>1, JobEnds DEF TypeOK, PatientInv, EndIsFinal
<1>5. OthersOver'
  BY <1>2 DEF OthersOver
<1> QED
  BY <1>3, <1>4, <1>5 DEF PatientInv, Running

LEMMA FinishLess ==
    ASSUME TypeOK, SyncInv, NEW w \in Workers, worker[w] # Idle, Finish(w)
    PROVE  todo' \in [Event -> 0 .. MaxEvents] /\ \A e \in Event : todo'[e] <= todo[e]
<1>1. todo' \in [Event -> 0 .. MaxEvents]
  BY FinishTodo DEF SyncInv
<1> QED
  BY <1>1 DEF Finish, TypeOK

LEMMA DeletedPatient ==
    ASSUME OneWorker, TypeOK, SyncInv, PatientInv, NEW w \in Workers,
           Deleted(w) \/ CustomerDeleted(w)
    PROVE  PatientInv'
<1>1. /\ Finish(w) /\ Go(w, Idle) /\ UNCHANGED customer
      /\ worker[w] # Idle /\ worker[w].at = "start" /\ worker[w].e \in Event
  BY Shapes DEF Deleted, CustomerDeleted, Finish
<1>2. todo[worker[w].e] > 0
  <2>1. todo[worker[w].e] >= 1 /\ todo[worker[w].e] \in Nat
    BY <1>1 DEF SyncInv, Queued, TypeOK
  <2> QED
    BY <2>1
<1>3. \A v \in Workers : ~Asks(v) /\ ~Asks(v)'
  BY <1>1, EndedJob DEF Asks, Idle, OneWorker
<1>4. row'.linked = row.linked \/ todo[Gone] > 0
  BY <1>2 DEF Deleted, CustomerDeleted, TypeOK
<1>5. row'.sub \in {row.sub, None}
  BY DEF Deleted, CustomerDeleted, NoSub, TypeOK
<1>6. /\ SessionWaits' /\ EndIsFinal' /\ patient' = patient /\ Running' = Running
      /\ patient => OneLive'
  BY <1>1, <1>4, <1>5, FinishLess, JobEnds DEF PatientInv, EndIsFinal
<1>7. OthersOver'
  BY <1>3 DEF OthersOver
<1>8. ASSUME NEW s \in Running, Followed(s) PROVE Followed(s)'
  <2>1. stripe[s] \in Live /\ stripe[s] # "canceled" /\ s \in Subs
    BY DEF Running, Live, Status, Active
  <2>2. Deleted(w) /\ worker[w].e.kind = "deleted"
    BY <1>2, <2>1 DEF PatientInv, EndIsFinal, CustomerDeleted, Deleted
  <2>3. worker[w].e.sub # s
    <3>1. worker[w].e = EventOf("deleted", worker[w].e.sub)
      BY <1>1, <2>2, Events
    <3> QED
      BY <1>2, <2>1, <3>1 DEF PatientInv, EndIsFinal
  <2>4. row.sub = s => row'.sub = s
    BY <2>2, <2>3 DEF Deleted
  <2>5. Due(s) => Due(s)'
    BY <1>1, <2>1, <2>3, DueAfterEnd DEF SyncInv
  <2> QED
    BY <1>3, <1>8, <2>4, <2>5 DEF Followed
<1> QED
  BY <1>6, <1>7, <1>8 DEF PatientInv

LEMMA RetrievePatient ==
    ASSUME OneWorker, TypeOK, SyncInv, PatientInv, NEW w \in Workers, Retrieve(w)
    PROVE  PatientInv'
<1> DEFINE e == worker[w].e
           task == [at |-> "read", e |-> e, seen |-> stripe[e.sub]]
<1>1. /\ Go(w, task) /\ UNCHANGED <<customer, todo, row>>
      /\ worker[w].at = "start" /\ worker[w] # Idle
      /\ e \in Event /\ e.kind \in Kind /\ e.sub \in Subs /\ e = EventOf(e.kind, e.sub)
  BY Shapes, Events DEF Retrieve
<1>2. stripe[e.sub] \in Status
  <2>1. todo[EventOf(e.kind, e.sub)] >= 1 /\ todo[e] \in Nat
    BY <1>1 DEF SyncInv, Queued, TypeOK
  <2>2. stripe[e.sub] # "none"
    BY <1>1, <2>1 DEF SyncInv, Started
  <2> QED
    BY <1>1, <2>2 DEF TypeOK
<1>3. task \in Task /\ task.at = "read" /\ task.e = e /\ task.seen = stripe[e.sub]
  BY <1>1, <1>2 DEF Task
<1> HIDE DEF task
<1>4. \A v \in Workers : v = w /\ worker'[v] = task /\ ~Asks(v)
  BY <1>1, <1>3, GoneOn DEF OneWorker, Asks
<1>5. /\ SessionWaits' /\ EndIsFinal' /\ patient' = patient /\ Running' = Running
      /\ patient => OneLive'
  BY <1>1, JobEnds DEF TypeOK, PatientInv, EndIsFinal
<1>6. stripe' = stripe /\ row' = row
  BY <1>1 DEF customer
<1>7. ASSUME patient PROVE OthersOver'
  <2>1. ASSUME NEW s \in Subs, stripe[s] \in Live, e.sub # s
        PROVE  task.seen = "canceled"
    <3>1. stripe[e.sub] \notin Live
      BY <1>1, <1>7, <2>1 DEF PatientInv, OneLive
    <3> QED
      BY <1>2, <1>3, <3>1 DEF Live
  <2> QED
    BY <1>3, <1>4, <1>6, <2>1 DEF OthersOver
<1>8. ASSUME NEW s \in Subs, Followed(s) PROVE Followed(s)'
  <2>1. CASE row.sub = s
    BY <1>6, <2>1 DEF Followed
  <2>2. CASE Due(s) /\ e.sub # s
    BY <2>2, RetrieveDue DEF Followed
  <2>3. CASE e.sub = s
    BY <1>3, <1>4, <1>6, <2>3 DEF Followed, Asks
  <2> QED
    BY <1>4, <1>8, <2>1, <2>2, <2>3 DEF Followed
<1> QED
  BY <1>5, <1>7, <1>8 DEF PatientInv, Running

LEMMA ReadPatient ==
    ASSUME OneWorker, TypeOK, SyncInv, PatientInv, NEW w \in Workers, Read(w)
    PROVE  PatientInv'
<1> DEFINE task == [worker[w] EXCEPT !.at = "write"]
<1>1. /\ Go(w, task) /\ UNCHANGED <<customer, todo, row>>
      /\ worker[w].at = "read" /\ Asks(w)
  BY DEF Read, Asks
<1>2. /\ task \in Task /\ task.at = "write"
      /\ task.e = worker[w].e /\ task.seen = worker[w].seen
  <2>1. /\ worker[w] = [at |-> worker[w].at, e |-> worker[w].e, seen |-> worker[w].seen]
        /\ worker[w].e \in Event /\ worker[w].seen \in Status
    BY <1>1, Shapes DEF Asks, Idle
  <2>2. task = [at |-> "write", e |-> worker[w].e, seen |-> worker[w].seen]
    BY <2>1
  <2> QED
    BY <2>1, <2>2 DEF Task
<1> HIDE DEF task
<1>3. \A v \in Workers : v = w /\ worker'[v] = task
  BY <1>1, <1>2, GoneOn
<1>4. \A v \in Workers : /\ Asks(v) /\ Asks(v)'
                         /\ worker'[v].e = worker[v].e /\ worker'[v].seen = worker[v].seen
  BY <1>1, <1>2, <1>3 DEF Asks
<1>5. \A v \in Workers, f \in Event : Holds(v, f)' => Holds(v, f)
  BY <1>4 DEF Holds, Claims
<1>6. stripe' = stripe /\ row' = row /\ todo' = todo
  BY <1>1 DEF customer
<1>7. /\ SessionWaits' /\ EndIsFinal' /\ patient' = patient /\ Running' = Running
      /\ patient => OneLive'
  BY <1>1, JobEnds DEF TypeOK, PatientInv, EndIsFinal
<1>8. OthersOver => OthersOver'
  BY <1>4, <1>6 DEF OthersOver
<1>9. ASSUME NEW s \in Subs, Followed(s) PROVE Followed(s)'
  <2>1. Due(s) => Due(s)'
    BY <1>5, <1>6, DueSame
  <2> QED
    BY <1>4, <1>6, <1>9, <2>1 DEF Followed
<1> QED
  BY <1>7, <1>8, <1>9 DEF PatientInv, Running

LEMMA IgnorePatient ==
    ASSUME OneWorker, TypeOK, SyncInv, PatientInv, NEW w \in Workers, Ignore(w)
    PROVE  PatientInv'
<1>1. /\ Finish(w) /\ Go(w, Idle) /\ UNCHANGED <<customer, row>>
      /\ worker[w] # Idle /\ worker[w].at = "read" /\ Asks(w)
  BY Shapes DEF Ignore, Finish, Asks
<1>2. \A v \in Workers : v = w /\ ~Asks(v)'
  BY <1>1, EndedJob DEF Asks, Idle, OneWorker
<1>3. /\ SessionWaits' /\ EndIsFinal' /\ patient' = patient /\ Running' = Running
      /\ patient => OneLive'
  BY <1>1, FinishLess, JobEnds DEF PatientInv, EndIsFinal
<1>4. OthersOver'
  BY <1>2 DEF OthersOver
<1>5. ASSUME NEW s \in Running, Followed(s) PROVE Followed(s)'
  <2>1. stripe[s] \in Active /\ stripe[s] \in Live /\ s \in Subs
    BY DEF Running, Live, Status, Active
  <2>2. row.linked
    BY <2>1 DEF PatientInv, EndIsFinal
  <2>3. worker[w].seen \notin Active
    BY <1>1, <2>2 DEF Ignore, KeepsOther
  <2>4. worker[w].e.sub = s => Due(s)
    BY <1>1, <2>1, <2>3 DEF SyncInv, SeenOrDue
  <2>5. Due(s) => Due(s)'
    BY <1>1, <2>1, DueAfterEnd DEF SyncInv
  <2> QED
    BY <1>1, <1>2, <1>5, <2>4, <2>5 DEF Followed
<1> QED
  BY <1>3, <1>4, <1>5 DEF PatientInv

LEMMA WritePatient ==
    ASSUME OneWorker, TypeOK, SyncInv, PatientInv, NEW w \in Workers, Write(w)
    PROVE  PatientInv'
<1> DEFINE e == worker[w].e
           task == [at |-> "claim", e |-> e]
<1>1. /\ worker[w].at = "write" /\ Asks(w) /\ worker[w] # Idle
      /\ UNCHANGED customer
      /\ row' = [row EXCEPT !.sub = e.sub, !.status = worker[w].seen]
      /\ Finish(w) \/ (Go(w, task) /\ UNCHANGED todo)
  BY Shapes DEF Write, Asks
<1>2. e \in Event /\ e.sub \in Subs /\ stripe[e.sub] # "none"
  BY <1>1, JobStarted, Shapes
<1>3. row'.sub = e.sub /\ row'.linked = row.linked
  BY <1>1 DEF TypeOK
<1>4. \A v \in Workers : v = w /\ ~Asks(v)'
  <2>1. CASE Finish(w)
    BY <2>1, EndedJob DEF Finish, Asks, Idle, OneWorker
  <2>2. CASE Go(w, task)
    <3>1. task \in Task /\ task.at = "claim"
      BY <1>2 DEF Task
    <3> QED
      BY <2>2, <3>1, GoneOn DEF Asks
  <2> QED
    BY <1>1, <2>1, <2>2
<1>5. todo' \in [Event -> 0 .. MaxEvents] /\ \A f \in Event : todo'[f] <= todo[f]
  BY <1>1, FinishLess DEF TypeOK
<1>6. /\ SessionWaits' /\ EndIsFinal' /\ patient' = patient /\ Running' = Running
      /\ patient => OneLive'
  BY <1>1, <1>2, <1>3, <1>5, JobEnds
<1>7. OthersOver'
  BY <1>4 DEF OthersOver
<1>8. ASSUME NEW s \in Subs, Due(s) PROVE Due(s)'
  <2>1. CASE Finish(w)
    BY <1>1, <1>8, <2>1, DueAfterEnd DEF SyncInv
  <2>2. CASE Go(w, task) /\ UNCHANGED todo
    <3>1. task \in Task /\ task.e = e
      BY <1>2 DEF Task
    <3> HIDE DEF task
    <3>2. \A v \in Workers : v = w /\ worker'[v] = task
      BY <2>2, <3>1, GoneOn
    <3>3. \A v \in Workers, f \in Event : Holds(v, f)' => Holds(v, f)
      BY <1>1, <3>1, <3>2 DEF Holds, Claims
    <3> QED
      BY <1>8, <2>2, <3>3, DueSame
  <2> QED
    BY <1>1, <2>1, <2>2
<1>9. ASSUME patient, NEW s \in Running, Followed(s) PROVE Followed(s)'
  <2>1. stripe[s] \in Active /\ stripe[s] \in Live /\ s \in Subs /\ s # None
    BY SyncAssumption DEF Running, Live, Status, Active
  <2>2. CASE e.sub = s
    BY <1>3, <2>2 DEF Followed
  <2>3. CASE e.sub # s /\ row.sub = s
    <3>1. worker[w].seen = "canceled"
      BY <1>1, <1>9, <2>1, <2>3 DEF PatientInv, OthersOver
    <3>2. ~KeepsOther(worker[w])
      BY <1>1 DEF SyncInv, ReadIsCurrent
    <3>3. row.status \notin Active
      BY <2>1, <2>3, <3>1, <3>2 DEF KeepsOther, Active
    <3>4. Due(s)
      BY <1>4, <2>1, <2>3, <3>3 DEF SyncInv, RowOrDue
    <3> QED
      BY <1>8, <2>1, <3>4 DEF Followed
  <2>4. CASE e.sub # s /\ row.sub # s
    <3>1. Due(s)
      BY <1>4, <1>9, <2>4 DEF Followed
    <3> QED
      BY <1>8, <2>1, <3>1 DEF Followed
  <2> QED
    BY <2>2, <2>3, <2>4
<1> QED
  BY <1>6, <1>7, <1>9 DEF PatientInv

LEMMA ClaimPatient ==
    ASSUME OneWorker, TypeOK, SyncInv, PatientInv, NEW w \in Workers, Claim(w)
    PROVE  PatientInv'
<1>1. /\ UNCHANGED <<customer, todo, row>> /\ stripe' = stripe
      /\ \A v \in Workers : ~Asks(v) /\ ~Asks(v)'
  BY ClaimStep DEF Asks, customer
<1>2. /\ SessionWaits' /\ EndIsFinal' /\ patient' = patient /\ Running' = Running
      /\ patient => OneLive'
  BY <1>1, JobEnds DEF TypeOK, PatientInv, EndIsFinal
<1>3. OthersOver'
  BY <1>1 DEF OthersOver
<1>4. ASSUME NEW s \in Subs, Followed(s) PROVE Followed(s)'
  BY <1>1, <1>4, ClaimDue DEF Followed
<1> QED
  BY <1>2, <1>3, <1>4 DEF PatientInv, Running

LEMMA ClaimedPatient ==
    ASSUME OneWorker, TypeOK, SyncInv, PatientInv, NEW w \in Workers, Claimed(w)
    PROVE  PatientInv'
<1>1. /\ Finish(w) /\ Go(w, Idle) /\ UNCHANGED <<customer, row>>
      /\ worker[w] # Idle /\ worker[w].at = "cancel"
  BY Shapes DEF Claimed, Finish
<1>2. \A v \in Workers : ~Asks(v) /\ ~Asks(v)'
  BY <1>1, EndedJob DEF Asks, Idle, OneWorker
<1>3. /\ SessionWaits' /\ EndIsFinal' /\ patient' = patient /\ Running' = Running
      /\ patient => OneLive'
  BY <1>1, FinishLess, JobEnds DEF PatientInv, EndIsFinal
<1>4. OthersOver'
  BY <1>2 DEF OthersOver
<1>5. ASSUME NEW s \in Subs, Followed(s) PROVE Followed(s)'
  <2>1. Due(s) => Due(s)'
    BY <1>1, DueAfterEnd DEF SyncInv
  <2> QED
    BY <1>1, <1>2, <1>5, <2>1 DEF Followed
<1> QED
  BY <1>3, <1>4, <1>5 DEF PatientInv, Running

LEMMA PatientInit ==
    ASSUME Init
    PROVE  PatientInv
<1>1. \A s \in Subs : EventOf("deleted", s) \in Event
  BY Events DEF Kind
<1>2. Gone \in Event
  BY Events
<1> QED
  BY <1>1, <1>2 DEF Init, NoSub, NoRequest, PatientInv, SessionWaits, EndIsFinal, OneLive, OthersOver,
     Running, Asks, Idle, Live, Status, Active

LEMMA PatientNext ==
    ASSUME OneWorker, TypeOK, SyncInv, PatientInv, [Next]_vars
    PROVE  PatientInv'
<1>1. CASE OutsideStep
  BY <1>1, OutsidePatient
<1>2. ASSUME NEW w \in Workers, JobStep(w) PROVE PatientInv'
  BY <1>2, ThrowPatient, DeletedPatient, RetrievePatient, ReadPatient, IgnorePatient,
     WritePatient, ClaimPatient, ClaimedPatient, OutsidePatient DEF JobStep, OutsideStep
<1>3. ASSUME NEW w \in Workers, NEW e \in Event, Take(w, e) PROVE PatientInv'
  BY <1>3, TakePatient
<1>4. CASE UNCHANGED vars
  <2>1. SessionWaits' /\ EndIsFinal' /\ (patient => OneLive' /\ OthersOver')
    BY <1>4 DEF vars, PatientInv, SessionWaits, EndIsFinal, OneLive, OthersOver,
       Asks, EventOf, Gone
  <2>2. \A s \in Subs : Due(s) => Due(s)'
    BY <1>4 DEF vars, Due, Holds, Claims, Asks, EventOf
  <2>3. ASSUME NEW s \in Subs, Followed(s) PROVE Followed(s)'
    BY <1>4, <2>2, <2>3 DEF vars, Followed, Asks
  <2> QED
    BY <1>4, <2>1, <2>3 DEF vars, PatientInv, Running
<1> QED
  BY <1>1, <1>2, <1>3, <1>4 DEF Next, OutsideStep, CheckOut

\* A customer who starts a subscription only while none runs has access, once every
\* event is handled, exactly when a subscription runs (syncSubscription and the
\* handlers of ends), for any number of subscriptions and of repeated events.
THEOREM AccessConverges ==
    ASSUME OneWorker
    PROVE  Spec => []Converges
<1>1. Init => TypeOK /\ SyncInv /\ PatientInv
  BY InitHolds, PatientInit
<1>2. TypeOK /\ SyncInv /\ PatientInv /\ [Next]_vars => (TypeOK /\ SyncInv /\ PatientInv)'
  BY StepKeeps, PatientNext
<1>3. ASSUME TypeOK, SyncInv, PatientInv, Quiet, patient
      PROVE  Premium <=> Running # {}
  <2>1. \A s \in Subs : ~Due(s)
    BY <1>3, Events DEF Due, Quiet
  <2>2. \A w \in Workers : ~Asks(w)
    BY <1>3 DEF Quiet, Asks, Idle
  <2>3. row.sub # None => row.sub \in Subs /\ row.status = stripe[row.sub]
    BY <1>3, <2>1, <2>2 DEF SyncInv, RowOrDue, TypeOK
  <2>4. ASSUME Premium PROVE Running # {}
    <3>1. row.sub # None
      BY <1>3, <2>4, NullAssumption DEF Premium, SyncInv, EmptyRow, Status
    <3> QED
      BY <2>3, <2>4, <3>1 DEF Premium, Running
  <2>5. ASSUME NEW s \in Running PROVE Premium
    <3>1. row.sub = s /\ s \in Subs /\ stripe[s] \in Active
      BY <1>3, <2>1, <2>2 DEF PatientInv, Followed, Running
    <3> QED
      BY <2>3, <3>1, SyncAssumption DEF Premium
  <2> QED
    BY <2>4, <2>5
<1>4. TypeOK /\ SyncInv /\ PatientInv => Converges
  BY <1>3 DEF Converges
<1> QED
  BY <1>1, <1>2, <1>4, PTL DEF Spec
=============================================================================
