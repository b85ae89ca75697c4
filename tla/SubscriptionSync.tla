-------------------------- MODULE SubscriptionSync --------------------------
(***************************************************************************)
(* The copy of one customer's subscription that the application keeps in   *)
(* its User row, and the webhook jobs that refresh it from Stripe          *)
(* (StripeSubscriptionService.syncSubscription and its callers in          *)
(* StripeWebhookService).  A job first asks Stripe for the subscription,   *)
(* then reads the row, then writes it: other jobs and Stripe move on       *)
(* between these steps.  Jobs run in any order, once or more.              *)
(*                                                                         *)
(* The plan is written together with the status, PREMIUM exactly when the  *)
(* status gives access, so it is not kept apart.                           *)
(***************************************************************************)
EXTENDS Integers, FiniteSets

CONSTANTS
    Subs,           \* subscriptions of the customer
    Founder,        \* those at the founder price
    Workers,        \* queue workers
    StripeFails,    \* may the requests to Stripe fail whose errors are swallowed?
    MaxEvents,      \* bound: events of one kind and subscription not handled yet
    MaxTouches,     \* bound: events that change no status
    None            \* SQL null

ASSUME SyncAssumption ==
    /\ Founder \subseteq Subs
    /\ StripeFails \in BOOLEAN
    /\ MaxEvents \in Nat \ {0}
    /\ MaxTouches \in Nat
    /\ None \notin Subs

VARIABLES
    stripe,         \* status of each subscription at Stripe
    request,        \* checkout request in progress for each subscription to be
    session,        \* subscriptions whose Checkout session is open
    todo,           \* events in the queue, with repetition
    row,            \* the User row: customer linked, subscription, status
    touches,        \* events that changed no status
    worker,         \* the job each worker runs
    patient         \* does the customer subscribe only while nothing runs?

vars == <<stripe, request, session, todo, row, touches, worker, patient>>
customer == <<stripe, request, session, touches, patient>>

\* "past_due" stands for every status without access that is not an end.
Active == {"active", "trialing"}           \* ACTIVE_STATUSES
Status == Active \cup {"past_due", "canceled"}

ASSUME NullAssumption == None \notin Status

\* "changed": subscription created or updated, checkout completed, invoice
\* paid.  "first": first invoice of a founder subscription.  "gone": the
\* customer was deleted at Stripe.
Kind  == {"changed", "first", "deleted"}
Gone  == [kind |-> "gone", sub |-> None]
Event == [kind : Kind, sub : Subs] \cup {Gone}

NoSub == [linked |-> TRUE, sub |-> None, status |-> None]
Idle  == [at |-> "idle"]
Task  == [at : {"start", "claim"}, e : Event]
         \cup [at : {"read", "write"}, e : Event, seen : Status]
         \cup [at : {"cancel"}, e : Event, left : SUBSET Subs]

\* `left`: the sessions, read as open, that are still to be expired.
NoRequest == [at |-> "none", left |-> {}]

Init ==
    /\ stripe = [s \in Subs |-> "none"]
    /\ request = [s \in Subs |-> NoRequest]
    /\ session = {}
    /\ todo = [e \in Event |-> 0]
    /\ row = NoSub
    /\ touches = 0
    /\ worker = [w \in Workers |-> Idle]
    /\ patient \in BOOLEAN

Premium == row.status \in Active
Running == {s \in Subs : stripe[s] \in Active}

-----------------------------------------------------------------------------
(* Stripe, and the customer in front of it.                                *)

Emit(events) ==
    /\ \A e \in events : todo[e] < MaxEvents
    /\ todo' = [e \in Event |-> IF e \in events THEN todo[e] + 1 ELSE todo[e]]

EventOf(kind, s) == [kind |-> kind, sub |-> s]

\* createCheckoutSession: nothing while a payment is pending, nothing on top of
\* a subscription, except the founder price on top of a trial at another price.
\* A subscription that cannot be read counts as none.
MayCheckOut(s) ==
    row.sub # None =>
       \/ stripe[row.sub] = "canceled"
       \/ stripe[row.sub] = "trialing" /\ s \in Founder /\ row.sub \notin Founder
       \/ StripeFails

\* A request looks at the row ...  (s is new to everyone: not in a list either.)
Check(s) ==
    /\ stripe[s] = "none" /\ s \notin session /\ request[s] = NoRequest
    /\ \A r \in Subs : s \notin request[r].left
    /\ MayCheckOut(s)
    /\ request' = [request EXCEPT ![s].at = "checked"]
    /\ UNCHANGED <<stripe, session, todo, row, touches, worker, patient>>

\* ... lists the open sessions (reuseOrExpireOpenSessions) ...
ListOpen(s) ==
    /\ request[s].at = "checked"
    /\ \E S \in {session} \cup (IF StripeFails THEN {{}} ELSE {}) :
          request' = [request EXCEPT ![s] = [at |-> "expiring", left |-> S]]
    /\ UNCHANGED <<stripe, session, todo, row, touches, worker, patient>>

\* ... expires each, unless it is paid by then or Stripe fails ...
Expire(s) ==
    /\ \E t \in request[s].left :
          /\ request' = [request EXCEPT ![s].left = @ \ {t}]
          /\ \/ session' = session \ {t}
             \/ StripeFails /\ UNCHANGED session
    /\ UNCHANGED <<stripe, todo, row, touches, worker, patient>>

\* ... and opens its own.  A request that fails goes no further.
OpenSession(s) ==
    /\ request[s] = [at |-> "expiring", left |-> {}]
    /\ row.linked /\ todo[Gone] = 0
    /\ request' = [request EXCEPT ![s] = NoRequest]
    /\ session' = session \cup {s}
    /\ UNCHANGED <<stripe, todo, row, touches, worker, patient>>

\* The customer pays, or starts a trial.
Subscribe(s) ==
    /\ s \in session
    /\ patient => \A t \in Subs : stripe[t] \in {"none", "canceled"}
    /\ session' = session \ {s}
    /\ \E status \in Active : stripe' = [stripe EXCEPT ![s] = status]
    /\ Emit({EventOf("changed", s)}
              \cup IF s \in Founder THEN {EventOf("first", s)} ELSE {})
    /\ UNCHANGED <<request, row, touches, worker, patient>>

\* End of a trial, failed renewal, payment of what was due.
Renew(s) ==
    /\ \/ stripe[s] = "trialing" /\ \E to \in {"active", "past_due"} :
                                       stripe' = [stripe EXCEPT ![s] = to]
       \/ stripe[s] = "active"   /\ stripe' = [stripe EXCEPT ![s] = "past_due"]
       \/ stripe[s] = "past_due" /\ stripe' = [stripe EXCEPT ![s] = "active"]
    /\ Emit({EventOf("changed", s)})
    /\ UNCHANGED <<request, session, row, touches, worker, patient>>

\* A change that leaves the status: end scheduled, interval, payment method.
Touch(s) ==
    /\ touches < MaxTouches
    /\ touches' = touches + 1
    /\ stripe[s] \in Status \ {"canceled"}
    /\ Emit({EventOf("changed", s)})
    /\ UNCHANGED <<stripe, request, session, row, worker, patient>>

Ended(S) == [s \in Subs |-> IF s \in S THEN "canceled" ELSE stripe[s]]

Ends(s) ==
    /\ stripe[s] \in Status \ {"canceled"}
    /\ stripe' = Ended({s})
    /\ Emit({EventOf("deleted", s)})

Cancel(s) == Ends(s) /\ UNCHANGED <<request, session, row, touches, worker, patient>>

\* Deleting the customer ends its subscriptions and its sessions.
DeleteCustomer ==
    LET running == {s \in Subs : stripe[s] \in Status \ {"canceled"}}
    IN  /\ row.linked
        /\ todo[Gone] = 0
        /\ stripe' = Ended(running)
        /\ Emit({Gone} \cup {EventOf("deleted", s) : s \in running})
        /\ session' = {}
        /\ UNCHANGED <<request, row, touches, worker, patient>>

-----------------------------------------------------------------------------
(* Jobs.                                                                   *)

Take(w, e) ==
    /\ worker[w] = Idle
    /\ todo[e] > Cardinality({v \in Workers : worker[v] # Idle /\ worker[v].e = e})
    /\ worker' = [worker EXCEPT ![w] = [at |-> "start", e |-> e]]
    /\ UNCHANGED <<customer, todo, row>>

Go(w, task) == worker' = [worker EXCEPT ![w] = task]

\* The job ends and leaves the queue.
Finish(w) ==
    /\ Go(w, Idle)
    /\ todo' = [todo EXCEPT ![worker[w].e] = @ - 1]

\* The handler throws, or its process dies: the job runs again.
Throw(w) ==
    /\ worker[w] # Idle
    /\ Go(w, Idle)
    /\ UNCHANGED <<customer, todo, row>>

\* Faulty: the row is cleared whatever it names; a status that is no status.
DeletedAny(w) ==
    /\ worker[w].at = "start"
    /\ worker[w].e.kind = "deleted"
    /\ row' = [row EXCEPT !.sub = None, !.status = None]
    /\ Finish(w)
    /\ UNCHANGED customer
DeletedNone(w) ==
    /\ worker[w].at = "start"
    /\ worker[w].e.kind = "deleted"
    /\ row' = IF row.sub = worker[w].e.sub
                THEN [row EXCEPT !.sub = None, !.status = "none"] ELSE row
    /\ Finish(w)
    /\ UNCHANGED customer

\* onSubscriptionDeleted: the row, if it names this subscription.
Deleted(w) ==
    /\ worker[w].at = "start"
    /\ worker[w].e.kind = "deleted"
    /\ row' = IF row.sub = worker[w].e.sub
                THEN [row EXCEPT !.sub = None, !.status = None] ELSE row
    /\ Finish(w)
    /\ UNCHANGED customer

\* onCustomerDeleted.
CustomerDeleted(w) ==
    /\ worker[w].at = "start"
    /\ worker[w].e = Gone
    /\ row' = [NoSub EXCEPT !.linked = FALSE]
    /\ Finish(w)
    /\ UNCHANGED customer

\* syncSubscription: subscriptions.retrieve ...
Retrieve(w) ==
    /\ worker[w].at = "start"
    /\ worker[w].e.kind \in {"changed", "first"}
    /\ Go(w, [at |-> "read", e |-> worker[w].e, seen |-> stripe[worker[w].e.sub]])
    /\ UNCHANGED <<customer, todo, row>>

\* Faulty: an inactive status never replaces an active one, or always does.
KeepsActive(task)  == task.seen \notin Active /\ row.status \in Active
KeepsNothing(task) == FALSE

\* ... then user.findUnique.  The event of an inactive subscription is ignored
\* while the row holds an active one of another id.
KeepsOther(task) ==
    /\ task.seen \notin Active
    /\ row.sub \notin {None, task.e.sub}
    /\ row.status \in Active

Read(w) ==
    /\ worker[w].at = "read"
    /\ row.linked
    /\ ~KeepsOther(worker[w])
    /\ Go(w, [worker[w] EXCEPT !.at = "write"])
    /\ UNCHANGED <<customer, todo, row>>

Ignore(w) ==
    /\ worker[w].at = "read"
    /\ ~row.linked \/ KeepsOther(worker[w])
    /\ Finish(w)
    /\ UNCHANGED <<customer, row>>

\* ... then user.update by id.  A founder's first invoice goes on, unless the
\* subscription has ended.
Write(w) ==
    /\ worker[w].at = "write"
    /\ row' = [row EXCEPT !.sub = worker[w].e.sub, !.status = worker[w].seen]
    /\ IF worker[w].e.kind = "first" /\ worker[w].seen # "canceled"
         THEN Go(w, [at |-> "claim", e |-> worker[w].e]) /\ UNCHANGED todo
         ELSE Finish(w)
    /\ UNCHANGED customer

\* onFounderFirstPayment: with a seat, the trials of the customer are listed to
\* be cancelled; without one, the founder subscription is.
Replaced(s) == {t \in Subs \ {s} : stripe[t] = "trialing"}

Claim(w) ==
    /\ worker[w].at = "claim"
    /\ LET s == worker[w].e.sub
       IN  \E S \in {Replaced(s), {s}} \cup (IF StripeFails THEN {{}} ELSE {}) :
              Go(w, [at |-> "cancel", e |-> worker[w].e, left |-> S])
    /\ UNCHANGED <<customer, todo, row>>

\* subscriptions.cancel, one after the other, whatever became of them since.
CancelOne(w) ==
    /\ worker[w].at = "cancel"
    /\ \E t \in worker[w].left :
          /\ Go(w, [worker[w] EXCEPT !.left = @ \ {t}])
          /\ \/ Ends(t)
             \/ (stripe[t] = "canceled" \/ StripeFails) /\ UNCHANGED <<stripe, todo>>
    /\ UNCHANGED <<request, session, row, touches, patient>>

Claimed(w) ==
    /\ worker[w].at = "cancel" /\ worker[w].left = {}
    /\ Finish(w)
    /\ UNCHANGED <<customer, row>>

JobStep(w) ==
    \/ Throw(w) \/ Deleted(w) \/ CustomerDeleted(w)
    \/ Retrieve(w) \/ Read(w) \/ Ignore(w) \/ Write(w)
    \/ Claim(w) \/ CancelOne(w) \/ Claimed(w)

Next ==
    \/ \E s \in Subs :
          \/ Check(s) \/ ListOpen(s) \/ Expire(s) \/ OpenSession(s)
          \/ Subscribe(s) \/ Renew(s) \/ Touch(s) \/ Cancel(s)
    \/ DeleteCustomer
    \/ \E w \in Workers : JobStep(w) \/ \E e \in Event : Take(w, e)

Spec == Init /\ [][Next]_vars

-----------------------------------------------------------------------------
(* Properties.                                                             *)

TypeOK ==
    /\ stripe \in [Subs -> Status \cup {"none"}]
    /\ request \in [Subs -> [at : {"none", "checked", "expiring"}, left : SUBSET Subs]]
    /\ session \subseteq Subs
    /\ todo \in [Event -> 0 .. MaxEvents]
    /\ row \in [linked : BOOLEAN, sub : Subs \cup {None}, status : Status \cup {None}]
    /\ touches \in 0 .. MaxTouches
    /\ worker \in [Workers -> Task \cup {Idle}]
    /\ patient \in BOOLEAN

\* Every event has been handled.
Quiet == (\A e \in Event : todo[e] = 0) /\ (\A w \in Workers : worker[w] = Idle)

\* Once every event is handled, the row says of its subscription what Stripe
\* says: nobody keeps the access of a subscription that has ended.
RowIsCurrent == Quiet /\ row.sub # None => row.status = stripe[row.sub]

\* A customer who starts a subscription only while none runs then has access
\* exactly when a subscription is running.
Converges == Quiet /\ patient => (Premium <=> Running # {})

\* "Un abonnement INACTIF ne remplace jamais l'abonnement ACTIF d'un autre id."
InactiveNeverReplaces ==
    [][Premium /\ row'.sub \notin {row.sub, None} => row'.status \in Active]_vars

\* The founder price replaces a trial: "bascule, jamais deux abonnements".
NeverTwo == Quiet => Cardinality(Running) <= 1
=============================================================================
