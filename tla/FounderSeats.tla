---------------------------- MODULE FounderSeats ----------------------------
(***************************************************************************)
(* FounderOfferService under concurrent callers.  Checkout requests and    *)
(* webhook jobs run in several node processes, each in one call at a time. *)
(*                                                                         *)
(* A call is split where another call can get in between:                  *)
(*  - reserve and claimSeat read the date, then wait for the advisory      *)
(*    lock, then run their transaction;                                    *)
(*  - releaseUnpaid, markLost and refundFirstPayment read a row, then      *)
(*    update it by number in a second statement, outside the lock.         *)
(***************************************************************************)
EXTENDS FounderTables

CONSTANTS
    Web,            \* processes that serve checkout requests
    Workers,        \* processes that run webhook jobs, one at a time each
    LockWait,       \* may the clock tick while a call waits for the lock?
    UnpaidStatus,   \* Stripe account setting: failed dunning leaves "unpaid"
    MaxTime,        \* bound: the clock stops there
    MaxClosed       \* bound: accounts that may be deleted

ASSUME ProcsAssumption ==
    /\ LockWait \in BOOLEAN
    /\ UnpaidStatus \in BOOLEAN
    /\ MaxTime \in Nat
    /\ MaxClosed \in Nat

\* APP_ROLE "web" and "worker" keep them apart; in role "all" they are the same.
Procs == Web \cup Workers

VARIABLES
    now,            \* the clock
    granted,        \* checkouts whose reserve() succeeded: a session exists
    pc              \* the call each Proc is in

vars == <<seat, expiresAt, notified, closed,
          now, granted, pc>>

Waiting == {"reserve", "claim"}            \* date read, lock not yet held
Writing == {"release", "lost", "refund"}   \* row read, update not yet made

Call == [op : {"reserve"}, c : Checkouts, at : 0 .. MaxTime]
          \cup [op : {"claim"}, c : Checkouts, at : 0 .. MaxTime, ended : BOOLEAN]
          \cup [op : {"end"}, c : Checkouts]       \* about to call markLost
          \cup [op : Writing, n : Numbers]
Idle == [op |-> "idle"]

Init ==
    /\ TablesInit
    /\ now = 0
    /\ granted = {}
    /\ pc = [p \in Procs |-> Idle]

-----------------------------------------------------------------------------
(* Checkout: eligibility() then reserve().                                 *)

\* eligibility() refuses an account that has, or had, a seat. The open
\* sessions of the account are expired before; reserve() deletes their
\* reservations anyway.
CallReserve(p, c) ==
    /\ pc[p] = Idle
    /\ c \notin granted
    /\ \A q \in Procs : pc[q].op = "reserve" => pc[q].c # c
    /\ CustomerOf[c] \notin closed
    /\ ~HasSeat(CustomerOf[c])
    /\ pc' = [pc EXCEPT ![p] = [op |-> "reserve", c |-> c, at |-> now]]
    /\ UNCHANGED <<tables, now, granted>>

ReserveGranted(p) ==
    /\ pc[p].op = "reserve"
    /\ Reserve(pc[p].c, pc[p].at)
    /\ granted' = granted \cup {pc[p].c}
    /\ pc' = [pc EXCEPT ![p] = Idle]
    /\ UNCHANGED now

\* 409, or a foreign key error: the transaction is rolled back.
ReserveRefused(p) ==
    /\ pc[p].op = "reserve"
    /\ ~RoomToReserve(pc[p].c, pc[p].at) \/ CustomerOf[pc[p].c] \in closed
    /\ pc' = [pc EXCEPT ![p] = Idle]
    /\ UNCHANGED <<tables, now, granted>>

\* The session expired, was replaced, or could not be created.
ExpireSession(c) ==
    /\ ReleaseReservation(c)
    /\ UNCHANGED <<now, granted, pc>>

-----------------------------------------------------------------------------
(* onFounderFirstPayment(): first invoice of a founder subscription.  A    *)
(* job is retried and an event may come late, so any granted checkout may  *)
(* claim, and claim again.  `ended' is what syncSubscription() read from   *)
(* Stripe, perhaps a while ago: a paid subscription that has ended takes   *)
(* its seat, then loses it.                                                *)

CallClaim(p, c, ended) ==
    /\ pc[p] = Idle
    /\ c \in granted
    /\ CustomerOf[c] \notin closed
    /\ pc' = [pc EXCEPT ![p] =
                [op |-> "claim", c |-> c, at |-> now, ended |-> ended]]
    /\ UNCHANGED <<tables, now, granted>>

AfterClaim(p) ==
    pc' = [pc EXCEPT ![p] =
             IF pc[p].ended THEN [op |-> "end", c |-> pc[p].c] ELSE Idle]

ClaimTaken(p) ==
    /\ pc[p].op = "claim"
    /\ ClaimSeat(pc[p].c, pc[p].at)
    /\ AfterClaim(p)
    /\ UNCHANGED <<now, granted>>

\* A job run again: the account's seat is returned as it is.
ClaimExisting(p) ==
    /\ pc[p].op = "claim"
    /\ HasSeat(CustomerOf[pc[p].c])
    /\ AfterClaim(p)
    /\ UNCHANGED <<tables, now, granted>>

\* No seat is left (null), or the account is gone: nothing is written.
ClaimRefused(p) ==
    /\ pc[p].op = "claim"
    /\ ~HasSeat(CustomerOf[pc[p].c])
    /\ ~MayClaim(pc[p].c, pc[p].at)
    /\ pc' = [pc EXCEPT ![p] = Idle]
    /\ UNCHANGED <<tables, now, granted>>

\* An invoice above 0 EUR: the first one goes on here after the claim, later ones
\* come here only.
FirstPaid(p, c) ==
    /\ pc[p] = Idle
    /\ c \in granted
    /\ MarkFirstPaid(CustomerOf[c])
    /\ UNCHANGED <<now, granted, pc>>

-----------------------------------------------------------------------------
(* End of a subscription.  Each write is a findFirst, then an update by    *)
(* number.                                                                 *)

Proceed(p, call) ==
    /\ pc' = [pc EXCEPT ![p] = call]
    /\ UNCHANGED <<tables, now, granted>>

\* onSubscriptionChanged(), status "unpaid": releaseUnpaid().
CallUnpaid(p, c) ==
    /\ UnpaidStatus
    /\ pc[p] = Idle
    /\ \E n \in UnpaidSeats(c) : Proceed(p, [op |-> "release", n |-> n])

\* onSubscriptionDeleted(): releaseUnpaid(), and markLost() if it found nothing.
CallDeleted(p, c) ==
    /\ pc[p] = Idle
    /\ c \in granted
    /\ \/ \E n \in UnpaidSeats(c) : Proceed(p, [op |-> "release", n |-> n])
       \/ /\ UnpaidSeats(c) = {}
          /\ Proceed(p, [op |-> "end", c |-> c])

ReadLost(p) ==
    /\ pc[p].op = "end"
    /\ \/ \E n \in ActiveSeats(pc[p].c) : Proceed(p, [op |-> "lost", n |-> n])
       \/ /\ ActiveSeats(pc[p].c) = {}
          /\ Proceed(p, Idle)

\* onChargeRefunded(): refundFirstPayment().
CallRefund(p, u) ==
    /\ pc[p] = Idle
    /\ \E n \in SeatsOf(u) : Proceed(p, [op |-> "refund", n |-> n])

WriteSeat(p) ==
    /\ \/ pc[p].op = "release" /\ WriteReleased(pc[p].n)
       \/ pc[p].op = "lost"    /\ WriteLost(pc[p].n)
       \/ pc[p].op = "refund"  /\ WriteRefunded(pc[p].n)
    /\ pc' = [pc EXCEPT ![p] = Idle]
    /\ UNCHANGED <<now, granted>>

-----------------------------------------------------------------------------
(* Surroundings.                                                           *)

\* The process dies, or the database refuses: what is not written stays so.
Fail(p) ==
    /\ pc[p] # Idle
    /\ pc' = [pc EXCEPT ![p] = Idle]
    /\ UNCHANGED <<tables, now, granted>>

DeleteAccount(u) ==
    /\ Cardinality(closed) < MaxClosed
    /\ CloseAccount(u)
    /\ UNCHANGED <<now, granted, pc>>

Tick ==
    /\ now < MaxTime
    /\ LockWait \/ \A p \in Procs : pc[p].op \notin Waiting
    /\ now' = now + 1
    /\ UNCHANGED <<tables, granted, pc>>

ProcStep(p) ==
    \/ ReserveGranted(p) \/ ReserveRefused(p)
    \/ ClaimTaken(p) \/ ClaimExisting(p) \/ ClaimRefused(p)
    \/ ReadLost(p) \/ WriteSeat(p) \/ Fail(p)

ProcCall(p) ==
    \/ p \in Web /\ \E c \in Checkouts : CallReserve(p, c)
    \/ p \in Workers /\ \E c \in Checkouts :
          \/ \E ended \in BOOLEAN : CallClaim(p, c, ended)
          \/ FirstPaid(p, c)
          \/ CallUnpaid(p, c) \/ CallDeleted(p, c)
    \/ p \in Workers /\ \E u \in Users : CallRefund(p, u)

Next ==
    \/ \E p \in Procs : ProcCall(p) \/ ProcStep(p)
    \/ \E c \in Checkouts : ExpireSession(c)
    \/ \E u \in Users : DeleteAccount(u)
    \/ Tick

Spec == Init /\ [][Next]_vars

-----------------------------------------------------------------------------
(* Properties.                                                             *)

\* Types of the tables and of the calls in progress.
TypeOK ==
    /\ seat \in [Numbers -> SeatRow]
    /\ Reservations \subseteq granted
    /\ expiresAt \in [Checkouts -> 0 .. MaxTime + Ttl]
    /\ notified \subseteq Milestones
    /\ closed \subseteq Users
    /\ now \in 0 .. MaxTime
    /\ granted \subseteq Checkouts
    /\ pc \in [Procs -> Call \cup {Idle}]

\* "Anti-survente": seats taken plus reservations still running never exceed
\* the 200 on sale.
NoOversell == SeatsTaken(now) <= Seats

\* Weaker, and what the founder price promises: subscriptions running at the
\* founder price, plus checkouts that may still end in one, fit in the offer.
ActiveWithinOffer ==
    Cardinality(Active) + Cardinality(Live(now)) <= Seats

\* The service implements the ledger: the numbers of ACTIVE rows, the
\* reservations still running, and the largest number are its three variables.
Ledger == INSTANCE SeatLedger
    WITH active <- Active, held <- Live(now), issued <- NextNumber - 1
ImplementsLedger == Ledger!Spec

\* Two webhooks or two checkouts of one account never leave it two seats or two
\* reservations.
OnePerAccount ==
    /\ \A m, n \in Numbers :
          seat[m].user = seat[n].user /\ seat[m].user # None => m = n
    /\ \A c, d \in Reservations : CustomerOf[c] = CustomerOf[d] => c = d

\* Numbers are handed out 1, 2, 3, ... without a hole and never twice: a number
\* stays with its subscription, and with its account or with nobody.
NumbersDense == \E k \in 0 .. MaxNumber : Issued = 1 .. k
NumbersNeverReused ==
    [][\A n \in Issued :
          /\ n \in Issued'
          /\ seat'[n].sub = seat[n].sub
          /\ seat'[n].user \in {seat[n].user, None}]_vars

\* A seat that was refunded, lost or released keeps that status: a place given
\* back is never taken again by a late end of subscription.
EndedIsFinal ==
    [][\A n \in Issued \ Active : seat'[n].status = seat[n].status]_vars

\* releaseUnpaid never gives back a seat whose first payment is recorded.
PaidNeverReleased ==
    [][\A n \in Active : seat[n].paid => seat'[n].status # "RELEASED"]_vars
=============================================================================
