---------------------------- MODULE FounderTables ----------------------------
(***************************************************************************)
(* The database tables of the founder offer (founder-offer.service.ts) and *)
(* the transactions that read and write them: 200 seats at a price kept    *)
(* for life, sold one at a time through Stripe Checkout.                   *)
(*                                                                         *)
(* A checkout attempt, the reservation row it creates, the Stripe session  *)
(* attached to that row and the subscription the session ends in are one   *)
(* identity here: each is created at most once per attempt.                *)
(*                                                                         *)
(* This module has no process and no clock.  FounderSeats runs these       *)
(* transactions from concurrent requests.                                  *)
(***************************************************************************)
EXTENDS Integers, FiniteSets, FiniteSetsExt

CONSTANTS
    Users,          \* accounts
    Checkouts,      \* checkout attempts: reservation, session, subscription
    CustomerOf,     \* the account that starts each checkout attempt
    Seats,          \* FOUNDER_OFFER.seats (200)
    Milestones,     \* FOUNDER_MILESTONES, in numbers of seats
    Ttl,            \* RESERVATION_TTL_MS, in ticks
    MaxNumber,      \* bound: the seat numbers a run may hand out
    None            \* SQL null

ASSUME FounderAssumption ==
    /\ IsFiniteSet(Users)
    /\ IsFiniteSet(Checkouts)
    /\ CustomerOf \in [Checkouts -> Users]
    /\ Seats \in Nat \ {0}
    /\ Milestones \subseteq Nat
    /\ Ttl \in Nat \ {0}
    /\ MaxNumber \in Nat
    /\ None \notin Users
    /\ None \notin Checkouts

VARIABLES
    seat,           \* FounderSeat rows, by number
    expiresAt,      \* FOUNDER rows of CheckoutReservation: expiry, 0 = no row
    notified,       \* FounderOfferConfig.notifiedMilestones
    closed          \* accounts deleted by their owner

tables == <<seat, expiresAt, notified, closed>>

Numbers == 1 .. MaxNumber

\* "NONE" is a number never handed out: a row is never deleted afterwards.
SeatStatus == {"NONE", "ACTIVE", "LOST", "REFUNDED", "RELEASED"}

SeatRow == [status : SeatStatus,
            user   : Users \cup {None},
            sub    : Checkouts \cup {None},
            paid   : BOOLEAN]

NoSeat == [status |-> "NONE", user |-> None, sub |-> None, paid |-> FALSE]

TablesInit ==
    /\ seat = [n \in Numbers |-> NoSeat]
    /\ expiresAt = [c \in Checkouts |-> 0]
    /\ notified = {}
    /\ closed = {}

-----------------------------------------------------------------------------
(* What the queries count.                                                 *)

Issued  == {n \in Numbers : seat[n].status # "NONE"}
Active  == {n \in Numbers : seat[n].status = "ACTIVE"}
\* TAKEN_STATUSES: a seat whose subscription ended stays taken, a refunded or
\* released one is back on sale.
Taken   == {n \in Numbers : seat[n].status \in {"ACTIVE", "LOST"}}

Reservations      == {c \in Checkouts : expiresAt[c] # 0}
ReservationsOf(u) == {c \in Reservations : CustomerOf[c] = u}
Live(at)          == {c \in Reservations : expiresAt[c] > at}

\* seatsTaken(tx, now).
SeatsTaken(at) == Cardinality(Taken) + Cardinality(Live(at))

HasSeat(u) == \E n \in Numbers : seat[n].user = u

\* deleteMany where userId: the table without the reservations of `u'.
WithoutReservationsOf(u) ==
    [c \in Checkouts |-> IF CustomerOf[c] = u THEN 0 ELSE expiresAt[c]]

\* Faulty: a number per seat taken, or past the places reserved.
NumberByCount     == Cardinality(Taken) + 1
NumberPastReserved == Cardinality(Taken) + Cardinality(Reservations) + 1

NextNumber == Max(Issued \cup {0}) + 1

-----------------------------------------------------------------------------
(* Transactions under the advisory lock.  `at' is the date the caller read *)
(* before asking for the lock.                                             *)

\* Faulty: one reservation too many.
RoomForOneMore(c, at) ==
    Cardinality(Taken) + Cardinality(Live(at) \ ReservationsOf(CustomerOf[c])) <= Seats

\* reserve(): the account's own rows are deleted first, so they do not count.
RoomToReserve(c, at) ==
    Cardinality(Taken) + Cardinality(Live(at) \ ReservationsOf(CustomerOf[c])) < Seats

Reserve(c, at) ==
    /\ RoomToReserve(c, at)
    /\ CustomerOf[c] \notin closed
    /\ expiresAt' = [WithoutReservationsOf(CustomerOf[c]) EXCEPT ![c] = at + Ttl]
    /\ UNCHANGED <<seat, notified, closed>>

\* Faulty: an account may claim again; reservations of others do not count.
MayClaimAgain(c, at) ==
    /\ CustomerOf[c] \notin closed
    /\ SeatsTaken(at) < Seats
MayClaimReserved(c, at) ==
    /\ CustomerOf[c] \notin closed
    /\ ~HasSeat(CustomerOf[c])
    /\ Cardinality(Taken) < Seats

\* claimSeat() may take a seat: no row for this account yet, and either its
\* own reservation still runs or a seat is free without one.
MayClaim(c, at) ==
    /\ CustomerOf[c] \notin closed
    /\ ~HasSeat(CustomerOf[c])
    /\ \/ Live(at) \cap ReservationsOf(CustomerOf[c]) # {}
       \/ SeatsTaken(at) < Seats

\* Faulty: the row names the checkout as its account; the reservations stay.
ClaimSeatOf(c, at) ==
    /\ MayClaim(c, at)
    /\ NextNumber \in Numbers
    /\ seat' = [seat EXCEPT ![NextNumber] =
                  [status |-> "ACTIVE", user |-> c, sub |-> c, paid |-> FALSE]]
    /\ UNCHANGED <<expiresAt, notified, closed>>
ClaimSeatAndHold(c, at) ==
    /\ MayClaim(c, at)
    /\ NextNumber \in Numbers
    /\ seat' = [seat EXCEPT ![NextNumber] =
                  [status |-> "ACTIVE", user |-> CustomerOf[c], sub |-> c, paid |-> FALSE]]
    /\ UNCHANGED <<expiresAt, notified, closed>>

ClaimSeat(c, at) ==
    /\ MayClaim(c, at)
    /\ NextNumber \in Numbers
    /\ seat' = [seat EXCEPT ![NextNumber] =
                  [status |-> "ACTIVE", user |-> CustomerOf[c],
                   sub |-> c, paid |-> FALSE]]
    /\ expiresAt' = WithoutReservationsOf(CustomerOf[c])
    /\ notified' = notified \cup {m \in Milestones : Cardinality(Taken') >= m}
    /\ UNCHANGED closed

-----------------------------------------------------------------------------
(* Statements outside the lock, each atomic on its own.                    *)

ReleaseReservation(c) ==
    /\ c \in Reservations
    /\ expiresAt' = [expiresAt EXCEPT ![c] = 0]
    /\ UNCHANGED <<seat, notified, closed>>

\* updateMany where userId, ACTIVE and firstPaidAt null.
MarkFirstPaid(u) ==
    \E n \in Active :
        /\ seat[n].user = u
        /\ ~seat[n].paid
        /\ seat' = [seat EXCEPT ![n].paid = TRUE]
        /\ UNCHANGED <<expiresAt, notified, closed>>

\* Faulty: seats already paid, or already ended, are found too.
PaidOrNotSeats(c)   == {n \in Active : seat[n].sub = c}
SeatsOfAnyStatus(c) == {n \in Issued : seat[n].sub = c}

\* The rows each two-step operation may find ...
UnpaidSeats(c) == {n \in Active : seat[n].sub = c /\ ~seat[n].paid}
ActiveSeats(c) == {n \in Active : seat[n].sub = c}
SeatsOf(u)     == {n \in Active : seat[n].user = u}

\* ... and the update it then makes by number, whatever the row has become.
WriteReleased(n) ==
    /\ seat' = [seat EXCEPT ![n].status = "RELEASED", ![n].user = None]
    /\ UNCHANGED <<expiresAt, notified, closed>>

WriteLost(n) ==
    /\ seat' = [seat EXCEPT ![n].status = "LOST"]
    /\ UNCHANGED <<expiresAt, notified, closed>>

WriteRefunded(n) ==
    /\ seat' = [seat EXCEPT ![n].status = "REFUNDED"]
    /\ UNCHANGED <<expiresAt, notified, closed>>

\* Deleting an account sets FounderSeat.userId to null and cascades to its
\* reservations (schema.prisma).
CloseAccount(u) ==
    /\ u \notin closed
    /\ closed' = closed \cup {u}
    /\ seat' = [n \in Numbers |->
                  IF seat[n].user = u THEN [seat[n] EXCEPT !.user = None]
                                      ELSE seat[n]]
    /\ expiresAt' = WithoutReservationsOf(u)
    /\ UNCHANGED notified
=============================================================================
