------------------------- MODULE FounderSeatsProofs -------------------------
(* Theorems about FounderSeats, for every set of accounts, checkouts and   *)
(* calls, every size of the offer and every duration of a reservation.     *)
EXTENDS FounderSeats, FiniteSetTheorems, TLAPS

-----------------------------------------------------------------------------
(* Type correctness.                                                       *)

\* A call that read a row before updating it holds the number of a row that
\* exists, and rows are never deleted.
WritesIssued ==
    \A p \in Procs : pc[p].op \in Writing => pc[p].n \in Issued

LEMMA InitType == Init => TypeOK
BY FounderAssumption, ProcsAssumption
   DEF Init, TablesInit, TypeOK, SeatRow, SeatStatus, NoSeat, Call, Idle, Reservations

LEMMA ReserveType ==
    ASSUME TypeOK, NEW p \in Procs, ReserveGranted(p)
    PROVE  TypeOK'
<1> DEFINE c == pc[p].c
           at == pc[p].at
<1>1. pc[p] \in [op : {"reserve"}, c : Checkouts, at : 0 .. MaxTime]
  BY DEF TypeOK, ReserveGranted, Call, Idle, Writing
<1>2. c \in Checkouts /\ at \in 0 .. MaxTime /\ at + Ttl \in 0 .. MaxTime + Ttl
  BY <1>1, FounderAssumption, ProcsAssumption
<1>3. expiresAt' = [WithoutReservationsOf(CustomerOf[c]) EXCEPT ![c] = at + Ttl]
  BY DEF ReserveGranted, Reserve
<1>4. expiresAt' \in [Checkouts -> 0 .. MaxTime + Ttl]
  BY <1>2, <1>3, FounderAssumption, ProcsAssumption DEF TypeOK, WithoutReservationsOf
<1>5. Reservations' \subseteq Reservations \cup {c}
  BY <1>2, <1>3, FounderAssumption DEF Reservations, WithoutReservationsOf, TypeOK
<1>6. granted' = granted \cup {c} /\ granted' \subseteq Checkouts
  BY <1>2 DEF ReserveGranted, TypeOK
<1>7. pc' \in [Procs -> Call \cup {Idle}]
  BY DEF ReserveGranted, TypeOK
<1>8. UNCHANGED <<seat, notified, closed, now>>
  BY DEF ReserveGranted, Reserve
<1> QED
  BY <1>4, <1>5, <1>6, <1>7, <1>8 DEF TypeOK, SeatRow, Numbers

LEMMA ClaimType ==
    ASSUME TypeOK, NEW p \in Procs, ClaimTaken(p)
    PROVE  TypeOK'
<1> DEFINE c == pc[p].c
<1>1. pc[p] \in [op : {"claim"}, c : Checkouts, at : 0 .. MaxTime, ended : BOOLEAN]
  BY DEF TypeOK, ClaimTaken, Call, Idle, Writing
<1>2. c \in Checkouts /\ CustomerOf[c] \in Users /\ NextNumber \in Numbers
  BY <1>1, FounderAssumption DEF ClaimTaken, ClaimSeat
<1>3. seat' \in [Numbers -> SeatRow]
  BY <1>2 DEF ClaimTaken, ClaimSeat, TypeOK, SeatRow, SeatStatus
<1>4. expiresAt' = WithoutReservationsOf(CustomerOf[c])
  BY DEF ClaimTaken, ClaimSeat
<1>5. expiresAt' \in [Checkouts -> 0 .. MaxTime + Ttl] /\ Reservations' \subseteq Reservations
  BY <1>4, FounderAssumption, ProcsAssumption DEF TypeOK, WithoutReservationsOf, Reservations
<1>6. notified' \subseteq Milestones
  BY DEF ClaimTaken, ClaimSeat, TypeOK
<1>7. pc' \in [Procs -> Call \cup {Idle}]
  BY <1>1, <1>2 DEF ClaimTaken, AfterClaim, TypeOK, Call
<1>8. UNCHANGED <<closed, now, granted>>
  BY DEF ClaimTaken, ClaimSeat
<1> QED
  BY <1>3, <1>5, <1>6, <1>7, <1>8 DEF TypeOK

\* Steps that only move a call forward.
LEMMA CallOnlyType ==
    ASSUME TypeOK, NEW p \in Procs, NEW call \in Call \cup {Idle},
           pc' = [pc EXCEPT ![p] = call], UNCHANGED <<tables, now, granted>>
    PROVE  TypeOK'
<1>1. pc' \in [Procs -> Call \cup {Idle}]
  BY DEF TypeOK
<1> QED
  BY <1>1 DEF TypeOK, tables, Reservations

LEMMA WriteType ==
    ASSUME TypeOK, WritesIssued, NEW p \in Procs, WriteSeat(p)
    PROVE  TypeOK'
<1>1. pc[p].op \in Writing /\ pc[p].n \in Numbers
  BY DEF WritesIssued, WriteSeat, Writing, Issued
<1>2. seat' \in [Numbers -> SeatRow]
  BY <1>1 DEF WriteSeat, WriteReleased, WriteLost, WriteRefunded, TypeOK, SeatRow, SeatStatus
<1>3. pc' \in [Procs -> Call \cup {Idle}]
  BY DEF WriteSeat, TypeOK
<1>4. UNCHANGED <<expiresAt, notified, closed, now, granted>>
  BY DEF WriteSeat, WriteReleased, WriteLost, WriteRefunded
<1> QED
  BY <1>2, <1>3, <1>4 DEF TypeOK, Reservations

LEMMA CloseType ==
    ASSUME TypeOK, NEW u \in Users, DeleteAccount(u)
    PROVE  TypeOK'
<1>1. seat' \in [Numbers -> SeatRow]
  BY DEF DeleteAccount, CloseAccount, TypeOK, SeatRow
<1>2. expiresAt' = WithoutReservationsOf(u)
  BY DEF DeleteAccount, CloseAccount
<1>3. expiresAt' \in [Checkouts -> 0 .. MaxTime + Ttl] /\ Reservations' \subseteq Reservations
  BY <1>2, FounderAssumption, ProcsAssumption DEF TypeOK, WithoutReservationsOf, Reservations
<1>4. closed' \subseteq Users /\ UNCHANGED <<notified, now, granted, pc>>
  BY DEF DeleteAccount, CloseAccount, TypeOK
<1> QED
  BY <1>1, <1>3, <1>4 DEF TypeOK

LEMMA ExpireType ==
    ASSUME TypeOK, NEW c \in Checkouts, ExpireSession(c)
    PROVE  TypeOK'
<1>1. expiresAt' = [expiresAt EXCEPT ![c] = 0]
  BY DEF ExpireSession, ReleaseReservation
<1>2. expiresAt' \in [Checkouts -> 0 .. MaxTime + Ttl] /\ Reservations' \subseteq Reservations
  BY <1>1, FounderAssumption, ProcsAssumption DEF TypeOK, Reservations
<1> QED
  BY <1>2 DEF ExpireSession, ReleaseReservation, TypeOK

\* A call in progress that only moves on, and what it moves to.
CallStep(p) ==
    \E call \in Call \cup {Idle} :
        /\ pc' = [pc EXCEPT ![p] = call]
        /\ UNCHANGED <<tables, now, granted>>
        /\ call.op \in Writing => call.n \in Issued
        /\ call.op \in Waiting => call.at = now

LEMMA CallSteps ==
    ASSUME TypeOK, NEW p \in Procs,
           \/ ReserveRefused(p) \/ ClaimExisting(p) \/ ClaimRefused(p)
           \/ ReadLost(p) \/ Fail(p)
           \/ \E c \in Checkouts :
                 \/ CallReserve(p, c)
                 \/ \E ended \in BOOLEAN : CallClaim(p, c, ended)
                 \/ CallUnpaid(p, c) \/ CallDeleted(p, c)
           \/ \E u \in Users : CallRefund(p, u)
    PROVE  CallStep(p)
<1> USE DEF CallStep
<1>1. Idle \in Call \cup {Idle} /\ Idle.op \notin Writing /\ Idle.op \notin Waiting
  BY DEF Idle, Writing, Waiting
<1>2. now \in 0 .. MaxTime
  BY DEF TypeOK
<1>3. ASSUME NEW op \in Writing, NEW n \in Active
      PROVE  /\ [op |-> op, n |-> n] \in Call
             /\ [op |-> op, n |-> n].op \notin Waiting
             /\ n \in Issued
  BY DEF Call, Active, Issued, Writing, Waiting
<1>4. ASSUME NEW c \in Checkouts
      PROVE  /\ [op |-> "end", c |-> c] \in Call
             /\ [op |-> "end", c |-> c].op \notin Writing \cup Waiting
  BY DEF Call, Writing, Waiting
<1>5. CASE ReserveRefused(p) \/ ClaimRefused(p) \/ Fail(p)
  BY <1>1, <1>5 DEF ReserveRefused, ClaimRefused, Fail
<1>6. CASE ClaimExisting(p)
  <2>1. pc[p].c \in Checkouts
    BY <1>6 DEF ClaimExisting, TypeOK, Call, Idle, Writing
  <2> QED
    BY <1>6, <1>1, <1>4, <2>1 DEF ClaimExisting, AfterClaim
<1>7. CASE ReadLost(p)
  <2>1. \A n \in ActiveSeats(pc[p].c) : n \in Active
    BY DEF ActiveSeats
  <2> QED
    BY <1>7, <1>1, <1>3, <2>1 DEF ReadLost, Proceed, Writing
<1>8. ASSUME NEW c \in Checkouts, CallReserve(p, c)
      PROVE  CallStep(p)
  <2> DEFINE call == [op |-> "reserve", c |-> c, at |-> now]
  <2>1. call \in Call /\ call.op \notin Writing /\ call.at = now
    BY <1>2 DEF Call, Writing
  <2>2. pc' = [pc EXCEPT ![p] = call] /\ UNCHANGED <<tables, now, granted>>
    BY <1>8 DEF CallReserve
  <2> HIDE DEF call
  <2> QED
    BY <2>1, <2>2
<1>9. ASSUME NEW c \in Checkouts, NEW ended \in BOOLEAN, CallClaim(p, c, ended)
      PROVE  CallStep(p)
  <2> DEFINE call == [op |-> "claim", c |-> c, at |-> now, ended |-> ended]
  <2>1. call \in Call /\ call.op \notin Writing /\ call.at = now
    BY <1>2 DEF Call, Writing
  <2>2. pc' = [pc EXCEPT ![p] = call] /\ UNCHANGED <<tables, now, granted>>
    BY <1>9 DEF CallClaim
  <2> HIDE DEF call
  <2> QED
    BY <2>1, <2>2
<1>10. ASSUME NEW c \in Checkouts, CallUnpaid(p, c) \/ CallDeleted(p, c)
       PROVE  CallStep(p)
  <2>1. \A n \in UnpaidSeats(c) : n \in Active
    BY DEF UnpaidSeats
  <2> QED
    BY <1>10, <1>3, <1>4, <2>1 DEF CallUnpaid, CallDeleted, Proceed, Writing
<1>11. ASSUME NEW u \in Users, CallRefund(p, u)
       PROVE  CallStep(p)
  <2>1. \A n \in SeatsOf(u) : n \in Active
    BY DEF SeatsOf
  <2> QED
    BY <1>11, <1>3, <2>1 DEF CallRefund, Proceed, Writing
<1> QED
  BY <1>5, <1>6, <1>7, <1>8, <1>9, <1>10, <1>11

\* The steps that change a table or the clock, and the steps of a call.
LEMMA NextCases ==
    ASSUME TypeOK, [Next]_vars
    PROVE  \/ \E p \in Procs : \/ ReserveGranted(p) \/ ClaimTaken(p)
                             \/ WriteSeat(p) \/ CallStep(p)
           \/ \E c \in Checkouts : \/ ExpireSession(c)
                                 \/ \E p \in Procs : FirstPaid(p, c)
           \/ \E u \in Users : DeleteAccount(u)
           \/ Tick
           \/ UNCHANGED vars
<1>1. ASSUME NEW p \in Procs, ProcStep(p)
      PROVE  ReserveGranted(p) \/ ClaimTaken(p) \/ WriteSeat(p) \/ CallStep(p)
  BY <1>1, CallSteps DEF ProcStep
<1>2. ASSUME NEW p \in Procs, ProcCall(p)
      PROVE  CallStep(p) \/ \E c \in Checkouts : FirstPaid(p, c)
  BY <1>2, CallSteps DEF ProcCall
<1> QED
  BY <1>1, <1>2 DEF Next

LEMMA FirstPaidType ==
    ASSUME TypeOK, NEW p \in Procs, NEW c \in Checkouts, FirstPaid(p, c)
    PROVE  /\ TypeOK'
           /\ \E n \in Active : seat' = [seat EXCEPT ![n].paid = TRUE]
           /\ UNCHANGED <<expiresAt, notified, closed, now, granted, pc>>
<1>1. PICK n \in Active : seat' = [seat EXCEPT ![n].paid = TRUE]
  BY DEF FirstPaid, MarkFirstPaid
<1>2. UNCHANGED <<expiresAt, notified, closed, now, granted, pc>>
  BY DEF FirstPaid, MarkFirstPaid
<1>3. seat' \in [Numbers -> SeatRow]
  BY <1>1 DEF TypeOK, SeatRow, Active
<1> QED
  BY <1>1, <1>2, <1>3 DEF TypeOK, Reservations

LEMMA TypeStep == TypeOK /\ WritesIssued /\ [Next]_vars => TypeOK'
<1> SUFFICES ASSUME TypeOK, WritesIssued, [Next]_vars
             PROVE  TypeOK'
  OBVIOUS
<1>1. ASSUME NEW p \in Procs, CallStep(p)
      PROVE  TypeOK'
  BY <1>1, CallOnlyType DEF CallStep
<1>2. ASSUME Tick
      PROVE  TypeOK'
  BY <1>2, ProcsAssumption DEF Tick, TypeOK, tables, Reservations
<1>3. ASSUME UNCHANGED vars
      PROVE  TypeOK'
  BY <1>3 DEF vars, TypeOK, Reservations
<1> QED
  BY <1>1, <1>2, <1>3, NextCases, ReserveType, ClaimType, WriteType,
     ExpireType, FirstPaidType, CloseType

-----------------------------------------------------------------------------
(* Numbers.                                                                *)

LEMMA MaxDense ==
    ASSUME NEW k \in Nat
    PROVE  Max(1 .. k \cup {0}) = k
<1> DEFINE S == 1 .. k \cup {0}
<1>1. k \in S /\ \A n \in S : k >= n
  OBVIOUS
<1>2. \A m \in S : (\A n \in S : m >= n) => m = k
  BY <1>1
<1> QED
  BY <1>1, <1>2 DEF Max

\* The next number, when the numbers handed out are 1 .. k.
LEMMA NextNumberDense ==
    ASSUME NEW k \in 0 .. MaxNumber, Issued = 1 .. k
    PROVE  NextNumber = k + 1
BY MaxDense, FounderAssumption DEF NextNumber

\* Effect of each step on the rows of seats.
LEMMA SeatSteps ==
    ASSUME TypeOK, WritesIssued, [Next]_vars
    PROVE  \/ UNCHANGED seat
           \/ \E p \in Procs : ClaimTaken(p)
           \/ \E p \in Procs : WriteSeat(p)
           \/ \E n \in Active : seat' = [seat EXCEPT ![n].paid = TRUE]
           \/ \E u \in Users : DeleteAccount(u)
<1>1. ASSUME NEW p \in Procs, ReserveGranted(p)
      PROVE  UNCHANGED seat
  BY <1>1 DEF ReserveGranted, Reserve
<1>2. ASSUME NEW p \in Procs, CallStep(p)
      PROVE  UNCHANGED seat
  BY <1>2 DEF CallStep, tables
<1>3. ASSUME NEW c \in Checkouts, ExpireSession(c)
      PROVE  UNCHANGED seat
  BY <1>3 DEF ExpireSession, ReleaseReservation
<1>4. ASSUME Tick \/ UNCHANGED vars
      PROVE  UNCHANGED seat
  BY <1>4 DEF Tick, tables, vars
<1> QED
  BY <1>1, <1>2, <1>3, <1>4, NextCases, FirstPaidType

\* What each of those steps leaves of a row.
LEMMA ClaimRow ==
    ASSUME TypeOK, NEW p \in Procs, ClaimTaken(p)
    PROVE  /\ NextNumber \in Numbers
           /\ pc[p].c \in Checkouts
           /\ ~HasSeat(CustomerOf[pc[p].c])
           /\ seat' = [seat EXCEPT ![NextNumber] =
                         [status |-> "ACTIVE", user |-> CustomerOf[pc[p].c],
                          sub |-> pc[p].c, paid |-> FALSE]]
           /\ Issued' = Issued \cup {NextNumber}
           /\ Active' = Active \cup {NextNumber}
<1>1. pc[p].c \in Checkouts
  BY DEF TypeOK, ClaimTaken, Call, Idle, Writing
<1>2. /\ NextNumber \in Numbers
      /\ ~HasSeat(CustomerOf[pc[p].c])
      /\ seat' = [seat EXCEPT ![NextNumber] =
                    [status |-> "ACTIVE", user |-> CustomerOf[pc[p].c],
                     sub |-> pc[p].c, paid |-> FALSE]]
  BY DEF ClaimTaken, ClaimSeat, MayClaim
<1>3. Issued' = Issued \cup {NextNumber} /\ Active' = Active \cup {NextNumber}
  BY <1>2 DEF TypeOK, Issued, Active
<1> QED
  BY <1>1, <1>2, <1>3

LEMMA WriteRow ==
    ASSUME TypeOK, WritesIssued, NEW p \in Procs, WriteSeat(p)
    PROVE  LET n == pc[p].n IN
           /\ n \in Issued
           /\ seat'[n].status \in {"RELEASED", "LOST", "REFUNDED"}
           /\ seat'[n].user \in {seat[n].user, None}
           /\ seat'[n].sub = seat[n].sub
           /\ \A m \in Numbers \ {n} : seat'[m] = seat[m]
           /\ Issued' = Issued
           /\ Active' = Active \ {n}
<1> DEFINE n == pc[p].n
<1>1. n \in Issued /\ n \in Numbers
  BY DEF WritesIssued, WriteSeat, Writing, Issued
<1>2. /\ seat'[n].status \in {"RELEASED", "LOST", "REFUNDED"}
      /\ seat'[n].user \in {seat[n].user, None}
      /\ seat'[n].sub = seat[n].sub
      /\ \A m \in Numbers \ {n} : seat'[m] = seat[m]
  BY <1>1 DEF WriteSeat, WriteReleased, WriteLost, WriteRefunded, TypeOK, SeatRow
<1>3. Issued' = Issued /\ Active' = Active \ {n}
  BY <1>1, <1>2 DEF Issued, Active
<1> QED
  BY <1>1, <1>2, <1>3

LEMMA CloseRow ==
    ASSUME TypeOK, NEW u \in Users, DeleteAccount(u)
    PROVE  /\ \A n \in Numbers :
                /\ seat'[n].status = seat[n].status
                /\ seat'[n].sub = seat[n].sub
                /\ seat'[n].user \in {seat[n].user, None}
           /\ Issued' = Issued
           /\ Active' = Active
<1>1. \A n \in Numbers :
        /\ seat'[n].status = seat[n].status
        /\ seat'[n].sub = seat[n].sub
        /\ seat'[n].user \in {seat[n].user, None}
  BY DEF DeleteAccount, CloseAccount, TypeOK, SeatRow
<1> QED
  BY <1>1 DEF Issued, Active

LEMMA PaidRow ==
    ASSUME TypeOK, NEW k \in Active, seat' = [seat EXCEPT ![k].paid = TRUE]
    PROVE  /\ \A n \in Numbers :
                /\ seat'[n].status = seat[n].status
                /\ seat'[n].sub = seat[n].sub
                /\ seat'[n].user = seat[n].user
           /\ Issued' = Issued
           /\ Active' = Active
<1>1. \A n \in Numbers :
        /\ seat'[n].status = seat[n].status
        /\ seat'[n].sub = seat[n].sub
        /\ seat'[n].user = seat[n].user
  BY DEF TypeOK, SeatRow, Active
<1> QED
  BY <1>1 DEF Issued, Active

\* A row is only ever added, under the next number.
LEMMA IssuedStep ==
    ASSUME TypeOK, WritesIssued, [Next]_vars
    PROVE  Issued' = Issued \/ (NextNumber \in Numbers /\ Issued' = Issued \cup {NextNumber})
<1>1. CASE UNCHANGED seat
  BY <1>1 DEF Issued
<1> QED
  BY <1>1, SeatSteps, ClaimRow, WriteRow, CloseRow, PaidRow

LEMMA WritesIssuedStep == TypeOK /\ WritesIssued /\ [Next]_vars => WritesIssued'
<1> SUFFICES ASSUME TypeOK, WritesIssued, [Next]_vars,
                    NEW q \in Procs, pc'[q].op \in Writing
             PROVE  pc'[q].n \in Issued'
  BY DEF WritesIssued
<1>1. Issued \subseteq Issued'
  BY IssuedStep
<1>2. SUFFICES pc'[q] = pc[q] \/ pc'[q].n \in Issued
  BY <1>1 DEF WritesIssued
<1>3. Idle.op \notin Writing
  BY DEF Idle, Writing
<1>4. ASSUME NEW p \in Procs, ReserveGranted(p) \/ WriteSeat(p)
      PROVE  pc'[q] = pc[q]
  BY <1>3, <1>4 DEF ReserveGranted, WriteSeat, TypeOK
<1>5. ASSUME NEW p \in Procs, ClaimTaken(p)
      PROVE  pc'[q] = pc[q]
  BY <1>3, <1>5 DEF ClaimTaken, AfterClaim, TypeOK, Writing
<1>6. ASSUME NEW p \in Procs, CallStep(p)
      PROVE  pc'[q] = pc[q] \/ pc'[q].n \in Issued
  BY <1>6 DEF CallStep, TypeOK
<1>7. ASSUME NEW c \in Checkouts, ExpireSession(c) \/ \E p \in Procs : FirstPaid(p, c)
      PROVE  pc'[q] = pc[q]
  BY <1>7 DEF ExpireSession, FirstPaid
<1>8. ASSUME (\E u \in Users : DeleteAccount(u)) \/ Tick \/ UNCHANGED vars
      PROVE  pc'[q] = pc[q]
  BY <1>8 DEF DeleteAccount, Tick, vars
<1> QED
  BY <1>4, <1>5, <1>6, <1>7, <1>8, NextCases

\* The types of the tables and of every call hold in every state, and a call
\* about to update a row holds the number of a row that exists.
THEOREM TypeCorrect == Spec => [](TypeOK /\ WritesIssued)
<1>1. Init => TypeOK /\ WritesIssued
  BY InitType DEF Init, WritesIssued, Idle, Writing
<1>2. TypeOK /\ WritesIssued /\ [Next]_vars => (TypeOK /\ WritesIssued)'
  BY TypeStep, WritesIssuedStep
<1> QED
  BY <1>1, <1>2, PTL DEF Spec

\* Numbers are 1, 2, 3, ... without a hole, for any interleaving of calls.
THEOREM NumbersAreDense == Spec => []NumbersDense
<1>1. Init => NumbersDense
  <2> SUFFICES ASSUME Init PROVE NumbersDense
    OBVIOUS
  <2>1. Issued = 1 .. 0 /\ 0 \in 0 .. MaxNumber
    BY FounderAssumption DEF Init, TablesInit, Issued, NoSeat
  <2> QED
    BY <2>1 DEF NumbersDense
<1>2. TypeOK /\ WritesIssued /\ NumbersDense /\ [Next]_vars => NumbersDense'
  <2> SUFFICES ASSUME TypeOK, WritesIssued, NumbersDense, [Next]_vars
               PROVE  NumbersDense'
    OBVIOUS
  <2>1. PICK k \in 0 .. MaxNumber : Issued = 1 .. k
    BY DEF NumbersDense
  <2>2. CASE Issued' = Issued
    BY <2>1, <2>2 DEF NumbersDense
  <2>3. CASE NextNumber \in Numbers /\ Issued' = Issued \cup {NextNumber}
    <3>1. NextNumber = k + 1
      BY <2>1, NextNumberDense
    <3>2. k + 1 \in 0 .. MaxNumber /\ Issued' = 1 .. (k + 1)
      BY <2>1, <2>3, <3>1, FounderAssumption DEF Numbers
    <3> QED
      BY <3>2 DEF NumbersDense
  <2> QED
    BY <2>2, <2>3, IssuedStep
<1> QED
  BY <1>1, <1>2, TypeCorrect, PTL DEF Spec

\* A number stays with its subscription and its account: a claim only writes
\* the next number, which no row has.
THEOREM NumbersAreFinal == Spec => NumbersNeverReused
<1> DEFINE Kept == \A n \in Issued :
                      /\ n \in Issued'
                      /\ seat'[n].sub = seat[n].sub
                      /\ seat'[n].user \in {seat[n].user, None}
<1>1. TypeOK /\ WritesIssued /\ NumbersDense /\ [Next]_vars => Kept
  <2> SUFFICES ASSUME TypeOK, WritesIssued, NumbersDense, [Next]_vars,
                      NEW n \in Issued
               PROVE  /\ n \in Issued'
                      /\ seat'[n].sub = seat[n].sub
                      /\ seat'[n].user \in {seat[n].user, None}
    OBVIOUS
  <2>1. n \in Issued' /\ n \in Numbers
    BY IssuedStep DEF Issued
  <2>2. ASSUME NEW p \in Procs, ClaimTaken(p)
        PROVE  seat'[n] = seat[n]
    <3>1. PICK k \in 0 .. MaxNumber : Issued = 1 .. k
      BY DEF NumbersDense
    <3>2. n # NextNumber
      BY <3>1, NextNumberDense
    <3> QED
      BY <2>1, <2>2, <3>2, ClaimRow DEF TypeOK
  <2>3. ASSUME NEW p \in Procs, WriteSeat(p)
        PROVE  seat'[n].sub = seat[n].sub /\ seat'[n].user \in {seat[n].user, None}
    <3>1. CASE n = pc[p].n
      BY <2>3, <3>1, WriteRow
    <3>2. CASE n # pc[p].n
      BY <2>1, <2>3, <3>2, WriteRow
    <3> QED
      BY <3>1, <3>2
  <2> QED
    BY <2>1, <2>2, <2>3, SeatSteps, PaidRow, CloseRow
<1> QED
  BY <1>1, TypeCorrect, NumbersAreDense, PTL DEF Spec, NumbersNeverReused

-----------------------------------------------------------------------------
(* One seat and one reservation per account.                               *)

SeatsDistinct ==
    \A m, n \in Numbers :
       seat[m].user = seat[n].user /\ seat[m].user # None => m = n

HeldDistinct ==
    \A c, d \in Reservations : CustomerOf[c] = CustomerOf[d] => c = d

LEMMA SeatsDistinctStep ==
    ASSUME TypeOK, WritesIssued, SeatsDistinct, [Next]_vars
    PROVE  SeatsDistinct'
<1>1. SUFFICES ASSUME NEW m \in Numbers, NEW n \in Numbers, seat'[m].user = seat'[n].user,
                      seat'[m].user # None
               PROVE  m = n
  BY DEF SeatsDistinct, Numbers
<1>2. ASSUME NEW p \in Procs, ClaimTaken(p)
      PROVE  m = n
  <2> DEFINE u == CustomerOf[pc[p].c]
  <2>1. \A k \in Numbers : seat[k].user # u
    BY <1>2, ClaimRow DEF HasSeat
  <2>2. \A k \in Numbers : seat'[k].user = IF k = NextNumber THEN u ELSE seat[k].user
    BY <1>2, ClaimRow DEF TypeOK
  <2> HIDE DEF u
  <2> QED
    BY <1>1, <2>1, <2>2 DEF SeatsDistinct
<1>3. ASSUME \A k \in Numbers : seat'[k].user \in {seat[k].user, None}
      PROVE  m = n
  BY <1>1, <1>3 DEF SeatsDistinct
<1>4. ASSUME NEW p \in Procs, WriteSeat(p)
      PROVE  \A k \in Numbers : seat'[k].user \in {seat[k].user, None}
  BY <1>4, WriteRow
<1>5. CASE UNCHANGED seat
  BY <1>3, <1>5
<1> QED
  BY <1>2, <1>3, <1>4, <1>5, SeatSteps, PaidRow, CloseRow

\* Effect of each step on the reservations.
LEMMA HeldSteps ==
    ASSUME TypeOK, WritesIssued, [Next]_vars
    PROVE  \/ \E p \in Procs : ReserveGranted(p)
           \/ \E u \in Users : expiresAt' = WithoutReservationsOf(u)
           \/ \E c \in Checkouts : expiresAt' = [expiresAt EXCEPT ![c] = 0]
           \/ UNCHANGED expiresAt
<1>1. ASSUME NEW p \in Procs, ClaimTaken(p)
      PROVE  \E u \in Users : expiresAt' = WithoutReservationsOf(u)
  BY <1>1, ClaimRow, FounderAssumption DEF ClaimTaken, ClaimSeat
<1>2. ASSUME NEW p \in Procs, WriteSeat(p)
      PROVE  UNCHANGED expiresAt
  BY <1>2 DEF WriteSeat, WriteReleased, WriteLost, WriteRefunded
<1>3. ASSUME NEW p \in Procs, CallStep(p)
      PROVE  UNCHANGED expiresAt
  BY <1>3 DEF CallStep, tables
<1>4. ASSUME NEW c \in Checkouts, ExpireSession(c)
      PROVE  expiresAt' = [expiresAt EXCEPT ![c] = 0]
  BY <1>4 DEF ExpireSession, ReleaseReservation
<1>5. ASSUME NEW u \in Users, DeleteAccount(u)
      PROVE  expiresAt' = WithoutReservationsOf(u)
  BY <1>5 DEF DeleteAccount, CloseAccount
<1>6. CASE Tick \/ UNCHANGED vars
  BY <1>6 DEF Tick, tables, vars
<1> QED
  BY <1>1, <1>2, <1>3, <1>4, <1>5, <1>6, NextCases, FirstPaidType

\* What a reservation granted leaves.
LEMMA ReserveRow ==
    ASSUME TypeOK, NEW p \in Procs, ReserveGranted(p)
    PROVE  /\ pc[p].c \in Checkouts
           /\ pc[p].at \in 0 .. MaxTime
           /\ \A d \in Checkouts :
                expiresAt'[d] = IF d = pc[p].c THEN pc[p].at + Ttl
                                ELSE IF CustomerOf[d] = CustomerOf[pc[p].c] THEN 0
                                ELSE expiresAt[d]
<1>1. pc[p] \in [op : {"reserve"}, c : Checkouts, at : 0 .. MaxTime]
  BY DEF TypeOK, ReserveGranted, Call, Idle, Writing
<1>2. expiresAt' = [WithoutReservationsOf(CustomerOf[pc[p].c]) EXCEPT ![pc[p].c] = pc[p].at + Ttl]
  BY DEF ReserveGranted, Reserve
<1> QED
  BY <1>1, <1>2 DEF WithoutReservationsOf

LEMMA HeldDistinctStep ==
    ASSUME TypeOK, WritesIssued, HeldDistinct, [Next]_vars
    PROVE  HeldDistinct'
<1>1. SUFFICES ASSUME NEW c \in Checkouts, NEW d \in Checkouts,
                      expiresAt'[c] # 0, expiresAt'[d] # 0,
                      CustomerOf[c] = CustomerOf[d]
               PROVE  c = d
  BY DEF HeldDistinct, Reservations
<1>2. ASSUME NEW p \in Procs, ReserveGranted(p)
      PROVE  c = d
  BY <1>1, <1>2, ReserveRow DEF HeldDistinct, Reservations
<1>3. CASE \E u \in Users : expiresAt' = WithoutReservationsOf(u)
  BY <1>1, <1>3 DEF WithoutReservationsOf, HeldDistinct, Reservations
<1>4. CASE \E e \in Checkouts : expiresAt' = [expiresAt EXCEPT ![e] = 0]
  BY <1>1, <1>4 DEF TypeOK, HeldDistinct, Reservations
<1>5. CASE UNCHANGED expiresAt
  BY <1>1, <1>5 DEF HeldDistinct, Reservations
<1> QED
  BY <1>2, <1>3, <1>4, <1>5, HeldSteps

\* Two webhooks of one account, or two of its checkouts, never leave it two
\* seats or two reservations: claimSeat looks for the account's seat, and
\* reserve deletes the account's reservations, under the lock.
THEOREM OneSeatPerAccount == Spec => []OnePerAccount
<1>1. Init => SeatsDistinct /\ HeldDistinct
  BY DEF Init, TablesInit, NoSeat, SeatsDistinct, HeldDistinct, Reservations
<1>2. TypeOK /\ WritesIssued /\ SeatsDistinct /\ HeldDistinct /\ [Next]_vars
         => (SeatsDistinct /\ HeldDistinct)'
  BY SeatsDistinctStep, HeldDistinctStep
<1>3. SeatsDistinct /\ HeldDistinct => OnePerAccount
  BY DEF SeatsDistinct, HeldDistinct, OnePerAccount
<1> QED
  BY <1>1, <1>2, <1>3, TypeCorrect, PTL DEF Spec

-----------------------------------------------------------------------------
(* The service implements the ledger, when no date is stale.               *)

\* The instance of the ledger brings its own names for these.
LEMMA LedgerCardinality ==
    /\ \A S : Ledger!Cardinality(S) = Cardinality(S)
    /\ \A S : Ledger!IsFiniteSet(S) <=> IsFiniteSet(S)
BY DEF Cardinality, Ledger!Cardinality, IsFiniteSet, Ledger!IsFiniteSet

\* A call that waits for the lock has read the current date.
FreshDates == \A p \in Procs : pc[p].op \in Waiting => pc[p].at = now

LEMMA FreshDatesStep ==
    ASSUME ~LockWait, TypeOK, WritesIssued, FreshDates, [Next]_vars
    PROVE  FreshDates'
<1>1. SUFFICES ASSUME NEW q \in Procs, pc'[q].op \in Waiting
               PROVE  pc'[q].at = now'
  BY DEF FreshDates
<1>2. Idle.op \notin Waiting /\ \A c \in Checkouts : [op |-> "end", c |-> c].op \notin Waiting
  BY DEF Idle, Waiting
<1>3. ASSUME NEW p \in Procs, ReserveGranted(p) \/ WriteSeat(p)
      PROVE  pc'[q] = pc[q] /\ now' = now
  BY <1>1, <1>2, <1>3 DEF ReserveGranted, WriteSeat, TypeOK
<1>4. ASSUME NEW p \in Procs, ClaimTaken(p)
      PROVE  pc'[q] = pc[q] /\ now' = now
  BY <1>1, <1>2, <1>4, ClaimRow DEF ClaimTaken, AfterClaim, TypeOK
<1>5. ASSUME NEW p \in Procs, CallStep(p)
      PROVE  pc'[q].at = now'
  BY <1>1, <1>5 DEF CallStep, TypeOK, FreshDates
<1>6. ASSUME NEW c \in Checkouts, ExpireSession(c) \/ \E p \in Procs : FirstPaid(p, c)
      PROVE  pc'[q] = pc[q] /\ now' = now
  BY <1>6 DEF ExpireSession, FirstPaid
<1>7. CASE (\E u \in Users : DeleteAccount(u)) \/ UNCHANGED vars
  BY <1>1, <1>7 DEF DeleteAccount, vars, FreshDates
<1>8. CASE Tick
  BY <1>1, <1>8 DEF Tick
<1> QED
  BY <1>1, <1>3, <1>4, <1>5, <1>6, <1>7, <1>8, NextCases DEF FreshDates

LEMMA ActiveFinite ==
    /\ IsFiniteSet(Active) /\ IsFiniteSet(Taken) /\ IsFiniteSet(Reservations)
    /\ \A at : IsFiniteSet(Live(at))
    /\ Cardinality(Active) \in Nat /\ Cardinality(Taken) \in Nat
    /\ \A at : Cardinality(Live(at)) \in Nat
    /\ Cardinality(Active) <= Cardinality(Taken)
<1>1. IsFiniteSet(Numbers)
  BY FS_Interval, FounderAssumption DEF Numbers
<1>2. Taken \in SUBSET Numbers /\ Active \in SUBSET Taken
  BY DEF Taken, Active
<1>3. IsFiniteSet(Taken)
  BY <1>1, <1>2, FS_Subset
<1>4. IsFiniteSet(Active) /\ Cardinality(Active) <= Cardinality(Taken)
  BY <1>2, <1>3, FS_Subset
<1>5. IsFiniteSet(Reservations)
  BY FS_Subset, FounderAssumption DEF Reservations
<1>6. ASSUME NEW at
      PROVE  IsFiniteSet(Live(at))
  BY <1>5, FS_Subset DEF Live
<1> QED
  BY <1>3, <1>4, <1>5, <1>6, FS_CardinalityType

\* What is left of the reservations still running.
LEMMA LiveWithout ==
    ASSUME TypeOK, NEW u \in Users, expiresAt' = WithoutReservationsOf(u), now' = now
    PROVE  Live(now)' = Live(now) \ ReservationsOf(u)
BY DEF Live, Reservations, ReservationsOf, WithoutReservationsOf

LEMMA ReserveHolds ==
    ASSUME TypeOK, FreshDates, NEW p \in Procs, ReserveGranted(p)
    PROVE  \E old \in SUBSET Live(now) : \E c \in Checkouts : Ledger!Hold(c, old)
<1> DEFINE c == pc[p].c
           old == Live(now) \cap ReservationsOf(CustomerOf[c])
<1>1. /\ c \in Checkouts
      /\ \A d \in Checkouts :
            expiresAt'[d] = IF d = c THEN pc[p].at + Ttl
                            ELSE IF CustomerOf[d] = CustomerOf[c] THEN 0
                            ELSE expiresAt[d]
  BY ReserveRow
<1>2. pc[p].at = now /\ now \in Nat
  BY DEF ReserveGranted, FreshDates, Waiting, TypeOK
<1>3. Cardinality(Taken) + Cardinality(Live(now) \ old) < Seats
  <2>1. Live(now) \ ReservationsOf(CustomerOf[c]) = Live(now) \ old
    OBVIOUS
  <2> QED
    BY <1>2, <2>1 DEF ReserveGranted, Reserve, RoomToReserve
<1>4. Cardinality(Active) + Cardinality(Live(now) \ old) < Seats
  <2>1. IsFiniteSet(Live(now) \ old)
    BY ActiveFinite, FS_Subset
  <2>2. Cardinality(Live(now) \ old) \in Nat
    BY <2>1, FS_CardinalityType
  <2> QED
    BY <1>3, <2>2, ActiveFinite, FounderAssumption
<1>5. UNCHANGED <<seat, now>>
  BY DEF ReserveGranted, Reserve
<1>6. Live(now)' = (Live(now) \ old) \cup {c}
  BY <1>1, <1>2, <1>5, FounderAssumption DEF Live, Reservations, ReservationsOf, TypeOK
<1>7. UNCHANGED <<Active, NextNumber - 1>>
  BY <1>5 DEF Active, NextNumber, Issued
<1> HIDE DEF old
<1>8. Ledger!Hold(c, old)
  BY <1>4, <1>6, <1>7, LedgerCardinality DEF Ledger!Hold
<1>9. old \in SUBSET Live(now)
  BY DEF old
<1> QED
  BY <1>1, <1>8, <1>9

LEMMA ClaimTakes ==
    ASSUME TypeOK, FreshDates, NumbersDense, NEW p \in Procs, ClaimTaken(p)
    PROVE  \E old \in SUBSET Live(now) : Ledger!Take(old)
<1> DEFINE u == CustomerOf[pc[p].c]
           old == Live(now) \cap ReservationsOf(u)
<1>1. pc[p].at = now
  BY DEF ClaimTaken, FreshDates, Waiting
<1>2. old # {} \/ Cardinality(Active) + Cardinality(Live(now)) < Seats
  <2>1. CASE SeatsTaken(now) < Seats
    BY <2>1, ActiveFinite, FounderAssumption DEF SeatsTaken
  <2> QED
    BY <1>1, <2>1 DEF ClaimTaken, ClaimSeat, MayClaim
<1>3. UNCHANGED now /\ expiresAt' = WithoutReservationsOf(u) /\ u \in Users
  BY ClaimRow, FounderAssumption DEF ClaimTaken, ClaimSeat
<1>4. Live(now)' = Live(now) \ old
  BY <1>3, LiveWithout
<1>5. PICK k \in 0 .. MaxNumber : Issued = 1 .. k
  BY DEF NumbersDense
<1>6. NextNumber = k + 1
  BY <1>5, NextNumberDense
<1>7. k + 1 \in 0 .. MaxNumber /\ Issued' = 1 .. (k + 1)
  <2>1. NextNumber \in Numbers /\ Issued' = Issued \cup {NextNumber}
    BY ClaimRow
  <2> QED
    BY <1>5, <1>6, <2>1, FounderAssumption DEF Numbers
<1>8. NextNumber' = k + 2
  <2>1. Max(1 .. (k + 1) \cup {0}) = k + 1
    BY <1>7, MaxDense
  <2> QED
    BY <1>5, <1>7, <2>1 DEF NextNumber
<1>9. Active' = Active \cup {NextNumber}
  BY ClaimRow
<1> HIDE DEF old
<1>10. Ledger!Take(old)
  BY <1>2, <1>4, <1>5, <1>6, <1>8, <1>9, LedgerCardinality DEF Ledger!Take, Ledger!Occupied
<1>11. old \in SUBSET Live(now)
  BY DEF old
<1> QED
  BY <1>10, <1>11

\* Every step that is neither a reservation nor a claim gives places back or
\* ends a subscription, or changes nothing the ledger sees.
LEMMA OtherSteps ==
    ASSUME TypeOK, WritesIssued, [Next]_vars,
           \A p \in Procs : ~ReserveGranted(p) /\ ~ClaimTaken(p)
    PROVE  \/ \E old \in SUBSET Live(now) : Ledger!Drop(old)
           \/ \E n \in Active : Ledger!End(n)
           \/ UNCHANGED Ledger!ledgerVars
<1>1. ASSUME NEW p \in Procs, WriteSeat(p)
      PROVE  (\E n \in Active : Ledger!End(n)) \/ UNCHANGED Ledger!ledgerVars
  <2>1. UNCHANGED <<expiresAt, now>>
    BY <1>1 DEF WriteSeat, WriteReleased, WriteLost, WriteRefunded
  <2>2. Issued' = Issued /\ Active' = Active \ {pc[p].n}
    BY <1>1, WriteRow
  <2>3. UNCHANGED <<Live(now), NextNumber - 1>>
    BY <2>1, <2>2 DEF Live, Reservations, NextNumber
  <2>4. CASE pc[p].n \in Active
    BY <2>2, <2>3, <2>4 DEF Ledger!End
  <2>5. CASE pc[p].n \notin Active
    BY <2>2, <2>3, <2>5 DEF Ledger!ledgerVars
  <2> QED
    BY <2>4, <2>5
<1>2. ASSUME Issued' = Issued, Active' = Active,
             NEW old \in SUBSET Live(now), Live(now)' = Live(now) \ old
      PROVE  Ledger!Drop(old)
  <2>1. UNCHANGED <<Active, NextNumber - 1>>
    BY <1>2 DEF NextNumber
  <2> QED
    BY <1>2, <2>1 DEF Ledger!Drop
<1>3. ASSUME NEW u \in Users, DeleteAccount(u)
      PROVE  \E old \in SUBSET Live(now) : Ledger!Drop(old)
  <2>1. Issued' = Issued /\ Active' = Active
    BY <1>3, CloseRow
  <2>2. Live(now)' = Live(now) \ ReservationsOf(u)
    BY <1>3, LiveWithout DEF DeleteAccount, CloseAccount
  <2>3. Live(now)' = Live(now) \ (Live(now) \cap ReservationsOf(u))
    BY <2>2
  <2> QED
    BY <1>2, <2>1, <2>3
<1>4. ASSUME NEW c \in Checkouts, ExpireSession(c)
      PROVE  \E old \in SUBSET Live(now) : Ledger!Drop(old)
  <2>1. UNCHANGED <<seat, now>> /\ expiresAt' = [expiresAt EXCEPT ![c] = 0]
    BY <1>4 DEF ExpireSession, ReleaseReservation
  <2>2. Issued' = Issued /\ Active' = Active
    BY <2>1 DEF Issued, Active
  <2>3. Live(now)' = Live(now) \ (Live(now) \cap {c})
    BY <2>1 DEF Live, Reservations, TypeOK
  <2> QED
    BY <1>2, <2>2, <2>3
<1>5. ASSUME Tick
      PROVE  \E old \in SUBSET Live(now) : Ledger!Drop(old)
  <2> DEFINE old == {c \in Live(now) : ~(expiresAt[c] > now + 1)}
  <2>1. UNCHANGED <<seat, expiresAt>> /\ now' = now + 1
    BY <1>5 DEF Tick, tables
  <2>2. Issued' = Issued /\ Active' = Active
    BY <2>1 DEF Issued, Active
  <2>3. Live(now)' = Live(now) \ old
    BY <2>1 DEF Live, Reservations, TypeOK
  <2> QED
    BY <1>2, <2>2, <2>3
<1>6. ASSUME NEW p \in Procs, CallStep(p)
      PROVE  UNCHANGED Ledger!ledgerVars
  BY <1>6 DEF CallStep, tables, Ledger!ledgerVars, Active, Live, Reservations, NextNumber, Issued
<1>7. ASSUME NEW c \in Checkouts, NEW p \in Procs, FirstPaid(p, c)
      PROVE  UNCHANGED Ledger!ledgerVars
  <2>1. Issued' = Issued /\ Active' = Active /\ UNCHANGED <<expiresAt, now>>
    BY <1>7, FirstPaidType, PaidRow
  <2> QED
    BY <2>1 DEF Ledger!ledgerVars, Live, Reservations, NextNumber
<1>8. CASE UNCHANGED vars
  BY <1>8 DEF vars, Ledger!ledgerVars, Active, Live, Reservations, NextNumber, Issued
<1> QED
  BY <1>1, <1>3, <1>4, <1>5, <1>6, <1>7, <1>8, NextCases

\* Any interleaving of checkouts, webhooks, expiries and deletions of accounts
\* is a behaviour of the ledger, provided that the date a call reads before the
\* lock is still current when the lock is granted.
THEOREM Refinement ==
    ASSUME ~LockWait
    PROVE  Spec => ImplementsLedger
<1> DEFINE Inv == TypeOK /\ WritesIssued /\ NumbersDense /\ FreshDates
<1>1. Init => Ledger!Init
  <2> SUFFICES ASSUME Init
               PROVE  Ledger!Init
    OBVIOUS
  <2>1. Issued = 1 .. 0 /\ 0 \in 0 .. MaxNumber /\ Active = {} /\ Live(now) = {}
    BY FounderAssumption DEF Init, TablesInit, Issued, Active, NoSeat, Live, Reservations
  <2>2. NextNumber = 1
    BY <2>1, NextNumberDense
  <2> QED
    BY <2>1, <2>2 DEF Ledger!Init
<1>2. Inv /\ [Next]_vars => [Ledger!Next]_(Ledger!ledgerVars)
  <2> SUFFICES ASSUME TypeOK, WritesIssued, NumbersDense, FreshDates, [Next]_vars
               PROVE  [Ledger!Next]_(Ledger!ledgerVars)
    OBVIOUS
  <2>1. ASSUME NEW p \in Procs, ReserveGranted(p)
        PROVE  Ledger!Next
    BY <2>1, ReserveHolds DEF Ledger!Next
  <2>2. ASSUME NEW p \in Procs, ClaimTaken(p)
        PROVE  Ledger!Next
    BY <2>2, ClaimTakes DEF Ledger!Next
  <2> QED
    BY <2>1, <2>2, OtherSteps DEF Ledger!Next
<1>3. Init => FreshDates
  BY DEF Init, FreshDates, Idle, Waiting
<1>4. TypeOK /\ WritesIssued /\ FreshDates /\ [Next]_vars => FreshDates'
  BY FreshDatesStep
<1> QED
  BY <1>1, <1>2, <1>3, <1>4, TypeCorrect, NumbersAreDense, PTL
  DEF Spec, ImplementsLedger, Ledger!Spec

\* Hence what the founder price promises: running subscriptions and checkouts
\* that may still end in one never exceed the seats of the offer.
THEOREM NeverBeyondOffer ==
    ASSUME ~LockWait
    PROVE  Spec => []ActiveWithinOffer
<1>1. Ledger!IsFiniteSet(Checkouts) /\ Seats \in Nat
  BY LedgerCardinality, FounderAssumption
<1>2. Ledger!Spec => [](Ledger!LedgerTypeOK /\ Ledger!WithinOffer)
  BY <1>1, Ledger!LedgerWithinOffer
<1>3. Ledger!WithinOffer => ActiveWithinOffer
  BY LedgerCardinality DEF Ledger!WithinOffer, Ledger!Occupied, ActiveWithinOffer
<1> QED
  BY <1>2, <1>3, Refinement, PTL DEF ImplementsLedger

-----------------------------------------------------------------------------
(* One webhook job at a time, as in production: one process with APP_ROLE  *)
(* "worker", any number of "web".  releaseUnpaid, markLost and             *)
(* refundFirstPayment update by number a row they have read before; with   *)
(* two jobs at once the row may have changed.                              *)

OneWorker == \A p, q \in Workers : p = q

\* Checkout requests never write a seat: a call that does, or will, is a job.
Jobs == Writing \cup {"claim", "end"}
JobsOnWorkers == \A p \in Procs : pc[p].op \in Jobs => p \in Workers

\* What a job is about to write was decided on the row as it still is.
Current(call) ==
    /\ seat[call.n].status = "ACTIVE"
    /\ call.op = "release" => ~seat[call.n].paid
ReadsCurrent == \A p \in Procs : pc[p].op \in Writing => Current(pc[p])

WorkerInv == JobsOnWorkers /\ ReadsCurrent

-----------------------------------------------------------------------------
(* The invariant.                                                          *)

\* A call that moves on and leaves the seats alone.
Moves(p) ==
    \E call \in Call \cup {Idle} :
        /\ pc' = [pc EXCEPT ![p] = call]
        /\ UNCHANGED seat
        /\ call.op \in Jobs => p \in Workers
        /\ call.op \in Writing => Current(call)

LEMMA MovesKeep ==
    ASSUME TypeOK, WorkerInv, NEW p \in Procs, Moves(p)
    PROVE  WorkerInv'
<1>1. PICK call \in Call \cup {Idle} :
        /\ pc' = [pc EXCEPT ![p] = call]
        /\ UNCHANGED seat
        /\ call.op \in Jobs => p \in Workers
        /\ call.op \in Writing => Current(call)
  BY DEF Moves
<1>2. ASSUME NEW q \in Procs
      PROVE  pc'[q] = IF q = p THEN call ELSE pc[q]
  BY <1>1 DEF TypeOK
<1>3. JobsOnWorkers'
  BY <1>1, <1>2 DEF JobsOnWorkers, WorkerInv, Jobs, Writing
<1>4. ReadsCurrent'
  BY <1>1, <1>2 DEF ReadsCurrent, WorkerInv, Current, Writing
<1> QED
  BY <1>3, <1>4 DEF WorkerInv

\* What a job reads before it writes.
LEMMA ReadsAreCurrent ==
    ASSUME TypeOK, NEW op \in Writing, NEW n \in Active, op = "release" => ~seat[n].paid
    PROVE  /\ [op |-> op, n |-> n] \in Call
           /\ Current([op |-> op, n |-> n])
BY DEF Call, Active, Writing, Current

LEMMA MovingSteps ==
    ASSUME TypeOK, WorkerInv, NEW p \in Procs,
           \/ ReserveGranted(p) \/ ReserveRefused(p)
           \/ ClaimExisting(p) \/ ClaimRefused(p) \/ ReadLost(p) \/ Fail(p)
           \/ \E c \in Checkouts : CallReserve(p, c)
           \/ p \in Workers /\ \E c \in Checkouts :
                 \/ \E ended \in BOOLEAN : CallClaim(p, c, ended)
                 \/ CallUnpaid(p, c) \/ CallDeleted(p, c)
           \/ p \in Workers /\ \E u \in Users : CallRefund(p, u)
    PROVE  Moves(p)
<1> USE DEF Moves
<1>1. Idle \in Call \cup {Idle} /\ Idle.op \notin Jobs /\ Idle.op \notin Writing
  BY DEF Idle, Jobs, Writing
<1>2. ASSUME NEW c \in Checkouts
      PROVE  [op |-> "end", c |-> c] \in Call /\ [op |-> "end", c |-> c].op \notin Writing
  BY DEF Call, Writing
<1>3. now \in 0 .. MaxTime
  BY DEF TypeOK
<1>4. CASE ReserveGranted(p) \/ ReserveRefused(p) \/ ClaimRefused(p) \/ Fail(p)
  BY <1>1, <1>4 DEF ReserveGranted, Reserve, ReserveRefused, ClaimRefused, Fail, tables
<1>5. CASE ClaimExisting(p)
  <2>1. pc[p].c \in Checkouts
    BY <1>5 DEF ClaimExisting, TypeOK, Call, Idle, Writing
  <2>2. p \in Workers
    BY <1>5 DEF ClaimExisting, WorkerInv, JobsOnWorkers, Jobs
  <2>3. UNCHANGED seat
    BY <1>5 DEF ClaimExisting, tables
  <2> QED
    BY <1>1, <1>2, <1>5, <2>1, <2>2, <2>3 DEF ClaimExisting, AfterClaim
<1>6. CASE ReadLost(p)
  <2>1. p \in Workers
    BY <1>6 DEF ReadLost, WorkerInv, JobsOnWorkers, Jobs
  <2>2. UNCHANGED seat
    BY <1>6 DEF ReadLost, Proceed, tables
  <2>3. CASE pc' = [pc EXCEPT ![p] = Idle]
    BY <1>1, <2>2, <2>3
  <2>4. ASSUME NEW n \in ActiveSeats(pc[p].c), pc' = [pc EXCEPT ![p] = [op |-> "lost", n |-> n]]
        PROVE  Moves(p)
    <3>1. n \in Active
      BY DEF ActiveSeats
    <3>2. [op |-> "lost", n |-> n] \in Call /\ Current([op |-> "lost", n |-> n])
      BY <3>1, ReadsAreCurrent DEF Writing
    <3> QED
      BY <2>1, <2>2, <2>4, <3>2
  <2> QED
    BY <1>6, <2>3, <2>4 DEF ReadLost, Proceed
<1>7. ASSUME NEW c \in Checkouts, CallReserve(p, c)
      PROVE  Moves(p)
  <2> DEFINE call == [op |-> "reserve", c |-> c, at |-> now]
  <2>1. call \in Call /\ call.op \notin Jobs /\ call.op \notin Writing
    BY <1>3 DEF Call, Jobs, Writing
  <2>2. pc' = [pc EXCEPT ![p] = call] /\ UNCHANGED seat
    BY <1>7 DEF CallReserve, tables
  <2> HIDE DEF call
  <2> QED
    BY <2>1, <2>2
<1>8. ASSUME NEW c \in Checkouts, NEW ended \in BOOLEAN, p \in Workers, CallClaim(p, c, ended)
      PROVE  Moves(p)
  <2> DEFINE call == [op |-> "claim", c |-> c, at |-> now, ended |-> ended]
  <2>1. call \in Call /\ call.op \notin Writing
    BY <1>3 DEF Call, Writing
  <2>2. pc' = [pc EXCEPT ![p] = call] /\ UNCHANGED seat
    BY <1>8 DEF CallClaim, tables
  <2> HIDE DEF call
  <2> QED
    BY <1>8, <2>1, <2>2
<1>9. ASSUME NEW c \in Checkouts, p \in Workers, CallUnpaid(p, c) \/ CallDeleted(p, c)
      PROVE  Moves(p)
  <2>1. UNCHANGED seat
    BY <1>9 DEF CallUnpaid, CallDeleted, Proceed, tables
  <2>2. CASE pc' = [pc EXCEPT ![p] = [op |-> "end", c |-> c]]
    BY <1>2, <1>9, <2>1, <2>2
  <2>3. ASSUME NEW n \in UnpaidSeats(c), pc' = [pc EXCEPT ![p] = [op |-> "release", n |-> n]]
        PROVE  Moves(p)
    <3>1. n \in Active /\ ~seat[n].paid
      BY DEF UnpaidSeats
    <3>2. [op |-> "release", n |-> n] \in Call /\ Current([op |-> "release", n |-> n])
      BY <3>1, ReadsAreCurrent DEF Writing
    <3> QED
      BY <1>9, <2>1, <2>3, <3>2
  <2> QED
    BY <1>9, <2>2, <2>3 DEF CallUnpaid, CallDeleted, Proceed
<1>10. ASSUME NEW u \in Users, p \in Workers, CallRefund(p, u)
       PROVE  Moves(p)
  <2>1. PICK n \in SeatsOf(u) : pc' = [pc EXCEPT ![p] = [op |-> "refund", n |-> n]]
    BY <1>10 DEF CallRefund, Proceed
  <2>2. UNCHANGED seat
    BY <1>10 DEF CallRefund, Proceed, tables
  <2>3. n \in Active
    BY DEF SeatsOf
  <2>4. [op |-> "refund", n |-> n] \in Call /\ Current([op |-> "refund", n |-> n])
    BY <2>3, ReadsAreCurrent DEF Writing
  <2> QED
    BY <1>10, <2>1, <2>2, <2>4
<1> QED
  BY <1>4, <1>5, <1>6, <1>7, <1>8, <1>9, <1>10

\* While the one worker does something else, no write is pending.
LEMMA NoPendingWrite ==
    ASSUME OneWorker, WorkerInv, NEW p \in Workers, pc[p].op \notin Writing
    PROVE  \A q \in Procs : pc[q].op \notin Writing
BY DEF OneWorker, WorkerInv, JobsOnWorkers, Jobs, Procs

\* After a step of the worker that changes a seat, none is pending either.
LEMMA NonePending ==
    ASSUME JobsOnWorkers', \A q \in Procs : pc'[q].op \notin Writing
    PROVE  WorkerInv'
BY DEF WorkerInv, ReadsCurrent

LEMMA ClaimKeeps ==
    ASSUME OneWorker, TypeOK, WorkerInv, NEW p \in Procs, ClaimTaken(p)
    PROVE  WorkerInv'
<1>1. p \in Workers /\ pc[p].op \notin Writing
  BY DEF ClaimTaken, WorkerInv, JobsOnWorkers, Jobs, Writing
<1>2. \A q \in Procs : pc[q].op \notin Writing
  BY <1>1, NoPendingWrite
<1>3. /\ pc'[p].op \in {"end", "idle"}
      /\ \A q \in Procs \ {p} : pc'[q] = pc[q]
  BY DEF ClaimTaken, AfterClaim, TypeOK, Idle
<1>4. JobsOnWorkers'
  BY <1>1, <1>3 DEF WorkerInv, JobsOnWorkers
<1>5. \A q \in Procs : pc'[q].op \notin Writing
  BY <1>2, <1>3 DEF Writing
<1> QED
  BY <1>4, <1>5, NonePending

LEMMA WriteKeeps ==
    ASSUME OneWorker, TypeOK, WorkerInv, NEW p \in Procs, WriteSeat(p)
    PROVE  WorkerInv'
<1>1. p \in Workers /\ pc[p].op \in Writing
  BY DEF WriteSeat, WorkerInv, JobsOnWorkers, Jobs, Writing
<1>2. /\ pc'[p].op = "idle"
      /\ \A q \in Procs \ {p} : pc'[q] = pc[q]
  BY DEF WriteSeat, TypeOK, Idle
<1>3. \A q \in Procs \ {p} : pc[q].op \notin Writing
  BY <1>1 DEF OneWorker, WorkerInv, JobsOnWorkers, Jobs
<1>4. JobsOnWorkers'
  BY <1>1, <1>2 DEF WorkerInv, JobsOnWorkers
<1>5. \A q \in Procs : pc'[q].op \notin Writing
  BY <1>2, <1>3 DEF Writing
<1> QED
  BY <1>4, <1>5, NonePending

LEMMA PaidKeeps ==
    ASSUME OneWorker, TypeOK, WorkerInv, NEW p \in Workers, NEW c \in Checkouts, FirstPaid(p, c)
    PROVE  WorkerInv'
<1>1. UNCHANGED pc /\ pc[p].op \notin Writing
  BY DEF FirstPaid, Idle, Writing
<1>2. \A q \in Procs : pc[q].op \notin Writing
  BY <1>1, NoPendingWrite
<1> QED
  BY <1>1, <1>2, NonePending DEF WorkerInv, JobsOnWorkers

LEMMA CloseKeeps ==
    ASSUME TypeOK, WritesIssued, WorkerInv, NEW u \in Users, DeleteAccount(u)
    PROVE  WorkerInv'
<1>1. UNCHANGED pc
  BY DEF DeleteAccount
<1>2. \A n \in Numbers : seat'[n].status = seat[n].status /\ seat'[n].paid = seat[n].paid
  BY DEF DeleteAccount, CloseAccount, TypeOK, SeatRow
<1>3. \A p \in Procs : pc[p].op \in Writing => pc[p].n \in Numbers
  BY DEF WritesIssued, Issued
<1> QED
  BY <1>1, <1>2, <1>3 DEF WorkerInv, JobsOnWorkers, ReadsCurrent, Current

LEMMA StillKeeps ==
    ASSUME WorkerInv, UNCHANGED <<seat, pc>>
    PROVE  WorkerInv'
BY DEF WorkerInv, JobsOnWorkers, ReadsCurrent, Current

LEMMA WorkerStep ==
    ASSUME OneWorker, TypeOK, WritesIssued, WorkerInv, [Next]_vars
    PROVE  WorkerInv'
<1>1. ASSUME NEW p \in Procs, ProcStep(p)
      PROVE  WorkerInv'
  BY <1>1, MovingSteps, MovesKeep, ClaimKeeps, WriteKeeps DEF ProcStep
<1>2. ASSUME NEW p \in Procs, ProcCall(p)
      PROVE  WorkerInv'
  BY <1>2, MovingSteps, MovesKeep, PaidKeeps DEF ProcCall
<1>3. ASSUME NEW c \in Checkouts, ExpireSession(c)
      PROVE  WorkerInv'
  BY <1>3, StillKeeps DEF ExpireSession, ReleaseReservation
<1>4. CASE Tick \/ UNCHANGED vars
  BY <1>4, StillKeeps DEF Tick, tables, vars
<1> QED
  BY <1>1, <1>2, <1>3, <1>4, CloseKeeps DEF Next

LEMMA WorkerAlways ==
    ASSUME OneWorker
    PROVE  Spec => [](TypeOK /\ WritesIssued /\ NumbersDense /\ WorkerInv)
<1>1. Init => WorkerInv
  BY DEF Init, WorkerInv, JobsOnWorkers, ReadsCurrent, Idle, Jobs, Writing
<1>2. TypeOK /\ WritesIssued /\ WorkerInv /\ [Next]_vars => WorkerInv'
  BY WorkerStep
<1> QED
  BY <1>1, <1>2, TypeCorrect, NumbersAreDense, PTL DEF Spec

-----------------------------------------------------------------------------
(* The life of a seat.                                                     *)

\* The status and the payment of a row, whatever the step.
LEMMA RowSteps ==
    ASSUME TypeOK, WritesIssued, NumbersDense, WorkerInv, [Next]_vars, NEW n \in Issued
    PROVE  \/ seat'[n].status = seat[n].status
           \/ /\ seat[n].status = "ACTIVE"
              /\ seat'[n].status = "RELEASED" => ~seat[n].paid
<1>1. n \in Numbers
  BY DEF Issued
<1>2. ASSUME NEW p \in Procs, ClaimTaken(p)
      PROVE  seat'[n] = seat[n]
  <2>1. PICK k \in 0 .. MaxNumber : Issued = 1 .. k
    BY DEF NumbersDense
  <2>2. n # NextNumber
    BY <2>1, NextNumberDense
  <2> QED
    BY <1>1, <1>2, <2>2, ClaimRow DEF TypeOK
<1>3. ASSUME NEW p \in Procs, WriteSeat(p)
      PROVE  \/ seat'[n].status = seat[n].status
             \/ /\ seat[n].status = "ACTIVE"
                /\ seat'[n].status = "RELEASED" => ~seat[n].paid
  <2>1. pc[p].op \in Writing /\ Current(pc[p])
    BY <1>3 DEF WriteSeat, Writing, WorkerInv, ReadsCurrent
  <2>2. CASE n # pc[p].n
    BY <1>1, <1>3, <2>2, WriteRow
  <2>3. CASE n = pc[p].n
    <3>1. seat[n].status = "ACTIVE" /\ (pc[p].op = "release" => ~seat[n].paid)
      BY <2>1, <2>3 DEF Current
    <3>2. seat'[n].status = "RELEASED" => pc[p].op = "release"
      BY <1>1, <1>3, <2>3 DEF WriteSeat, WriteLost, WriteRefunded, TypeOK, SeatRow
    <3> QED
      BY <3>1, <3>2
  <2> QED
    BY <2>2, <2>3
<1> QED
  BY <1>1, <1>2, <1>3, SeatSteps, PaidRow, CloseRow

\* With one job at a time a seat that was refunded, lost or released keeps that
\* status: markLost, refundFirstPayment and releaseUnpaid write what they read.
THEOREM EndedStaysEnded ==
    ASSUME OneWorker
    PROVE  Spec => EndedIsFinal
<1> DEFINE Kept == \A n \in Issued \ Active : seat'[n].status = seat[n].status
<1>1. TypeOK /\ WritesIssued /\ NumbersDense /\ WorkerInv /\ [Next]_vars => Kept
  BY RowSteps DEF Active, Issued
<1> QED
  BY <1>1, WorkerAlways, PTL DEF Spec, EndedIsFinal

\* With one job at a time a seat whose first payment is recorded is never given
\* back as unpaid: nothing records a payment between the two statements of
\* releaseUnpaid.
THEOREM PaidStaysSold ==
    ASSUME OneWorker
    PROVE  Spec => PaidNeverReleased
<1> DEFINE Kept == \A n \in Active : seat[n].paid => seat'[n].status # "RELEASED"
<1>1. TypeOK /\ WritesIssued /\ NumbersDense /\ WorkerInv /\ [Next]_vars => Kept
  <2> SUFFICES ASSUME TypeOK, WritesIssued, NumbersDense, WorkerInv, [Next]_vars,
                      NEW n \in Active, seat[n].paid
               PROVE  seat'[n].status # "RELEASED"
    OBVIOUS
  <2>1. n \in Issued /\ seat[n].status = "ACTIVE"
    BY DEF Active, Issued
  <2> QED
    BY <2>1, RowSteps
<1> QED
  BY <1>1, WorkerAlways, PTL DEF Spec, PaidNeverReleased

-----------------------------------------------------------------------------
(* The offer.                                                              *)

\* The clock never goes back.
LEMMA ClockStep ==
    ASSUME TypeOK, [Next]_vars
    PROVE  now' >= now
<1>1. now \in Nat
  BY DEF TypeOK
<1>2. ASSUME NEW p \in Procs, ReserveGranted(p) \/ ClaimTaken(p) \/ WriteSeat(p) \/ CallStep(p)
      PROVE  now' = now
  BY <1>2 DEF ReserveGranted, ClaimTaken, WriteSeat, CallStep
<1>3. ASSUME NEW c \in Checkouts, ExpireSession(c) \/ \E p \in Procs : FirstPaid(p, c)
      PROVE  now' = now
  BY <1>3 DEF ExpireSession, FirstPaid
<1>4. ASSUME NEW u \in Users, DeleteAccount(u)
      PROVE  now' = now
  BY <1>4 DEF DeleteAccount
<1> QED
  BY <1>1, <1>2, <1>3, <1>4, NextCases DEF Tick, vars

\* Only a reservation adds to the places held, only a claim to the seats taken.
LEMMA LiveShrinks ==
    ASSUME TypeOK, WritesIssued, [Next]_vars, \A p \in Procs : ~ReserveGranted(p)
    PROVE  Live(now)' \subseteq Live(now)
<1>1. \A c \in Checkouts : expiresAt'[c] \in {0, expiresAt[c]}
  BY HeldSteps DEF WithoutReservationsOf, TypeOK
<1>2. now' \in Int /\ now \in Int /\ now' >= now
  BY ClockStep, TypeStep DEF TypeOK
<1>3. \A c \in Checkouts : expiresAt[c] \in Int
  BY ProcsAssumption, FounderAssumption DEF TypeOK
<1> QED
  BY <1>1, <1>2, <1>3 DEF Live, Reservations

LEMMA TakenShrinks ==
    ASSUME TypeOK, WritesIssued, NumbersDense, WorkerInv, [Next]_vars,
           \A p \in Procs : ~ClaimTaken(p)
    PROVE  Taken' \subseteq Taken
<1>1. Issued' = Issued
  BY SeatSteps, WriteRow, PaidRow, CloseRow DEF Issued
<1>2. Taken' \subseteq Issued'
  BY DEF Taken, Issued
<1>3. ASSUME NEW n \in Issued, n \in Taken'
      PROVE  n \in Taken
  BY <1>3, RowSteps DEF Taken, Issued
<1> QED
  BY <1>1, <1>2, <1>3

\* Fewer places and fewer seats still fit.
LEMMA FewerFit ==
    ASSUME NoOversell, Taken' \subseteq Taken, Live(now)' \subseteq Live(now)
    PROVE  NoOversell'
<1>1. /\ IsFiniteSet(Taken') /\ Cardinality(Taken') <= Cardinality(Taken)
      /\ IsFiniteSet(Live(now)') /\ Cardinality(Live(now)') <= Cardinality(Live(now))
  BY ActiveFinite, FS_Subset
<1>2. Cardinality(Taken') \in Nat /\ Cardinality(Live(now)') \in Nat
  BY <1>1, FS_CardinalityType
<1>3. SeatsTaken(now)' = Cardinality(Taken') + Cardinality(Live(now)')
  BY DEF SeatsTaken
<1> QED
  BY <1>1, <1>2, <1>3, ActiveFinite, FounderAssumption DEF NoOversell, SeatsTaken

LEMMA OneMore ==
    ASSUME NEW S, NEW x, IsFiniteSet(S)
    PROVE  IsFiniteSet(S \cup {x}) /\ Cardinality(S \cup {x}) <= Cardinality(S) + 1
<1>1. Cardinality(S) \in Nat
  BY FS_CardinalityType
<1>2. /\ IsFiniteSet(S \cup {x})
      /\ x \in S => Cardinality(S \cup {x}) = Cardinality(S)
      /\ x \notin S => Cardinality(S \cup {x}) = Cardinality(S) + 1
  BY FS_AddElement
<1> QED
  BY <1>1, <1>2

LEMMA ReserveFits ==
    ASSUME TypeOK, FreshDates, NEW p \in Procs, ReserveGranted(p)
    PROVE  NoOversell'
<1> DEFINE c == pc[p].c
           others == Live(now) \ ReservationsOf(CustomerOf[c])
<1>1. /\ c \in Checkouts
      /\ \A d \in Checkouts :
            expiresAt'[d] = IF d = c THEN pc[p].at + Ttl
                            ELSE IF CustomerOf[d] = CustomerOf[c] THEN 0
                            ELSE expiresAt[d]
  BY ReserveRow
<1>2. pc[p].at = now /\ now \in Nat
  BY DEF ReserveGranted, FreshDates, Waiting, TypeOK
<1>3. Cardinality(Taken) + Cardinality(others) < Seats
  BY <1>2 DEF ReserveGranted, Reserve, RoomToReserve
<1>4. UNCHANGED <<seat, now>>
  BY DEF ReserveGranted, Reserve
<1>5. Live(now)' \subseteq others \cup {c} /\ Taken' = Taken
  BY <1>1, <1>2, <1>4, FounderAssumption DEF Live, Reservations, ReservationsOf, Taken
<1> HIDE DEF others
<1>6. IsFiniteSet(others)
  BY ActiveFinite, FS_Subset DEF others
<1>7. IsFiniteSet(others \cup {c}) /\ Cardinality(others \cup {c}) <= Cardinality(others) + 1
  BY <1>6, OneMore
<1>8. IsFiniteSet(Live(now)') /\ Cardinality(Live(now)') <= Cardinality(others \cup {c})
  BY <1>5, <1>7, FS_Subset
<1>9. /\ Cardinality(others) \in Nat /\ Cardinality(others \cup {c}) \in Nat
      /\ Cardinality(Live(now)') \in Nat /\ Cardinality(Taken) \in Nat
  BY <1>6, <1>7, <1>8, FS_CardinalityType, ActiveFinite
<1>10. SeatsTaken(now)' = Cardinality(Taken') + Cardinality(Live(now)')
  BY DEF SeatsTaken
<1> QED
  BY <1>3, <1>5, <1>7, <1>8, <1>9, <1>10, FounderAssumption DEF NoOversell

LEMMA ClaimFits ==
    ASSUME TypeOK, FreshDates, NoOversell, NEW p \in Procs, ClaimTaken(p)
    PROVE  NoOversell'
<1> DEFINE u == CustomerOf[pc[p].c]
           old == Live(now) \cap ReservationsOf(u)
<1>1. old # {} \/ SeatsTaken(now) < Seats
  BY DEF ClaimTaken, ClaimSeat, MayClaim, FreshDates, Waiting
<1>2. UNCHANGED now /\ expiresAt' = WithoutReservationsOf(u) /\ u \in Users
  BY ClaimRow, FounderAssumption DEF ClaimTaken, ClaimSeat
<1>3. Live(now)' = Live(now) \ old
  BY <1>2, LiveWithout
<1>4. Taken' \subseteq Taken \cup {NextNumber}
  BY ClaimRow DEF Taken, TypeOK
<1> HIDE DEF old
<1>5. IsFiniteSet(Taken \cup {NextNumber})
      /\ Cardinality(Taken \cup {NextNumber}) <= Cardinality(Taken) + 1
  BY ActiveFinite, OneMore
<1>6. IsFiniteSet(Taken') /\ Cardinality(Taken') <= Cardinality(Taken \cup {NextNumber})
  BY <1>4, <1>5, FS_Subset
<1>7. IsFiniteSet(Live(now)') /\ Cardinality(Live(now)') <= Cardinality(Live(now))
  BY <1>3, ActiveFinite, FS_Subset
<1>8. /\ Cardinality(Taken') \in Nat /\ Cardinality(Taken \cup {NextNumber}) \in Nat
      /\ Cardinality(Live(now)') \in Nat
  BY <1>5, <1>6, <1>7, FS_CardinalityType
<1>9. ASSUME old # {}
      PROVE  Cardinality(Live(now)') < Cardinality(Live(now))
  <2>1. Live(now)' # Live(now) /\ Live(now)' \subseteq Live(now)
    BY <1>3, <1>9 DEF old
  <2> QED
    BY <2>1, ActiveFinite, FS_Subset, <1>7, <1>8
<1>10. SeatsTaken(now)' = Cardinality(Taken') + Cardinality(Live(now)')
  BY DEF SeatsTaken
<1> QED
  BY <1>1, <1>5, <1>6, <1>7, <1>8, <1>9, <1>10, ActiveFinite, FounderAssumption
  DEF NoOversell, SeatsTaken

\* With one job at a time, and dates that are current when the lock is granted,
\* seats taken and reservations still running never exceed the offer: a seat
\* refunded is not taken again by an end of subscription handled beside it.
THEOREM NeverOversold ==
    ASSUME OneWorker, ~LockWait
    PROVE  Spec => []NoOversell
<1> DEFINE Inv == TypeOK /\ WritesIssued /\ NumbersDense /\ WorkerInv /\ FreshDates
<1>1. Init => FreshDates
  BY DEF Init, FreshDates, Idle, Waiting
<1>2. TypeOK /\ WritesIssued /\ FreshDates /\ [Next]_vars => FreshDates'
  BY FreshDatesStep
<1>3. Init => NoOversell
  <2> SUFFICES ASSUME Init PROVE NoOversell
    OBVIOUS
  <2>1. Taken = {} /\ Live(now) = {}
    BY DEF Init, TablesInit, NoSeat, Taken, Live, Reservations
  <2> QED
    BY <2>1, FS_EmptySet, FounderAssumption DEF NoOversell, SeatsTaken
<1>4. Inv /\ NoOversell /\ [Next]_vars => NoOversell'
  <2> SUFFICES ASSUME Inv, NoOversell, [Next]_vars PROVE NoOversell'
    OBVIOUS
  <2>1. CASE \E p \in Procs : ReserveGranted(p)
    BY <2>1, ReserveFits
  <2>2. CASE \E p \in Procs : ClaimTaken(p)
    BY <2>2, ClaimFits
  <2>3. CASE \A p \in Procs : ~ReserveGranted(p) /\ ~ClaimTaken(p)
    BY <2>3, LiveShrinks, TakenShrinks, FewerFit
  <2> QED
    BY <2>1, <2>2, <2>3
<1> QED
  BY <1>1, <1>2, <1>3, <1>4, WorkerAlways, PTL DEF Spec
=============================================================================
