----------------------------- MODULE SeatLedger -----------------------------
(***************************************************************************)
(* What the founder offer promises, without tables, locks or processes: a  *)
(* place is held for a checkout only while there is room, a subscription   *)
(* at the founder price starts on a held place or in free room, and the    *)
(* numbers it is given only go up.  FounderSeats implements this.          *)
(***************************************************************************)
EXTENDS Integers, FiniteSetTheorems, TLAPS

CONSTANTS
    Checkouts,      \* who may hold a place
    Seats           \* places on sale

VARIABLES
    active,         \* numbers of the running founder subscriptions
    held,           \* checkouts that hold a place
    issued          \* last number handed out

ledgerVars == <<active, held, issued>>

Occupied == Cardinality(active) + Cardinality(held)

Init ==
    /\ active = {}
    /\ held = {}
    /\ issued = 0

\* A checkout takes a place, instead of the places `old' its account held.
Hold(c, old) ==
    /\ Cardinality(active) + Cardinality(held \ old) < Seats
    /\ held' = (held \ old) \cup {c}
    /\ UNCHANGED <<active, issued>>

\* Places are given back: expiry, abandon, deleted account.
Drop(old) ==
    /\ held' = held \ old
    /\ UNCHANGED <<active, issued>>

\* A subscription starts.
Take(old) ==
    /\ old # {} \/ Occupied < Seats
    /\ issued' = issued + 1
    /\ active' = active \cup {issued + 1}
    /\ held' = held \ old

\* A subscription ends, whatever becomes of its place.
End(n) ==
    /\ active' = active \ {n}
    /\ UNCHANGED <<held, issued>>

Next ==
    \/ \E old \in SUBSET held :
          Drop(old) \/ Take(old) \/ \E c \in Checkouts : Hold(c, old)
    \/ \E n \in active : End(n)

Spec == Init /\ [][Next]_ledgerVars

-----------------------------------------------------------------------------
LedgerTypeOK ==
    /\ active \subseteq 1 .. issued
    /\ held \subseteq Checkouts
    /\ issued \in Nat

\* Never more places occupied than on sale.
WithinOffer == Occupied <= Seats

-----------------------------------------------------------------------------
\* A place is held or taken only when reserve() and claimSeat() find room, and
\* each subscription takes over a held place or a free one: so the places
\* occupied never exceed the places on sale.
THEOREM LedgerWithinOffer ==
    ASSUME IsFiniteSet(Checkouts), Seats \in Nat
    PROVE  Spec => [](LedgerTypeOK /\ WithinOffer)
<1>1. Init => LedgerTypeOK /\ WithinOffer
  BY FS_EmptySet DEF Init, LedgerTypeOK, WithinOffer, Occupied
<1>2. LedgerTypeOK /\ WithinOffer /\ [Next]_ledgerVars => (LedgerTypeOK /\ WithinOffer)'
  <2> SUFFICES ASSUME LedgerTypeOK, WithinOffer, [Next]_ledgerVars
               PROVE  LedgerTypeOK' /\ WithinOffer'
    OBVIOUS
  <2>1. /\ IsFiniteSet(active) /\ IsFiniteSet(held)
        /\ Cardinality(active) \in Nat /\ Cardinality(held) \in Nat
    <3>1. IsFiniteSet(1 .. issued)
      BY FS_Interval DEF LedgerTypeOK
    <3>2. IsFiniteSet(active) /\ IsFiniteSet(held)
      BY <3>1, FS_Subset DEF LedgerTypeOK
    <3> QED
      BY <3>2, FS_CardinalityType
  <2>2. ASSUME NEW old \in SUBSET held
        PROVE  /\ IsFiniteSet(held \ old)
               /\ Cardinality(held \ old) \in Nat
               /\ Cardinality(held \ old) <= Cardinality(held)
               /\ old # {} => Cardinality(held \ old) < Cardinality(held)
    <3>1. /\ IsFiniteSet(held \ old)
          /\ Cardinality(held \ old) \in Nat
          /\ Cardinality(held \ old) <= Cardinality(held)
      BY <2>1, FS_Subset, FS_CardinalityType
    <3>2. ASSUME Cardinality(held \ old) = Cardinality(held), old # {}
          PROVE  FALSE
      <4>1. held \ old = held
        BY <2>1, <3>2, FS_Subset
      <4> QED
        BY <3>2, <4>1
    <3> QED
      BY <2>1, <3>1, <3>2
  <2>3. ASSUME NEW old \in SUBSET held, NEW c \in Checkouts, Hold(c, old)
        PROVE  LedgerTypeOK' /\ WithinOffer'
    <3>1. Cardinality((held \ old) \cup {c}) <= Cardinality(held \ old) + 1
      <4> DEFINE rest == held \ old
      <4>1. IsFiniteSet(rest) /\ Cardinality(rest) \in Nat
        BY <2>2
      <4> HIDE DEF rest
      <4>2. Cardinality(rest \cup {c}) = IF c \in rest THEN Cardinality(rest)
                                                     ELSE Cardinality(rest) + 1
        BY <4>1, FS_AddElement
      <4>3. Cardinality(rest \cup {c}) <= Cardinality(rest) + 1
        BY <4>1, <4>2
      <4> QED
        BY <4>3 DEF rest
    <3>2. IsFiniteSet((held \ old) \cup {c}) /\ Cardinality((held \ old) \cup {c}) \in Nat
      BY <2>2, FS_AddElement, FS_CardinalityType
    <3> QED
      BY <2>1, <2>2, <2>3, <3>1, <3>2 DEF Hold, LedgerTypeOK, WithinOffer, Occupied
  <2>4. ASSUME NEW old \in SUBSET held, Drop(old)
        PROVE  LedgerTypeOK' /\ WithinOffer'
    BY <2>1, <2>2, <2>4 DEF Drop, LedgerTypeOK, WithinOffer, Occupied
  <2>5. ASSUME NEW old \in SUBSET held, Take(old)
        PROVE  LedgerTypeOK' /\ WithinOffer'
    <3>1. issued + 1 \notin active
      BY DEF LedgerTypeOK
    <3>2. Cardinality(active \cup {issued + 1}) = Cardinality(active) + 1
      BY <2>1, <3>1, FS_AddElement
    <3>3. active' \subseteq 1 .. issued'
      BY <2>5 DEF Take, LedgerTypeOK
    <3> QED
      BY <2>1, <2>2, <2>5, <3>2, <3>3 DEF Take, LedgerTypeOK, WithinOffer, Occupied
  <2>6. ASSUME NEW n \in active, End(n)
        PROVE  LedgerTypeOK' /\ WithinOffer'
    <3>1. Cardinality(active \ {n}) \in Nat /\ Cardinality(active \ {n}) <= Cardinality(active)
      BY <2>1, FS_Subset, FS_CardinalityType
    <3> QED
      BY <2>1, <2>6, <3>1 DEF End, LedgerTypeOK, WithinOffer, Occupied
  <2>7. CASE UNCHANGED ledgerVars
    BY <2>7 DEF ledgerVars, LedgerTypeOK, WithinOffer, Occupied
  <2> QED
    BY <2>3, <2>4, <2>5, <2>6, <2>7 DEF Next
<1> QED
  BY <1>1, <1>2, PTL DEF Spec
=============================================================================
