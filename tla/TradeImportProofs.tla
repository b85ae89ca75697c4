-------------------------- MODULE TradeImportProofs --------------------------
(* Theorems about TradeImport, for any fills, contracts, batches, imports,  *)
(* trades of the user and bounds.                                           *)
EXTENDS TradeImport, FiniteSetTheorems, SequenceTheorems, WellFoundedInduction, TLAPS

Max0(n) == IF n > 0 THEN n ELSE 0

(* Induction, from the well-foundedness of the natural numbers.             *)

LEMMA Induction ==
  ASSUME NEW S, 0 \in S, \A n \in Nat : n \in S => n + 1 \in S
  PROVE  Nat \subseteq S
<1>1. SUFFICES ASSUME Nat \ S # {} PROVE FALSE
  OBVIOUS
<1> DEFINE T == Nat \ S
<1>2. T \subseteq Nat /\ T # {}
  BY <1>1
<1> HIDE DEF T
<1>3. PICK x \in T : \A y \in T : ~ (<<y, x>> \in OpToRel(<, Nat))
  BY <1>2, NatLessThanWellFounded, WFMin
<1>4. x \in Nat /\ x # 0 /\ x \notin S
  BY DEF T
<1>5. x - 1 \in Nat /\ x - 1 \in S
  <2>1. x - 1 \in Nat /\ x - 1 < x
    BY <1>4
  <2>2. <<x - 1, x>> \in OpToRel(<, Nat)
    BY <2>1, <1>4 DEF OpToRel
  <2> QED
    BY <1>3, <2>1, <2>2 DEF T
<1> QED
  BY <1>4, <1>5

LEMMA Least ==
  ASSUME NEW S \in SUBSET Nat, S # {}
  PROVE  \E m \in S : \A n \in S : m <= n
<1>1. PICK m \in S : \A n \in S : ~ (<<n, m>> \in OpToRel(<, Nat))
  BY NatLessThanWellFounded, WFMin
<1>2. \A n \in S : ~ n < m
  <2> SUFFICES ASSUME NEW n \in S, n < m PROVE FALSE
    OBVIOUS
  <2>1. <<n, m>> \in OpToRel(<, Nat)
    BY DEF OpToRel
  <2> QED
    BY <2>1, <1>1
<1> QED
  BY <1>2

------------------------------------------------------------------------------
(* The decisions of an import.                                              *)

\* What Decisions starts from, and what its first i rows make of it.
Before ==
    [pool |-> [k \in Key |-> TradesAt(k)], rank |-> [k \in Key |-> 0], hashes |-> <<>>]
Passes(b, i, g) ==
    g = [j \in 0 .. i |-> IF j = 0 THEN Before ELSE ReadRow(g[j - 1], b[j])]

\* The recursion has a solution up to any row.
LEMMA PassesExist ==
  ASSUME NEW b, NEW n \in Nat
  PROVE  \E g : Passes(b, n, g)
<1> DEFINE S == {i \in Nat : \E g : Passes(b, i, g)}
<1>1. 0 \in S
  <2> DEFINE g == [j \in 0 .. 0 |-> Before]
  <2>1. Passes(b, 0, g)
    BY DEF Passes
  <2> QED
    BY <2>1
<1>2. ASSUME NEW i \in Nat, i \in S PROVE i + 1 \in S
  <2>1. PICK g : Passes(b, i, g)
    BY <1>2
  <2> DEFINE h == [j \in 0 .. (i + 1) |-> IF j = i + 1 THEN ReadRow(g[i], b[i + 1]) ELSE g[j]]
  <2>2. \A j \in 0 .. (i + 1) : h[j] = IF j = 0 THEN Before ELSE ReadRow(h[j - 1], b[j])
    <3> TAKE j \in 0 .. (i + 1)
    <3>1. CASE j = i + 1
      <4>1. h[j] = ReadRow(g[i], b[i + 1]) /\ h[j - 1] = g[i] /\ j # 0
        BY <3>1
      <4> QED
        BY <4>1, <3>1
    <3>2. CASE j # i + 1
      <4>1. j \in 0 .. i
        BY <3>2
      <4>2. g[j] = IF j = 0 THEN Before ELSE ReadRow(g[j - 1], b[j])
        <5> HIDE DEF h
        <5> DEFINE e(x) == IF x = 0 THEN Before ELSE ReadRow(g[x - 1], b[x])
        <5>1. g = [x \in 0 .. i |-> e(x)]
          BY <2>1 DEF Passes
        <5> HIDE DEF e
        <5>2. g[j] = e(j)
          BY <5>1, <4>1
        <5> QED
          BY <5>2 DEF e
      <4>3. h[j] = g[j] /\ (j # 0 => h[j - 1] = g[j - 1])
        BY <3>2, <4>1
      <4> QED
        BY <4>2, <4>3
    <3> QED
      BY <3>1, <3>2
  <2>3. Passes(b, i + 1, h)
    <3> DEFINE e(x) == IF x = 0 THEN Before ELSE ReadRow(h[x - 1], b[x])
    <3>1. DOMAIN h = 0 .. (i + 1) /\ h = [x \in 0 .. (i + 1) |-> h[x]]
      OBVIOUS
    <3> HIDE DEF h
    <3>2. \A j \in 0 .. (i + 1) : h[j] = e(j)
      BY <2>2
    <3> HIDE DEF e
    <3>3. h = [x \in 0 .. (i + 1) |-> e(x)]
      BY <3>1, <3>2
    <3> QED
      BY <3>3 DEF Passes, e
  <2> QED
    BY <2>3
<1> HIDE DEF S
<1>3. Nat \subseteq S
  BY <1>1, <1>2, Induction
<1> QED
  BY <1>3 DEF S

\* So Decisions is what it says: row by row.
LEMMA DecisionsDef ==
  ASSUME NEW b, Len(b) \in Nat
  PROVE  /\ Decisions(b)[0] = Before
         /\ \A i \in 1 .. Len(b) : Decisions(b)[i] = ReadRow(Decisions(b)[i - 1], b[i])
<1>1. Decisions(b) = CHOOSE g : Passes(b, Len(b), g)
  BY DEF Decisions, Passes, Before
<1>2. Passes(b, Len(b), Decisions(b))
  BY <1>1, PassesExist
<1> DEFINE g == Decisions(b)
           e(x) == IF x = 0 THEN Before ELSE ReadRow(g[x - 1], b[x])
<1> HIDE DEF g
<1>3. g = [x \in 0 .. Len(b) |-> e(x)]
  BY <1>2 DEF Passes, g
<1> HIDE DEF e
<1>4. \A x \in 0 .. Len(b) : g[x] = e(x)
  BY <1>3
<1>5. g[0] = Before
  BY <1>4 DEF e
<1>6. \A i \in 1 .. Len(b) : g[i] = ReadRow(g[i - 1], b[i])
  BY <1>4 DEF e
<1> QED
  BY <1>5, <1>6 DEF g

\* The same fill in the other dating, and the rows that are k among the first i.
Twin(k) == [k EXCEPT !.dated = IF k.dated = "local" THEN "utc" ELSE "local"]
RowsTo(b, i, k) == Cardinality({j \in 1 .. i : b[j] = k})

Sources == {"local", "utc"}
KeysOf(d) == {k \in Key : k.dated = d}

LEMMA TwinKey ==
  ASSUME NEW d \in Sources, NEW k \in KeysOf(d)
  PROVE  /\ Twin(k) \in Key /\ Twin(k).fill = k.fill /\ Twin(k).dated \in Sources
         /\ Twin(k).dated # d /\ k \in Key /\ k # Twin(k)
         /\ \A l \in KeysOf(d) : Twin(l) = Twin(k) => l = k
BY DEF KeysOf, Key, Twin, Sources

\* At most one trade of the table is taken for k: its twin.
LEMMA OtherIsTwin ==
  ASSUME NEW d \in Sources, NEW k \in KeysOf(d), NEW pool \in [Key -> Nat]
  PROVE  OtherDating(pool, k) = IF pool[Twin(k)] > 0 THEN {Twin(k)} ELSE {}
<1>1. ASSUME NEW j \in Key
      PROVE  (j.fill = k.fill /\ {j.dated, k.dated} = {"local", "utc"}) <=> j = Twin(k)
  <2>1. k.dated = d /\ k \in Key
    BY DEF KeysOf
  <2>2. {j.dated, k.dated} = {"local", "utc"} <=> j.dated = (IF d = "local" THEN "utc" ELSE "local")
    BY <2>1 DEF Sources
  <2>3. j = [fill |-> j.fill, dated |-> j.dated] /\ k = [fill |-> k.fill, dated |-> k.dated]
    BY <2>1 DEF Key
  <2>4. Twin(k) = [fill |-> k.fill, dated |-> IF d = "local" THEN "utc" ELSE "local"]
    BY <2>1, <2>3 DEF Twin, Key
  <2> QED
    BY <2>2, <2>3, <2>4
<1>2. Twin(k) \in Key
  BY TwinKey
<1> QED
  BY <1>1, <1>2 DEF OtherDating

LEMMA CountRows ==
  ASSUME NEW b, NEW i \in Nat, NEW k
  PROVE  /\ RowsTo(b, 0, k) = 0
         /\ RowsTo(b, i, k) \in Nat
         /\ RowsTo(b, i + 1, k) = RowsTo(b, i, k) + IF b[i + 1] = k THEN 1 ELSE 0
<1> DEFINE R(n) == {j \in 1 .. n : b[j] = k}
<1>1. IsFiniteSet(R(i))
  <2>1. IsFiniteSet(1 .. i) /\ R(i) \in SUBSET (1 .. i)
    BY FS_Interval
  <2> HIDE DEF R
  <2> QED
    BY <2>1, FS_Subset
<1>2. Cardinality(R(0)) = 0
  BY FS_EmptySet
<1>3. R(i + 1) = IF b[i + 1] = k THEN R(i) \cup {i + 1} ELSE R(i)
  OBVIOUS
<1>4. i + 1 \notin R(i)
  OBVIOUS
<1>5. Cardinality(R(i + 1)) = Cardinality(R(i)) + IF b[i + 1] = k THEN 1 ELSE 0
  <2> HIDE DEF R
  <2>1. CASE b[i + 1] = k
    BY <2>1, <1>1, <1>3, <1>4, FS_AddElement
  <2>2. CASE b[i + 1] # k
    BY <2>2, <1>1, <1>3, FS_CardinalityType
  <2> QED
    BY <2>1, <2>2
<1>6. Cardinality(R(i)) \in Nat
  BY <1>1, FS_CardinalityType
<1> QED
  BY <1>2, <1>5, <1>6 DEF RowsTo

\* After i rows of dating d.  Of each key the table has so many in the other
\* dating: as many rows are taken from the pool, the others are ranked; of the
\* ranks, those the table does not reach are to be created, once each.
Pooled(b, d, i, acc) ==
    \A k \in KeysOf(d) :
        /\ acc.pool[Twin(k)] = Max0(TradesAt(Twin(k)) - RowsTo(b, i, k))
        /\ acc.rank[k] = Max0(RowsTo(b, i, k) - TradesAt(Twin(k)))
Hashed(d, acc) ==
    /\ \A j \in DOMAIN acc.hashes :
        /\ acc.hashes[j].key \in KeysOf(d)
        /\ TradesAt(acc.hashes[j].key) < acc.hashes[j].n
        /\ acc.hashes[j].n <= acc.rank[acc.hashes[j].key]
    /\ \A k \in KeysOf(d), n \in Nat :
        TradesAt(k) < n /\ n <= acc.rank[k] =>
            \E j \in DOMAIN acc.hashes : acc.hashes[j] = [key |-> k, n |-> n]
    /\ \A i, j \in DOMAIN acc.hashes : acc.hashes[i] = acc.hashes[j] => i = j
AccType(acc) ==
    acc \in [pool : [Key -> Nat], rank : [Key -> Nat], hashes : Seq(Hash)]
Closed(b, d, i, acc) == AccType(acc) /\ Pooled(b, d, i, acc) /\ Hashed(d, acc)

Counted == \A k \in Key : TradesAt(k) \in Nat

LEMMA ClosedBefore ==
  ASSUME Counted, NEW b, NEW d \in Sources
  PROVE  Closed(b, d, 0, Before)
<1>1. \A k \in KeysOf(d) : RowsTo(b, 0, k) = 0 /\ k \in Key /\ Twin(k) \in Key
  BY CountRows, TwinKey
<1>2. AccType(Before)
  BY DEF AccType, Before, Counted
<1>3. Pooled(b, d, 0, Before)
  BY <1>1 DEF Pooled, Before, Counted, Max0
<1>4. Hashed(d, Before)
  BY DEF Hashed, Before, Counted, KeysOf
<1> QED
  BY <1>2, <1>3, <1>4 DEF Closed

\* A row taken from the pool.
LEMMA ClosedPool ==
  ASSUME Counted, NEW b, NEW d \in Sources, NEW i \in Nat, NEW acc,
         Closed(b, d, i, acc), b[i + 1] \in KeysOf(d), acc.pool[Twin(b[i + 1])] > 0
  PROVE  Closed(b, d, i + 1, ReadRow(acc, b[i + 1]))
<1> DEFINE k == b[i + 1]
           new == ReadRow(acc, k)
<1>1. AccType(acc) /\ Pooled(b, d, i, acc) /\ Hashed(d, acc)
  BY DEF Closed
<1>2. k \in KeysOf(d) /\ k \in Key /\ Twin(k) \in Key
  BY TwinKey
<1>3. new = [acc EXCEPT !.pool[Twin(k)] = @ - 1]
  <2>1. acc.pool \in [Key -> Nat]
    BY <1>1 DEF AccType
  <2>2. OtherDating(acc.pool, k) = {Twin(k)}
    BY <1>2, <2>1, OtherIsTwin
  <2> QED
    BY <2>2 DEF ReadRow
<1>4. /\ new.rank = acc.rank /\ new.hashes = acc.hashes
      /\ new.pool = [acc.pool EXCEPT ![Twin(k)] = @ - 1]
      /\ AccType(new)
  <2>1. /\ acc = [pool |-> acc.pool, rank |-> acc.rank, hashes |-> acc.hashes]
        /\ acc.pool \in [Key -> Nat] /\ acc.rank \in [Key -> Nat] /\ acc.hashes \in Seq(Hash)
    BY <1>1 DEF AccType
  <2> DEFINE pool == [acc.pool EXCEPT ![Twin(k)] = @ - 1]
  <2>2. pool \in [Key -> Nat]
    <3>1. acc.pool[Twin(k)] - 1 \in Nat
      BY <2>1, <1>2
    <3> QED
      BY <3>1, <2>1
  <2>3. new = [pool |-> pool, rank |-> acc.rank, hashes |-> acc.hashes]
    BY <1>3, <2>1
  <2> HIDE DEF new, pool
  <2>4. AccType(new)
    BY <2>1, <2>2, <2>3 DEF AccType
  <2> QED
    BY <2>3, <2>4 DEF pool
<1> HIDE DEF new
<1>5. Hashed(d, new)
  BY <1>1, <1>4 DEF Hashed
<1>6. Pooled(b, d, i + 1, new)
  <2> SUFFICES ASSUME NEW l \in KeysOf(d)
               PROVE  /\ new.pool[Twin(l)] = Max0(TradesAt(Twin(l)) - RowsTo(b, i + 1, l))
                      /\ new.rank[l] = Max0(RowsTo(b, i + 1, l) - TradesAt(Twin(l)))
    BY DEF Pooled
  <2>1. /\ acc.pool[Twin(l)] = Max0(TradesAt(Twin(l)) - RowsTo(b, i, l))
        /\ acc.rank[l] = Max0(RowsTo(b, i, l) - TradesAt(Twin(l)))
    BY <1>1 DEF Pooled
  <2>2. /\ RowsTo(b, i, l) \in Nat
        /\ RowsTo(b, i + 1, l) = RowsTo(b, i, l) + IF b[i + 1] = l THEN 1 ELSE 0
    <3>1. i \in Nat
      OBVIOUS
    <3> HIDE DEF k
    <3>2. RowsTo(b, i, l) \in Nat
      BY CountRows, <3>1
    <3>3. RowsTo(b, i + 1, l) = RowsTo(b, i, l) + IF b[i + 1] = l THEN 1 ELSE 0
      BY CountRows, <3>1
    <3> QED
      BY <3>2, <3>3
  <2>3. TradesAt(Twin(l)) \in Nat /\ Twin(l) \in Key
    BY TwinKey DEF Counted
  <2>4. CASE l = k
    <3>1. new.pool[Twin(l)] = acc.pool[Twin(l)] - 1 /\ acc.pool[Twin(l)] > 0
      BY <2>4, <1>4, <1>2, <1>1 DEF AccType
    <3> QED
      BY <3>1, <2>4, <1>4, <2>1, <2>2, <2>3 DEF Max0
  <2>5. CASE l # k
    <3>1. Twin(l) # Twin(k)
      BY <2>5, <1>2, TwinKey
    <3>2. new.pool[Twin(l)] = acc.pool[Twin(l)]
      BY <3>1, <1>4, <1>2, <1>1, <2>3 DEF AccType
    <3> QED
      BY <3>2, <2>5, <1>4, <2>1, <2>2
  <2> QED
    BY <2>4, <2>5
<1> QED
  BY <1>4, <1>5, <1>6 DEF Closed, new

\* A row that is ranked, and created when the table does not reach its rank.
LEMMA ClosedRank ==
  ASSUME Counted, NEW b, NEW d \in Sources, NEW i \in Nat, NEW acc,
         Closed(b, d, i, acc), b[i + 1] \in KeysOf(d), ~ acc.pool[Twin(b[i + 1])] > 0
  PROVE  Closed(b, d, i + 1, ReadRow(acc, b[i + 1]))
<1> DEFINE k == b[i + 1]
           n == acc.rank[k] + 1
           h == [key |-> k, n |-> n]
           new == ReadRow(acc, k)
<1>1. AccType(acc) /\ Pooled(b, d, i, acc) /\ Hashed(d, acc)
  BY DEF Closed
<1>2. k \in KeysOf(d) /\ k \in Key /\ Twin(k) \in Key
  BY TwinKey
<1>3. TradesAt(k) \in Nat /\ acc.rank[k] \in Nat /\ n \in Nat \ {0} /\ h \in Hash
  BY <1>1, <1>2 DEF AccType, Counted, Hash
<1>4. new = [acc EXCEPT !.rank[k] = n,
                !.hashes = IF n <= TradesAt(k) THEN @ ELSE Append(@, h)]
  <2>1. acc.pool \in [Key -> Nat]
    BY <1>1 DEF AccType
  <2>2. OtherDating(acc.pool, k) = {}
    BY <1>2, <2>1, OtherIsTwin
  <2> QED
    BY <2>2 DEF ReadRow
<1>5. /\ new.pool = acc.pool
      /\ new.rank = [acc.rank EXCEPT ![k] = n]
      /\ new.hashes = IF n <= TradesAt(k) THEN acc.hashes ELSE Append(acc.hashes, h)
      /\ acc.hashes \in Seq(Hash)
  BY <1>1, <1>4 DEF AccType
<1>6. AccType(new)
  <2>1. new.hashes \in Seq(Hash)
    BY <1>5, <1>3
  <2>2. new.rank \in [Key -> Nat]
    BY <1>1, <1>3, <1>5 DEF AccType
  <2>3. new = [pool |-> new.pool, rank |-> new.rank, hashes |-> new.hashes]
    BY <1>1, <1>4 DEF AccType
  <2> HIDE DEF new
  <2> QED
    BY <1>1, <1>5, <2>1, <2>2, <2>3 DEF AccType
<1> HIDE DEF new
<1>7. Pooled(b, d, i + 1, new)
  <2> SUFFICES ASSUME NEW l \in KeysOf(d)
               PROVE  /\ new.pool[Twin(l)] = Max0(TradesAt(Twin(l)) - RowsTo(b, i + 1, l))
                      /\ new.rank[l] = Max0(RowsTo(b, i + 1, l) - TradesAt(Twin(l)))
    BY DEF Pooled
  <2>1. /\ acc.pool[Twin(l)] = Max0(TradesAt(Twin(l)) - RowsTo(b, i, l))
        /\ acc.rank[l] = Max0(RowsTo(b, i, l) - TradesAt(Twin(l)))
    BY <1>1 DEF Pooled
  <2>2. /\ RowsTo(b, i, l) \in Nat
        /\ RowsTo(b, i + 1, l) = RowsTo(b, i, l) + IF b[i + 1] = l THEN 1 ELSE 0
    <3>1. i \in Nat
      OBVIOUS
    <3> HIDE DEF k
    <3>2. RowsTo(b, i, l) \in Nat
      BY CountRows, <3>1
    <3>3. RowsTo(b, i + 1, l) = RowsTo(b, i, l) + IF b[i + 1] = l THEN 1 ELSE 0
      BY CountRows, <3>1
    <3> QED
      BY <3>2, <3>3
  <2>3. TradesAt(Twin(l)) \in Nat /\ Twin(l) \in Key /\ l \in Key
    BY TwinKey DEF Counted
  <2>4. CASE l = k
    <3>1. new.rank[l] = acc.rank[l] + 1 /\ acc.pool[Twin(l)] = 0
      BY <2>4, <1>5, <2>3, <1>1 DEF AccType
    <3> QED
      BY <3>1, <2>4, <1>5, <2>1, <2>2, <2>3 DEF Max0
  <2>5. CASE l # k
    BY <2>5, <1>5, <1>1, <2>1, <2>2, <2>3 DEF AccType
  <2> QED
    BY <2>4, <2>5
<1>8. \A l \in KeysOf(d) : new.rank[l] = IF l = k THEN n ELSE acc.rank[l]
  BY <1>5, <1>1 DEF AccType, KeysOf
<1>9. Hashed(d, new)
  <2>1. CASE n <= TradesAt(k)
    <3>1. new.hashes = acc.hashes
      BY <2>1, <1>5
    <3>2. ASSUME NEW l \in KeysOf(d), NEW m \in Nat, TradesAt(l) < m, m <= new.rank[l]
          PROVE  m <= acc.rank[l]
      <4>1. CASE l = k
        BY <4>1, <3>2, <2>1, <1>3, <1>8
      <4>2. CASE l # k
        BY <4>2, <3>2, <1>8
      <4> QED
        BY <4>1, <4>2
    <3>3. \A l \in KeysOf(d) : acc.rank[l] \in Nat /\ acc.rank[l] <= new.rank[l]
      <4>1. \A l \in KeysOf(d) : acc.rank[l] \in Nat
        BY <1>1 DEF AccType, KeysOf
      <4> QED
        BY <4>1, <1>8
    <3>4. \A j \in DOMAIN acc.hashes : acc.hashes[j] \in Hash
      BY <1>5
    <3> HIDE DEF k, n, h
    <3>5. ASSUME NEW j \in DOMAIN acc.hashes
          PROVE  /\ acc.hashes[j].key \in KeysOf(d)
                 /\ TradesAt(acc.hashes[j].key) < acc.hashes[j].n
                 /\ acc.hashes[j].n <= new.rank[acc.hashes[j].key]
      <4>1. acc.hashes[j].key \in KeysOf(d) /\ acc.hashes[j].n <= acc.rank[acc.hashes[j].key]
        BY <1>1 DEF Hashed
      <4>2. acc.hashes[j].n \in Nat
        BY <3>4 DEF Hash
      <4>3. new.rank[acc.hashes[j].key] \in Nat
        BY <4>1, <1>6 DEF AccType, KeysOf
      <4> QED
        BY <4>1, <4>2, <4>3, <3>3, <1>1 DEF Hashed
    <3> QED
      BY <3>1, <3>2, <3>5, <1>1 DEF Hashed
  <2>2. CASE ~ n <= TradesAt(k)
    <3>1. /\ new.hashes = Append(acc.hashes, h)
          /\ DOMAIN acc.hashes = 1 .. Len(acc.hashes) /\ Len(acc.hashes) \in Nat
          /\ DOMAIN new.hashes = 1 .. (Len(acc.hashes) + 1)
          /\ \A j \in DOMAIN acc.hashes : new.hashes[j] = acc.hashes[j]
          /\ new.hashes[Len(acc.hashes) + 1] = h
      BY <2>2, <1>5, <1>3
    <3>2. \A j \in DOMAIN acc.hashes : acc.hashes[j] # h
      BY <1>1, <1>3 DEF Hashed
    <3>3. \A j \in DOMAIN new.hashes :
              /\ new.hashes[j].key \in KeysOf(d)
              /\ TradesAt(new.hashes[j].key) < new.hashes[j].n
              /\ new.hashes[j].n <= new.rank[new.hashes[j].key]
      <4> TAKE j \in DOMAIN new.hashes
      <4>1. CASE j = Len(acc.hashes) + 1
        <5>1. new.hashes[j].key = k /\ new.hashes[j].n = n
          BY <4>1, <3>1
        <5> QED
          BY <5>1, <1>2, <1>8, <2>2, <1>3
      <4>2. CASE j # Len(acc.hashes) + 1
        <5>1. j \in DOMAIN acc.hashes
          BY <4>2, <3>1
        <5>2. new.hashes[j] = acc.hashes[j] /\ acc.hashes[j] \in Hash
          BY <5>1, <3>1, <1>5
        <5> QED
          BY <5>1, <5>2, <1>1, <1>8, <1>3 DEF Hashed, Hash
      <4> QED
        BY <4>1, <4>2
    <3>4. ASSUME NEW l \in KeysOf(d), NEW m \in Nat, TradesAt(l) < m, m <= new.rank[l]
          PROVE  \E j \in DOMAIN new.hashes : new.hashes[j] = [key |-> l, n |-> m]
      <4>1. CASE l = k /\ m = n
        <5>1. Len(acc.hashes) + 1 \in DOMAIN new.hashes
          BY <3>1
        <5> QED
          BY <5>1, <4>1, <3>1
      <4>2. CASE ~ (l = k /\ m = n)
        <5>1. m <= acc.rank[l]
          BY <4>2, <3>4, <1>8, <1>3
        <5>2. PICK j \in DOMAIN acc.hashes : acc.hashes[j] = [key |-> l, n |-> m]
          BY <5>1, <3>4, <1>1 DEF Hashed
        <5>3. j \in DOMAIN new.hashes /\ new.hashes[j] = acc.hashes[j]
          BY <3>1
        <5> QED
          BY <5>2, <5>3
      <4> QED
        BY <4>1, <4>2
    <3>5. \A j, m \in DOMAIN new.hashes : new.hashes[j] = new.hashes[m] => j = m
      BY <3>1, <3>2, <1>1 DEF Hashed
    <3> QED
      BY <3>3, <3>4, <3>5 DEF Hashed
  <2> QED
    BY <2>1, <2>2
<1> QED
  BY <1>6, <1>7, <1>9 DEF Closed, new

LEMMA ClosedStep ==
  ASSUME Counted, NEW b, NEW d \in Sources, NEW i \in Nat, NEW acc,
         Closed(b, d, i, acc), b[i + 1] \in KeysOf(d)
  PROVE  Closed(b, d, i + 1, ReadRow(acc, b[i + 1]))
BY ClosedPool, ClosedRank

LEMMA BatchShape ==
  ASSUME NEW b \in Batches
  PROVE  /\ b \in Seq(Key) /\ Len(b) \in Nat /\ b # <<>> /\ DOMAIN b = 1 .. Len(b)
         /\ \E d \in Sources : \A i \in 1 .. Len(b) : b[i] \in KeysOf(d)
         /\ \A k : RowsOf(b, k) = RowsTo(b, Len(b), k)
<1>1. b \in Seq(Key) /\ b # <<>> /\ Len(b) \in Nat /\ DOMAIN b = 1 .. Len(b)
  BY BatchesAssumption
<1>2. PICK d \in Sources : \A i \in DOMAIN b : b[i].dated = d
  BY BatchesAssumption DEF Sources
<1>3. \A i \in 1 .. Len(b) : b[i] \in KeysOf(d)
  BY <1>1, <1>2 DEF KeysOf
<1> QED
  BY <1>1, <1>3 DEF RowsOf, RowsTo

LEMMA DecisionsClosed ==
  ASSUME Counted, NEW b, Len(b) \in Nat, NEW d \in Sources,
         \A i \in 1 .. Len(b) : b[i] \in KeysOf(d)
  PROVE  Closed(b, d, Len(b), Decisions(b)[Len(b)])
<1> DEFINE S == {i \in Nat : i <= Len(b) => Closed(b, d, i, Decisions(b)[i])}
<1>1. 0 \in S
  BY ClosedBefore, DecisionsDef
<1>2. ASSUME NEW i \in Nat, i \in S PROVE i + 1 \in S
  <2> SUFFICES ASSUME i + 1 <= Len(b) PROVE Closed(b, d, i + 1, Decisions(b)[i + 1])
    OBVIOUS
  <2>1. Closed(b, d, i, Decisions(b)[i])
    BY <1>2
  <2>2. i + 1 \in 1 .. Len(b) /\ (i + 1) - 1 = i
    OBVIOUS
  <2>3. Decisions(b)[i + 1] = ReadRow(Decisions(b)[i], b[i + 1]) /\ b[i + 1] \in KeysOf(d)
    <3>1. Decisions(b)[i + 1] = ReadRow(Decisions(b)[(i + 1) - 1], b[i + 1])
      BY <2>2, DecisionsDef
    <3> QED
      BY <3>1, <2>2
  <2> QED
    BY <2>1, <2>3, ClosedStep
<1> HIDE DEF S
<1>3. Len(b) \in S
  BY <1>1, <1>2, Induction
<1> QED
  BY <1>3 DEF S

LEMMA MissingClosed ==
  ASSUME Counted, NEW b \in Batches
  PROVE  \E d \in Sources :
            /\ \A i \in 1 .. Len(b) : b[i] \in KeysOf(d)
            /\ Closed(b, d, Len(b), Decisions(b)[Len(b)])
<1>1. PICK d \in Sources : \A i \in 1 .. Len(b) : b[i] \in KeysOf(d)
  BY BatchShape
<1>2. Len(b) \in Nat
  BY BatchShape
<1> QED
  BY <1>1, <1>2, DecisionsClosed

\* Of a key of the batch, as many fingerprints as the table lacks trades, in
\* either dating; of other keys none.
LEMMA MissingCount ==
  ASSUME Counted, NEW b \in Batches, NEW k \in Range(b)
  PROVE  /\ Missing(b) \in Seq(Hash)
         /\ k \in Key /\ k.dated \in Sources /\ RowsOf(b, k) \in Nat
         /\ Cardinality({i \in DOMAIN Missing(b) : Missing(b)[i].key = k})
              = Max0(RowsOf(b, k) - (TradesAt(Twin(k)) + TradesAt(k)))
         /\ \A i \in DOMAIN Missing(b) : TradesAt(Missing(b)[i].key) < Missing(b)[i].n
         /\ \A i, j \in DOMAIN Missing(b) : Missing(b)[i] = Missing(b)[j] => i = j
<1>1. PICK d \in Sources : /\ \A i \in 1 .. Len(b) : b[i] \in KeysOf(d)
                           /\ Closed(b, d, Len(b), Decisions(b)[Len(b)])
  BY MissingClosed
<1> DEFINE acc == Decisions(b)[Len(b)]
           missing == Missing(b)
           t == TradesAt(k)
           r == acc.rank[k]
           I == {i \in DOMAIN missing : missing[i].key = k}
<1>2. missing = acc.hashes
  BY DEF Missing
<1> HIDE DEF acc, missing
<1>3. AccType(acc) /\ Pooled(b, d, Len(b), acc) /\ Hashed(d, acc)
  BY <1>1 DEF Closed, acc
<1>4. missing \in Seq(Hash)
  BY <1>2, <1>3 DEF AccType
<1>5. k \in KeysOf(d) /\ k \in Key /\ k.dated \in Sources
  BY <1>1, BatchShape DEF Range, KeysOf
<1>6. /\ RowsTo(b, Len(b), k) \in Nat /\ RowsOf(b, k) = RowsTo(b, Len(b), k)
      /\ TradesAt(Twin(k)) \in Nat /\ t \in Nat
  BY <1>5, BatchShape, CountRows, TwinKey DEF Counted
<1>7. r = Max0(RowsOf(b, k) - TradesAt(Twin(k))) /\ r \in Nat
  BY <1>3, <1>5, <1>6 DEF Pooled, Max0
<1>8. Cardinality(I) = Max0(r - t)
  <2> DEFINE f == [i \in I |-> missing[i].n]
             J == (t + 1) .. r
  <2>1. \A i \in I : missing[i] \in Hash /\ missing[i].key = k /\ missing[i].n \in J
    <3> TAKE i \in I
    <3>1. missing[i] \in Hash /\ missing[i].key = k
      BY <1>4
    <3>2. t < missing[i].n /\ missing[i].n <= r
      BY <1>2, <1>3, <3>1 DEF Hashed
    <3>3. missing[i].n \in Nat
      BY <3>1 DEF Hash
    <3> QED
      BY <3>1, <3>2, <3>3, <1>6, <1>7
  <2>2. \A n \in J : \E i \in I : missing[i].n = n
    <3> TAKE n \in J
    <3>1. n \in Nat /\ t < n /\ n <= r
      BY <1>6, <1>7
    <3>2. PICK i \in DOMAIN missing : missing[i] = [key |-> k, n |-> n]
      BY <1>2, <1>3, <1>5, <3>1 DEF Hashed
    <3>3. i \in I /\ missing[i].n = n
      BY <3>2
    <3> QED
      BY <3>3
  <2>3. \A i, j \in I : missing[i].n = missing[j].n => i = j
    <3> SUFFICES ASSUME NEW i \in I, NEW j \in I, missing[i].n = missing[j].n
                 PROVE  i = j
      OBVIOUS
    <3>1. missing[i] = missing[j]
      BY <2>1 DEF Hash
    <3> QED
      BY <3>1, <1>2, <1>3 DEF Hashed
  <2> HIDE DEF I, J, t, r
  <2>4. f \in Bijection(I, J)
    <3>1. f \in [I -> J]
      BY <2>1
    <3>2. \A i, j \in I : f[i] = f[j] => i = j
      BY <2>3
    <3>3. \A n \in J : \E i \in I : f[i] = n
      BY <2>2
    <3> HIDE DEF f
    <3> QED
      BY <3>1, <3>2, <3>3 DEF Bijection, Injection, Surjection, IsInjective
  <2>5. IsFiniteSet(J) /\ Cardinality(J) = Max0(r - t)
    <3>1. t + 1 \in Int /\ r \in Int /\ t \in Nat
      BY <1>6, <1>7
    <3>2. /\ IsFiniteSet((t + 1) .. r)
          /\ Cardinality((t + 1) .. r) = IF t + 1 > r THEN 0 ELSE r - (t + 1) + 1
      BY <3>1, FS_Interval
    <3> QED
      BY <3>1, <3>2 DEF J, Max0
  <2>6. IsFiniteSet(I)
    <3>1. I \in SUBSET (1 .. Len(missing)) /\ IsFiniteSet(1 .. Len(missing))
      BY <1>4, FS_Interval DEF I
    <3> QED
      BY <3>1, FS_Subset
  <2>7. ExistsBijection(I, J)
    BY <2>4 DEF ExistsBijection
  <2> QED
    BY <2>5, <2>6, <2>7, FS_Bijection
<1>9. Max0(r - t) = Max0(RowsOf(b, k) - (TradesAt(Twin(k)) + t))
  BY <1>6, <1>7 DEF Max0
<1>10. \A i \in DOMAIN missing : TradesAt(missing[i].key) < missing[i].n
  BY <1>2, <1>3 DEF Hashed
<1>11. \A i, j \in DOMAIN missing : missing[i] = missing[j] => i = j
  BY <1>2, <1>3 DEF Hashed
<1> QED
  BY <1>4, <1>5, <1>6, <1>8, <1>9, <1>10, <1>11 DEF missing

------------------------------------------------------------------------------
(* Types.                                                                   *)

\* The table: its ids, which are finitely many, and its rows.
TableOK ==
    /\ IsFiniteSet(Ids)
    /\ Ids \subseteq Hash \cup Own
    /\ trades \in [Ids -> [key : Key, older : SUBSET Ids]]
    /\ \A i \in Ids \ Own : trades[i].key.fill = i.key.fill
    /\ \A i, j \in Ids : i = j \/ trades[i].key.fill # trades[j].key.fill
                         \/ i \in trades[j].older \/ j \in trades[i].older
TypeInv == TypeOK /\ IsFiniteSet(Ids)

LEMMA Finite ==
  ASSUME IsFiniteSet(Ids)
  PROVE  /\ Counted
         /\ \A k : IsFiniteSet(IdsAt(k)) /\ TradesAt(k) \in Nat
         /\ \A f : IsFiniteSet(IdsOf(f)) /\ Cardinality(IdsOf(f)) \in Nat
<1>1. \A k : IdsAt(k) \in SUBSET Ids
  BY DEF IdsAt
<1>2. \A f : IdsOf(f) \in SUBSET Ids
  BY DEF IdsOf
<1>3. \A S \in SUBSET Ids : IsFiniteSet(S) /\ Cardinality(S) \in Nat
  BY FS_Subset, FS_CardinalityType
<1> QED
  BY <1>1, <1>2, <1>3 DEF Counted, TradesAt

LEMMA InsertShape ==
  ASSUME TableOK, NEW id, NEW k, Insert(id, k), id \notin Ids
  PROVE  /\ Ids' = Ids \cup {id}
         /\ trades'[id] = [key |-> k, older |-> IdsOf(k.fill)]
         /\ \A i \in Ids : trades'[i] = trades[i]
         /\ trades' = [i \in Ids' |-> trades'[i]]
         /\ \A f : IdsOf(f)' = IdsOf(f) \cup (IF k.fill = f THEN {id} ELSE {})
         /\ \A l : IdsAt(l)' = IdsAt(l) \cup (IF k = l THEN {id} ELSE {})
<1>1. /\ Ids' = Ids \cup {id}
      /\ trades'[id] = [key |-> k, older |-> IdsOf(k.fill)]
      /\ \A i \in Ids : trades'[i] = trades[i]
      /\ trades' = [i \in Ids' |-> trades'[i]]
  BY DEF Insert, Ids
<1>2. \A f : IdsOf(f)' = IdsOf(f) \cup (IF k.fill = f THEN {id} ELSE {})
  BY <1>1 DEF IdsOf
<1>3. \A l : IdsAt(l)' = IdsAt(l) \cup (IF k = l THEN {id} ELSE {})
  BY <1>1 DEF IdsAt
<1> QED
  BY <1>1, <1>2, <1>3

LEMMA InsertTable ==
  ASSUME TableOK, NEW id \in Hash \cup Own, NEW k \in Key, Insert(id, k), id \notin Ids,
         id \in Own \/ k.fill = id.key.fill
  PROVE  TableOK'
<1>1. /\ Ids' = Ids \cup {id}
      /\ trades'[id] = [key |-> k, older |-> IdsOf(k.fill)]
      /\ \A i \in Ids : trades'[i] = trades[i]
      /\ trades' = [i \in Ids' |-> trades'[i]]
  BY InsertShape
<1>2. IsFiniteSet(Ids)'
  BY <1>1, FS_AddElement DEF TableOK
<1>3. \A i \in Ids' : trades'[i] \in [key : Key, older : SUBSET Ids']
  BY <1>1 DEF TableOK, IdsOf
<1>4. trades' \in [Ids' -> [key : Key, older : SUBSET Ids']]
  BY <1>1, <1>3
<1>5. \A i \in Ids' \ Own : trades'[i].key.fill = i.key.fill
  BY <1>1 DEF TableOK
<1>6. \A i, j \in Ids' : i = j \/ trades'[i].key.fill # trades'[j].key.fill
                         \/ i \in trades'[j].older \/ j \in trades'[i].older
  BY <1>1 DEF TableOK, IdsOf
<1> QED
  BY <1>1, <1>2, <1>4, <1>5, <1>6 DEF TableOK

LEMMA DeleteShape ==
  ASSUME TableOK, NEW ids, Delete(ids)
  PROVE  /\ Ids' = Ids \ ids
         /\ \A i \in Ids' : /\ trades'[i].key = trades[i].key
                            /\ trades'[i].older = trades[i].older \ ids
                            /\ trades'[i] \in [key : Key, older : SUBSET Ids']
         /\ trades' = [i \in Ids' |-> trades'[i]]
         /\ \A f : IdsOf(f)' = IdsOf(f) \ ids
         /\ \A l : IdsAt(l)' = IdsAt(l) \ ids
<1>1. /\ Ids' = Ids \ ids
      /\ \A i \in Ids \ ids : trades'[i] = [trades[i] EXCEPT !.older = @ \ ids]
      /\ trades' = [i \in Ids' |-> trades'[i]]
  BY DEF Delete, Ids
<1>2. \A i \in Ids : trades[i] \in [key : Key, older : SUBSET Ids]
  BY DEF TableOK
<1>3. \A i \in Ids' : /\ trades'[i].key = trades[i].key
                      /\ trades'[i].older = trades[i].older \ ids
                      /\ trades'[i] \in [key : Key, older : SUBSET Ids']
  BY <1>1, <1>2
<1>4. \A f : IdsOf(f)' = IdsOf(f) \ ids
  BY <1>1, <1>3 DEF IdsOf
<1>5. \A l : IdsAt(l)' = IdsAt(l) \ ids
  BY <1>1, <1>3 DEF IdsAt
<1> QED
  BY <1>1, <1>3, <1>4, <1>5

LEMMA DeleteTable ==
  ASSUME TableOK, NEW ids, Delete(ids)
  PROVE  TableOK'
<1>1. /\ Ids' = Ids \ ids
      /\ \A i \in Ids' : /\ trades'[i].key = trades[i].key
                         /\ trades'[i].older = trades[i].older \ ids
                         /\ trades'[i] \in [key : Key, older : SUBSET Ids']
      /\ trades' = [i \in Ids' |-> trades'[i]]
  BY DeleteShape
<1>2. IsFiniteSet(Ids)'
  BY <1>1, FS_Subset DEF TableOK
<1>3. trades' \in [Ids' -> [key : Key, older : SUBSET Ids']]
  BY <1>1
<1>4. \A i \in Ids' \ Own : trades'[i].key.fill = i.key.fill
  BY <1>1 DEF TableOK
<1>5. \A i, j \in Ids' : i = j \/ trades'[i].key.fill # trades'[j].key.fill
                         \/ i \in trades'[j].older \/ j \in trades'[i].older
  BY <1>1 DEF TableOK
<1> QED
  BY <1>1, <1>2, <1>3, <1>4, <1>5 DEF TableOK

LEMMA EditShape ==
  ASSUME TableOK, NEW i \in Ids, Edit(i)
  PROVE  /\ Ids' = Ids
         /\ trades' = [j \in Ids' |-> trades'[j]]
         /\ \A j \in Ids : /\ trades'[j].older = trades[j].older
                           /\ trades'[j].key.fill = trades[j].key.fill
                           /\ j # i => trades'[j] = trades[j]
                           /\ trades'[j] \in [key : Key, older : SUBSET Ids']
         /\ trades'[i].key.dated = "edited"
         /\ \A f : IdsOf(f)' = IdsOf(f)
<1>1. trades[i] \in [key : Key, older : SUBSET Ids] /\ trades[i].key \in Key
  BY DEF TableOK
<1> DEFINE key == [trades[i].key EXCEPT !.dated = "edited"]
<1>2. key \in Key /\ key.fill = trades[i].key.fill /\ key.dated = "edited"
  BY <1>1 DEF Key
<1>3. trades' = [trades EXCEPT ![i] = [trades[i] EXCEPT !.key = key]]
  BY DEF Edit
<1> HIDE DEF key
<1>4. Ids' = Ids /\ trades' = [j \in Ids' |-> trades'[j]]
  BY <1>3 DEF Ids, TableOK
<1>5. \A j \in Ids : j # i => trades'[j] = trades[j]
  BY <1>3 DEF Ids, TableOK
<1>6. trades'[i] = [key |-> key, older |-> trades[i].older]
  BY <1>1, <1>3 DEF Ids
<1>7. \A j \in Ids : /\ trades'[j].older = trades[j].older
                     /\ trades'[j].key.fill = trades[j].key.fill
                     /\ trades'[j] \in [key : Key, older : SUBSET Ids']
  <2> TAKE j \in Ids
  <2>1. CASE j = i
    BY <2>1, <1>1, <1>2, <1>4, <1>6
  <2>2. CASE j # i
    BY <2>2, <1>4, <1>5 DEF TableOK
  <2> QED
    BY <2>1, <2>2
<1>8. \A f : IdsOf(f)' = IdsOf(f)
  BY <1>4, <1>7 DEF IdsOf
<1> QED
  BY <1>2, <1>4, <1>5, <1>6, <1>7, <1>8

LEMMA EditTable ==
  ASSUME TableOK, NEW i \in Ids, Edit(i)
  PROVE  TableOK'
<1>1. /\ Ids' = Ids
      /\ trades' = [j \in Ids' |-> trades'[j]]
      /\ \A j \in Ids : /\ trades'[j].older = trades[j].older
                        /\ trades'[j].key.fill = trades[j].key.fill
                        /\ trades'[j] \in [key : Key, older : SUBSET Ids']
  BY EditShape
<1>2. trades' \in [Ids' -> [key : Key, older : SUBSET Ids']]
  BY <1>1
<1> QED
  BY <1>1, <1>2 DEF TableOK

LEMMA TypeTable == TypeInv => TableOK
BY DEF TypeInv, TypeOK, TableOK

\* The initial table: n trades of the user, in the order he entered them.
Entered(n, order, key) ==
    /\ \A i, j \in 1 .. n : order[i] = order[j] => i = j
    /\ Ids = {order[i] : i \in 1 .. n}
    /\ trades \in [Ids -> [key : Key, older : SUBSET Ids]]
    /\ \A m \in 1 .. n :
        /\ trades[order[m]].key = key[order[m]]
        /\ \A i \in 1 .. n : order[i] \in trades[order[m]].older
                <=> i < m /\ key[order[i]].fill = key[order[m]].fill
        /\ trades[order[m]].older \subseteq Ids
\* The order gives the table.
FromOrder(order, key) ==
    trades = [o \in {order[i] : i \in DOMAIN order} |->
              [key   |-> key[o],
               older |-> {order[i] : i \in {i \in DOMAIN order :
                    /\ key[order[i]].fill = key[o].fill
                    /\ \E j \in DOMAIN order : i < j /\ order[j] = o}}]]
OwnKeys == [Own -> {k \in Key : k.dated # "edited"}]

LEMMA InitShape ==
  ASSUME Init
  PROVE  \E n \in Nat : \E order \in [1 .. n -> Own], key \in OwnKeys : Entered(n, order, key)
<1>1. PICK n \in 0 .. Cardinality(Own) : \E order \in [1 .. n -> Own], key \in OwnKeys :
        IsInjective(order) /\ FromOrder(order, key)
  <2>1. Cardinality(Own) \in Nat
    BY OwnAssumption, FS_CardinalityType
  <2>2. PICK order \in UNION {[1 .. n -> Own] : n \in 0 .. Cardinality(Own)}, key \in OwnKeys :
        IsInjective(order) /\ FromOrder(order, key)
    BY DEF Init, OwnKeys, FromOrder
  <2> QED
    BY <2>1, <2>2
<1>2. PICK order \in [1 .. n -> Own], key \in OwnKeys :
        /\ IsInjective(order)
        /\ trades = [o \in {order[i] : i \in DOMAIN order} |->
              [key   |-> key[o],
               older |-> {order[i] : i \in {i \in DOMAIN order :
                    /\ key[order[i]].fill = key[o].fill
                    /\ \E j \in DOMAIN order : i < j /\ order[j] = o}}]]
  BY <1>1 DEF FromOrder
<1>3. n \in Nat /\ DOMAIN order = 1 .. n
  BY OwnAssumption, FS_CardinalityType
<1>4. \A i, j \in 1 .. n : order[i] = order[j] => i = j
  BY <1>2, <1>3 DEF IsInjective
<1>5. Ids = {order[i] : i \in 1 .. n}
  BY <1>2, <1>3 DEF Ids
<1> DEFINE Older(o) == {order[i] : i \in {i \in 1 .. n :
                    /\ key[order[i]].fill = key[o].fill
                    /\ \E j \in 1 .. n : i < j /\ order[j] = o}}
<1>6. trades = [o \in Ids |-> [key |-> key[o], older |-> Older(o)]]
  BY <1>2, <1>3, <1>5
<1>7. \A o \in Ids : Older(o) \subseteq Ids /\ key[o] \in Key
  BY <1>5 DEF OwnKeys
<1>8. ASSUME NEW m \in 1 .. n, NEW i \in 1 .. n
      PROVE  order[i] \in Older(order[m]) <=> i < m /\ key[order[i]].fill = key[order[m]].fill
  BY <1>4
<1> HIDE DEF Older
<1>9. trades \in [Ids -> [key : Key, older : SUBSET Ids]]
  BY <1>6, <1>7
<1>10. \A m \in 1 .. n : order[m] \in Ids
  BY <1>5
<1>11. \A m \in 1 .. n :
          /\ trades[order[m]].key = key[order[m]]
          /\ trades[order[m]].older = Older(order[m])
  BY <1>6, <1>10
<1>12. ASSUME NEW m \in 1 .. n
       PROVE  /\ trades[order[m]].key = key[order[m]]
              /\ \A i \in 1 .. n : order[i] \in trades[order[m]].older
                    <=> i < m /\ key[order[i]].fill = key[order[m]].fill
              /\ trades[order[m]].older \subseteq Ids
  BY <1>7, <1>8, <1>10, <1>11
<1>13. Entered(n, order, key)
  BY <1>4, <1>5, <1>9, <1>12 DEF Entered
<1> QED
  BY <1>3, <1>13

LEMMA InitType == Init => TypeInv
<1> SUFFICES ASSUME Init PROVE TypeInv
  OBVIOUS
<1>1. PICK n \in Nat : \E order \in [1 .. n -> Own], key \in OwnKeys : Entered(n, order, key)
  BY InitShape
<1>2. PICK order \in [1 .. n -> Own], key \in OwnKeys : Entered(n, order, key)
  BY <1>1
<1>3. Ids \subseteq Own /\ IsFiniteSet(Ids)
  <2>1. Ids \in SUBSET Own
    BY <1>2 DEF Entered
  <2> QED
    BY <2>1, OwnAssumption, FS_Subset
<1>4. ASSUME NEW i \in Ids, NEW j \in Ids, i # j, trades[i].key.fill = trades[j].key.fill
      PROVE  i \in trades[j].older \/ j \in trades[i].older
  <2>1. PICK l \in 1 .. n, m \in 1 .. n : i = order[l] /\ j = order[m]
    BY <1>2 DEF Entered
  <2>2. l # m /\ key[order[l]].fill = key[order[m]].fill
    BY <2>1, <1>4, <1>2 DEF Entered
  <2>3. l < m \/ m < l
    BY <2>2
  <2> QED
    BY <2>1, <2>2, <2>3, <1>2 DEF Entered
<1>5. \A p \in Imports : <<>> \in Seq(Hash)
  BY EmptySeq
<1>6. /\ Ids \subseteq Hash \cup Own
      /\ trades \in [Ids -> [key : Key, older : SUBSET Ids]]
      /\ \A i \in Ids \ Own : trades[i].key.fill = i.key.fill
  BY <1>2, <1>3 DEF Entered
<1>7. /\ batch \in [Imports -> Batches \cup {<<>>}]
      /\ todo \in [Imports -> Seq(Hash)]
      /\ doomed \in [Cleaners -> SUBSET Ids]
      /\ short \in [Imports -> SUBSET Fills]
  BY <1>5 DEF Init
<1>8. removed \in SUBSET Fills /\ blurred \in SUBSET Fills /\ acts \in 0..MaxActs
  BY MaxActsAssumption DEF Init
<1> QED
  BY <1>3, <1>4, <1>6, <1>7, <1>8 DEF TypeInv, TypeOK

LEMMA MissingType ==
  ASSUME IsFiniteSet(Ids), NEW b \in Batches
  PROVE  Missing(b) \in Seq(Hash)
<1>1. PICK d \in Sources : Closed(b, d, Len(b), Decisions(b)[Len(b)])
  BY MissingClosed, Finite
<1> QED
  BY <1>1 DEF Closed, AccType, Missing

\* What the acts of the user and the removals of duplicates do to the ids.
LEMMA DeleteType ==
  ASSUME TypeInv, NEW ids \in SUBSET Ids, Delete(ids), short' = Disturbed(ids)
  PROVE  TableOK' /\ doomed' \in [Cleaners -> SUBSET Ids'] /\ short' \in [Imports -> SUBSET Fills]
         /\ {trades[i].key.fill : i \in ids} \subseteq Fills
<1>1. TableOK /\ TableOK'
  BY TypeTable, DeleteTable
<1>2. Ids' = Ids \ ids
  BY <1>1, DeleteShape
<1>3. doomed' \in [Cleaners -> SUBSET Ids']
  BY <1>2 DEF TypeInv, TypeOK, Delete
<1>4. \A i \in ids : trades[i].key.fill \in Fills
  BY <1>1 DEF TableOK, Key
<1>5. short' \in [Imports -> SUBSET Fills]
  BY <1>4 DEF TypeInv, TypeOK, Disturbed
<1> QED
  BY <1>1, <1>3, <1>4, <1>5

LEMMA RemoveType ==
  ASSUME TypeInv, NEW ids \in SUBSET Ids, Remove(ids)
  PROVE  TypeInv'
<1>1. TableOK' /\ doomed' \in [Cleaners -> SUBSET Ids'] /\ short' \in [Imports -> SUBSET Fills]
      /\ {trades[i].key.fill : i \in ids} \subseteq Fills
  BY DeleteType DEF Remove
<1>2. acts' \in 0 .. MaxActs
  BY MaxActsAssumption DEF TypeInv, TypeOK, Remove, Acts
<1>3. /\ batch' \in [Imports -> Batches \cup {<<>>}] /\ todo' \in [Imports -> Seq(Hash)]
      /\ removed' \in SUBSET Fills /\ blurred' \in SUBSET Fills
  BY <1>1 DEF TypeInv, TypeOK, Remove
<1> QED
  BY <1>1, <1>2, <1>3 DEF TypeInv, TypeOK, TableOK

\* The broker's trades are ids of the table.
LEMMA BrokerIds == {h \in Ids \ Own : h.key.dated = "utc"} \in SUBSET Ids
OBVIOUS

LEMMA ImportType ==
  ASSUME TypeInv, NEW p \in Imports,
         (\E b \in Batches : Start(p, b)) \/ Create(p) \/ Fails(p) \/ Ends(p)
  PROVE  TypeInv'
<1>1. CASE \E b \in Batches : Start(p, b)
  <2>1. PICK b \in Batches : Start(p, b)
    BY <1>1
  <2>2. Missing(b) \in Seq(Hash)
    BY MissingType DEF TypeInv
  <2>3. Gapped \subseteq Fills
    BY DEF TypeInv, TypeOK, Gapped, Hash, Key
  <2>4. FillsOf(b) \subseteq Fills
    BY BatchShape DEF FillsOf, KeysOf, Key
  <2>5. blurred' \subseteq Fills
    BY <2>1, <2>4 DEF Start, TypeInv, TypeOK
  <2>6. todo' \in [Imports -> Seq(Hash)] /\ batch' \in [Imports -> Batches \cup {<<>>}]
        /\ short' \in [Imports -> SUBSET Fills]
    BY <2>1, <2>2, <2>3 DEF Start, TypeInv, TypeOK
  <2>7. trades' = trades /\ doomed' = doomed /\ removed' = removed /\ acts' = acts /\ Ids' = Ids
    BY <2>1 DEF Start, Ids
  <2> QED
    BY <2>5, <2>6, <2>7 DEF TypeInv, TypeOK
<1>2. CASE Create(p)
  <2>1. /\ todo[p] \in Seq(Hash) /\ todo[p] # <<>>
        /\ Head(todo[p]) \in Hash /\ Tail(todo[p]) \in Seq(Hash)
    BY <1>2 DEF Create, TypeInv, TypeOK
  <2>2. todo' \in [Imports -> Seq(Hash)]
    BY <1>2, <2>1 DEF Create, TypeInv, TypeOK
  <2>3. TableOK' /\ Ids \subseteq Ids'
    <3>1. CASE Head(todo[p]) \in Ids
      BY <3>1, <1>2, TypeTable DEF Create, TableOK, Ids
    <3>2. CASE Head(todo[p]) \notin Ids
      <4>1. Insert(Head(todo[p]), Head(todo[p]).key)
        BY <3>2, <1>2 DEF Create
      <4>2. Head(todo[p]).key \in Key
        BY <2>1 DEF Hash
      <4> QED
        BY <3>2, <4>1, <4>2, <2>1, TypeTable, InsertTable, InsertShape
    <3> QED
      BY <3>1, <3>2
  <2>4. /\ batch' = batch /\ doomed' = doomed /\ short' = short /\ removed' = removed
        /\ blurred' = blurred /\ acts' = acts
    BY <1>2 DEF Create
  <2> QED
    BY <2>2, <2>3, <2>4 DEF TypeInv, TypeOK, TableOK
<1>3. CASE Fails(p)
  <2>1. /\ todo[p] \in Seq(Hash) /\ todo[p] # <<>>
        /\ Head(todo[p]).key.fill \in Fills /\ Tail(todo[p]) \in Seq(Hash)
    <3>1. todo[p] \in Seq(Hash) /\ todo[p] # <<>>
      BY <1>3 DEF Fails, TypeInv, TypeOK
    <3>2. Head(todo[p]) \in Hash /\ Tail(todo[p]) \in Seq(Hash)
      BY <3>1, HeadTailProperties
    <3> QED
      BY <3>1, <3>2 DEF Hash, Key
  <2>2. acts' \in 0 .. MaxActs
    BY <1>3, MaxActsAssumption DEF Fails, Acts, TypeInv, TypeOK
  <2>3. todo' \in [Imports -> Seq(Hash)] /\ short' \in [Imports -> SUBSET Fills]
    BY <1>3, <2>1 DEF Fails, TypeInv, TypeOK
  <2>4. /\ trades' = trades /\ batch' = batch /\ doomed' = doomed /\ removed' = removed
        /\ blurred' = blurred /\ Ids' = Ids
    BY <1>3 DEF Fails, Ids
  <2> QED
    BY <2>2, <2>3, <2>4 DEF TypeInv, TypeOK
<1>4. CASE Ends(p)
  <2>1. /\ batch' \in [Imports -> Batches \cup {<<>>}] /\ todo' \in [Imports -> Seq(Hash)]
        /\ short' \in [Imports -> SUBSET Fills]
    BY <1>4, EmptySeq DEF Ends, TypeInv, TypeOK
  <2>2. /\ trades' = trades /\ doomed' = doomed /\ removed' = removed /\ acts' = acts
        /\ blurred' = blurred /\ Ids' = Ids
    BY <1>4 DEF Ends, Ids
  <2> QED
    BY <2>1, <2>2 DEF TypeInv, TypeOK
<1> QED
  BY <1>1, <1>2, <1>3, <1>4

LEMMA UserType ==
  ASSUME TypeInv,
         (\E o \in Own, k \in Key : Enter(o, k)) \/ (\E i \in Ids : Edit(i))
  PROVE  TypeInv'
<1>1. CASE \E o \in Own, k \in Key : Enter(o, k)
  <2>1. PICK o \in Own, k \in Key : Enter(o, k)
    BY <1>1
  <2>2. TableOK' /\ Ids \subseteq Ids'
    BY <2>1, TypeTable, InsertTable, InsertShape DEF Enter
  <2>3. blurred' \subseteq Fills /\ acts' \in 0 .. MaxActs
    <3>1. k.fill \in Fills
      BY DEF Key
    <3>2. blurred' \subseteq Fills
      BY <2>1, <3>1 DEF Enter, TypeInv, TypeOK
    <3> QED
      BY <2>1, <3>2, MaxActsAssumption DEF Enter, Acts, TypeInv, TypeOK
  <2>4. batch' = batch /\ todo' = todo /\ doomed' = doomed /\ short' = short /\ removed' = removed
    BY <2>1 DEF Enter
  <2> QED
    BY <2>2, <2>3, <2>4 DEF TypeInv, TypeOK, TableOK
<1>2. CASE \E i \in Ids : Edit(i)
  <2>1. PICK i \in Ids : Edit(i)
    BY <1>2
  <2>2. TableOK' /\ Ids' = Ids /\ trades[i].key.fill \in Fills
    BY <2>1, TypeTable, EditTable, EditShape DEF TableOK, Key
  <2>3. blurred' \subseteq Fills
    BY <2>1, <2>2 DEF Edit, TypeInv, TypeOK
  <2>4. acts' \in 0 .. MaxActs
    BY <2>1, MaxActsAssumption DEF Edit, Acts, TypeInv, TypeOK
  <2>5. batch' = batch /\ todo' = todo /\ doomed' = doomed /\ short' = short /\ removed' = removed
    BY <2>1 DEF Edit
  <2> QED
    BY <2>2, <2>3, <2>4, <2>5 DEF TypeInv, TypeOK, TableOK
<1> QED
  BY <1>1, <1>2

LEMMA CleanerType ==
  ASSUME TypeInv, NEW d \in Cleaners, FindDuplicates(d) \/ RemoveDuplicates(d)
  PROVE  TypeInv'
<1>1. CASE FindDuplicates(d)
  <2>1. Extra \subseteq Ids
    BY DEF Extra
  <2>2. /\ doomed' \in [Cleaners -> SUBSET Ids]
        /\ UNCHANGED <<trades, batch, todo, short, removed, blurred, acts>> /\ Ids' = Ids
    BY <1>1, <2>1 DEF FindDuplicates, Ids, TypeInv, TypeOK
  <2> QED
    BY <2>2 DEF TypeInv, TypeOK
<1>2. CASE RemoveDuplicates(d)
  <2>1. doomed[d] \in SUBSET Ids
    BY DEF TypeInv, TypeOK
  <2>2. TableOK' /\ doomed' \in [Cleaners -> SUBSET Ids'] /\ short' \in [Imports -> SUBSET Fills]
    BY <1>2, <2>1, DeleteType DEF RemoveDuplicates
  <2>3. UNCHANGED <<batch, todo, removed, blurred, acts>>
    BY <1>2 DEF RemoveDuplicates
  <2> QED
    BY <2>2, <2>3 DEF TypeInv, TypeOK, TableOK
<1> QED
  BY <1>1, <1>2

LEMMA NextType == TypeInv /\ [Next]_vars => TypeInv'
<1> SUFFICES ASSUME TypeInv, [Next]_vars PROVE TypeInv'
  OBVIOUS
<1>1. ASSUME NEW p \in Imports,
             (\E b \in Batches : Start(p, b)) \/ Create(p) \/ Fails(p) \/ Ends(p)
      PROVE  TypeInv'
  BY <1>1, ImportType
<1>2. CASE (\E o \in Own, k \in Key : Enter(o, k)) \/ (\E i \in Ids : Edit(i))
  BY <1>2, UserType
<1>3. ASSUME NEW i \in Ids, RemoveOne(i) PROVE TypeInv'
  <2>1. {i} \in SUBSET Ids
    OBVIOUS
  <2> QED
    BY <1>3, <2>1, RemoveType DEF RemoveOne
<1>4. CASE RemoveBrokerImported
  BY <1>4, BrokerIds, RemoveType DEF RemoveBrokerImported
<1>5. ASSUME NEW d \in Cleaners, FindDuplicates(d) \/ RemoveDuplicates(d) PROVE TypeInv'
  BY <1>5, CleanerType
<1>6. CASE UNCHANGED vars
  BY <1>6 DEF vars, TypeInv, TypeOK, Ids
<1> QED
  BY <1>1, <1>2, <1>3, <1>4, <1>5, <1>6 DEF Next

\* Types of the variables, whatever is imported, entered, edited and removed; the
\* table stays finite, and the trades of one fill in an order (TradesService).
THEOREM TypeCorrect == Spec => []TypeOK
<1>1. Spec => []TypeInv
  BY InitType, NextType, PTL DEF Spec
<1>2. TypeInv => TypeOK
  BY DEF TypeInv
<1> QED
  BY <1>1, <1>2, PTL

LEMMA TypeAlways == Spec => []TypeInv
BY InitType, NextType, PTL DEF Spec

\* The fingerprints an import asks for of one key: as many as the table lacks
\* trades, and none that is taken, but in a fill whose ranks have a gap.
LEMMA AskedFor ==
  ASSUME TypeInv, NEW b \in Batches, NEW k \in Range(b)
  PROVE  /\ k \in Key /\ k.dated \in Sources /\ RowsOf(b, k) \in Nat
         /\ Created(b, k) \subseteq {h \in Range(Missing(b)) : h.key = k}
         /\ IsFiniteSet({h \in Range(Missing(b)) : h.key = k})
         /\ Cardinality({h \in Range(Missing(b)) : h.key = k})
              = Max0(RowsOf(b, k) - (TradesAt(Twin(k)) + TradesAt(k)))
         /\ k.fill \notin Gapped => Created(b, k) = {h \in Range(Missing(b)) : h.key = k}
<1> DEFINE missing == Missing(b)
           I == {i \in DOMAIN missing : missing[i].key = k}
           J == {missing[i] : i \in I}
<1>1. /\ missing \in Seq(Hash) /\ k \in Key /\ k.dated \in Sources /\ RowsOf(b, k) \in Nat
      /\ Cardinality(I) = Max0(RowsOf(b, k) - (TradesAt(Twin(k)) + TradesAt(k)))
      /\ \A i \in DOMAIN missing : TradesAt(missing[i].key) < missing[i].n
      /\ \A i, j \in DOMAIN missing : missing[i] = missing[j] => i = j
  BY MissingCount, Finite DEF TypeInv
<1>2. {h \in Range(Missing(b)) : h.key = k} = J
  BY DEF Range
<1> HIDE DEF missing
<1>3. IsFiniteSet(J) /\ Cardinality(J) = Cardinality(I)
  <2>1. IsFiniteSet(I)
    <3>1. Len(missing) \in Nat /\ DOMAIN missing = 1 .. Len(missing)
      BY <1>1, LenProperties
    <3>2. I \in SUBSET (1 .. Len(missing))
      BY <3>1
    <3>3. IsFiniteSet(1 .. Len(missing))
      BY <3>1, FS_Interval
    <3> QED
      BY <3>2, <3>3, FS_Subset
  <2> DEFINE f == [i \in I |-> missing[i]]
  <2>2. \A i, j \in I : missing[i] = missing[j] => i = j
    BY <1>1
  <2> HIDE DEF I
  <2>3. f \in Bijection(I, J)
    BY <2>2 DEF Bijection, Injection, Surjection, IsInjective
  <2> QED
    BY <2>1, <2>3, FS_Bijection DEF ExistsBijection
<1>4. k.fill \notin Gapped => \A h \in J : h \notin Ids
  <2> SUFFICES ASSUME NEW i \in I, missing[i] \in Ids
               PROVE  k.fill \in Gapped
    OBVIOUS
  <2>1. missing[i] \in Hash /\ missing[i] \notin Own
    BY <1>1, OwnAssumption
  <2> QED
    BY <2>1, <1>1 DEF Gapped
<1> HIDE DEF J
<1>5. Created(b, k) = J \ Ids
  BY <1>2 DEF Created
<1> QED
  BY <1>1, <1>2, <1>3, <1>4, <1>5

\* For any table and any batch, a row being consumed at a time: an import that is
\* not disturbed creates of each key what the batch has more than the table in both
\* datings, no more, and no less where the ranks have no gap (importTrades).
THEOREM ShortfallCreated == Spec => []CreatesTheShortfall
<1>1. TypeInv => CreatesTheShortfall
  <2> SUFFICES ASSUME TypeInv, NEW b \in Batches, NEW k \in Range(b)
               PROVE  LET have == TradesAt([k EXCEPT !.dated = "local"]) + TradesAt([k EXCEPT !.dated = "utc"])
                          want == RowsOf(b, k)
                          lacks == IF want > have THEN want - have ELSE 0
                      IN  /\ Cardinality(Created(b, k)) <= lacks
                          /\ k.fill \notin Gapped => Cardinality(Created(b, k)) = lacks
    BY DEF CreatesTheShortfall
  <2> DEFINE asked == {h \in Range(Missing(b)) : h.key = k}
             lack == Max0(RowsOf(b, k) - (TradesAt(Twin(k)) + TradesAt(k)))
  <2>1. /\ k \in Key /\ k.dated \in Sources /\ RowsOf(b, k) \in Nat
        /\ Created(b, k) \subseteq asked /\ IsFiniteSet(asked) /\ Cardinality(asked) = lack
        /\ k.fill \notin Gapped => Created(b, k) = asked
    BY AskedFor
  <2>2. \/ [k EXCEPT !.dated = "local"] = k /\ [k EXCEPT !.dated = "utc"] = Twin(k)
        \/ [k EXCEPT !.dated = "utc"] = k /\ [k EXCEPT !.dated = "local"] = Twin(k)
    BY <2>1 DEF Key, Sources, Twin
  <2>3. TradesAt(k) \in Nat /\ TradesAt(Twin(k)) \in Nat
    BY <2>1, Finite DEF TypeInv
  <2> HIDE DEF asked
  <2>4. Cardinality(Created(b, k)) <= Cardinality(asked)
    BY <2>1, FS_Subset
  <2>5. /\ Cardinality(Created(b, k)) <= lack
        /\ k.fill \notin Gapped => Cardinality(Created(b, k)) = lack
    BY <2>1, <2>4
  <2> QED
    BY <2>1, <2>2, <2>3, <2>5 DEF Max0
<1> QED
  BY <1>1, TypeAlways, PTL

------------------------------------------------------------------------------
(* Nothing is lost.                                                         *)

\* What import p has still to create of k, that nobody else did.
Pending(p, k) == {h \in Range(todo[p]) : h.key = k /\ h \notin Ids}

\* The fill of a row is in the table, or still to be created: this is what every
\* step keeps, not the property itself, which speaks of imports that are done.
Covered(p, k) ==
    Cardinality(IdsOf(k.fill)) + Cardinality(Pending(p, k)) >= RowsOf(batch[p], k)
LostInv ==
    \A p \in Imports : \A k \in Range(batch[p]) : k.fill \notin short[p] => Covered(p, k)

LEMMA RangeSeq ==
  ASSUME NEW S, NEW s \in Seq(S)
  PROVE  /\ IsFiniteSet(Range(s)) /\ Range(s) \subseteq S
         /\ s # <<>> => /\ Head(s) \in S /\ Tail(s) \in Seq(S)
                        /\ Range(s) = Range(Tail(s)) \cup {Head(s)}
<1>1. DOMAIN s = 1 .. Len(s) /\ Len(s) \in Nat /\ \A i \in 1 .. Len(s) : s[i] \in S
  OBVIOUS
<1>2. Range(s) \subseteq S
  BY <1>1 DEF Range
<1>3. IsFiniteSet(Range(s))
  <2>1. s \in Surjection(1 .. Len(s), Range(s))
    BY <1>1 DEF Surjection, Range
  <2> QED
    BY <2>1, <1>1, FS_Interval, FS_Surjection
<1>4. ASSUME s # <<>> PROVE Range(s) = Range(Tail(s)) \cup {Head(s)}
  <2>1. /\ Len(s) >= 1 /\ Head(s) = s[1] /\ Tail(s) \in Seq(S) /\ Len(Tail(s)) = Len(s) - 1
        /\ DOMAIN Tail(s) = 1 .. Len(s) - 1
    BY <1>4, <1>1, HeadTailProperties
  <2>2. \A i \in 1 .. Len(s) - 1 : Tail(s)[i] = s[i + 1]
    BY <1>4, <1>1
  <2>3. \A i \in 1 .. Len(s) : i = 1 \/ (i - 1 \in 1 .. Len(s) - 1 /\ s[i] = Tail(s)[i - 1])
    BY <2>2, <1>1
  <2> HIDE DEF Range
  <2>4. Range(s) \subseteq Range(Tail(s)) \cup {Head(s)}
    <3> SUFFICES ASSUME NEW i \in DOMAIN s PROVE s[i] \in Range(Tail(s)) \cup {Head(s)}
      BY DEF Range
    <3>1. CASE i = 1
      BY <3>1, <2>1
    <3>2. CASE i # 1
      <4>1. i - 1 \in DOMAIN Tail(s) /\ s[i] = Tail(s)[i - 1]
        BY <3>2, <2>1, <2>3, <1>1
      <4> QED
        BY <4>1 DEF Range
    <3> QED
      BY <3>1, <3>2
  <2>5. Range(Tail(s)) \cup {Head(s)} \subseteq Range(s)
    BY <2>1, <2>2, <1>1 DEF Range
  <2> QED
    BY <2>4, <2>5
<1> QED
  BY <1>2, <1>3, <1>4, HeadTailProperties

LEMMA PendingFinite ==
  ASSUME TypeInv, NEW p \in Imports, NEW k
  PROVE  IsFiniteSet(Pending(p, k)) /\ Cardinality(Pending(p, k)) \in Nat
<1>1. todo[p] \in Seq(Hash)
  BY DEF TypeInv, TypeOK
<1>2. IsFiniteSet(Range(todo[p])) /\ Pending(p, k) \in SUBSET Range(todo[p])
  BY <1>1, RangeSeq DEF Pending
<1> QED
  BY <1>2, FS_Subset, FS_CardinalityType

LEMMA RowsInBatch ==
  ASSUME TypeInv, NEW p \in Imports, NEW k \in Range(batch[p])
  PROVE  batch[p] \in Batches /\ InProgress(p) /\ RowsOf(batch[p], k) \in Nat /\ k \in Key
<1>1. batch[p] # <<>>
  BY DEF Range
<1>2. batch[p] \in Batches
  BY <1>1 DEF TypeInv, TypeOK
<1>3. RowsOf(batch[p], k) \in Nat
  <2>1. Len(batch[p]) \in Nat /\ RowsOf(batch[p], k) = RowsTo(batch[p], Len(batch[p]), k)
    BY <1>2, BatchShape
  <2>2. RowsTo(batch[p], Len(batch[p]), k) \in Nat
    BY <2>1, CountRows
  <2> QED
    BY <2>1, <2>2
<1>4. k \in Key
  BY <1>2, BatchShape DEF Range, KeysOf
<1> QED
  BY <1>1, <1>2, <1>3, <1>4 DEF InProgress

\* More trades and more to create keep a row covered.
LEMMA CoveredFrame ==
  ASSUME TypeInv, TypeInv', NEW p \in Imports, NEW k \in Range(batch[p]), Covered(p, k),
         batch'[p] = batch[p], IdsOf(k.fill) \subseteq IdsOf(k.fill)',
         Pending(p, k) \subseteq Pending(p, k)'
  PROVE  Covered(p, k)'
<1>1. /\ IsFiniteSet(IdsOf(k.fill)') /\ Cardinality(IdsOf(k.fill)) \in Nat
      /\ Cardinality(IdsOf(k.fill)') \in Nat
  <2>1. IsFiniteSet(Ids) /\ IsFiniteSet(Ids')
    BY DEF TypeInv
  <2>2. IdsOf(k.fill)' \in SUBSET Ids' /\ IdsOf(k.fill) \in SUBSET Ids
    BY DEF IdsOf
  <2> QED
    BY <2>1, <2>2, FS_Subset, FS_CardinalityType
<1>2. /\ IsFiniteSet(Pending(p, k)') /\ Cardinality(Pending(p, k)) \in Nat
      /\ Cardinality(Pending(p, k)') \in Nat
  <2>1. todo[p] \in Seq(Hash) /\ todo'[p] \in Seq(Hash)
    BY DEF TypeInv, TypeOK
  <2>2. IsFiniteSet(Range(todo[p])) /\ IsFiniteSet(Range(todo'[p]))
    BY <2>1, RangeSeq
  <2>3. Pending(p, k) \in SUBSET Range(todo[p]) /\ Pending(p, k)' \in SUBSET Range(todo'[p])
    BY DEF Pending
  <2> QED
    BY <2>2, <2>3, FS_Subset, FS_CardinalityType
<1>3. /\ Cardinality(IdsOf(k.fill)) <= Cardinality(IdsOf(k.fill)')
      /\ Cardinality(Pending(p, k)) <= Cardinality(Pending(p, k)')
  BY <1>1, <1>2, FS_Subset
<1>4. RowsOf(batch[p], k) \in Nat
  BY RowsInBatch
<1> QED
  BY <1>1, <1>2, <1>3, <1>4 DEF Covered

\* An import that begins: what it found and what it has to create make its rows,
\* since nobody has a fingerprint it has to create.
LEMMA StartCovers ==
  ASSUME TypeInv, TypeInv', NEW p \in Imports, NEW b \in Batches, Start(p, b),
         NEW k \in Range(b), k.fill \notin Gapped
  PROVE  Covered(p, k)'
<1>1. batch'[p] = b /\ todo'[p] = Missing(b) /\ trades' = trades /\ Ids' = Ids
  BY DEF Start, TypeInv, TypeOK, Ids
<1>2. /\ k \in Key /\ k.dated \in Sources /\ RowsOf(b, k) \in Nat
      /\ Cardinality(Created(b, k)) = Max0(RowsOf(b, k) - (TradesAt(Twin(k)) + TradesAt(k)))
  BY AskedFor
<1>3. Pending(p, k)' = Created(b, k)
  BY <1>1 DEF Pending, Created
<1>5. TradesAt(Twin(k)) + TradesAt(k) <= Cardinality(IdsOf(k.fill))
  <2>1. IsFiniteSet(IdsOf(k.fill)) /\ IsFiniteSet(IdsAt(k)) /\ IsFiniteSet(IdsAt(Twin(k)))
    BY Finite DEF TypeInv
  <2>2. Twin(k).fill = k.fill /\ Twin(k) # k
    <3>1. k \in KeysOf(k.dated)
      BY <1>2 DEF KeysOf
    <3> QED
      BY <3>1, <1>2, TwinKey
  <2>3. /\ IdsAt(k) \cap IdsAt(Twin(k)) = {}
        /\ IdsAt(k) \cup IdsAt(Twin(k)) \in SUBSET IdsOf(k.fill)
    BY <2>2 DEF IdsAt, IdsOf
  <2>4. Cardinality(IdsAt(k) \cup IdsAt(Twin(k))) = TradesAt(k) + TradesAt(Twin(k)) - 0
    BY <2>1, <2>3, FS_Union, FS_EmptySet DEF TradesAt
  <2>5. Cardinality(IdsAt(k) \cup IdsAt(Twin(k))) <= Cardinality(IdsOf(k.fill))
    BY <2>1, <2>3, FS_Subset
  <2> QED
    BY <2>4, <2>5, Finite DEF TypeInv
<1>6. IdsOf(k.fill)' = IdsOf(k.fill)
  BY <1>1 DEF IdsOf
<1> DEFINE held == Cardinality(IdsOf(k.fill))
           have == TradesAt(Twin(k)) + TradesAt(k)
           want == RowsOf(b, k)
<1>7. held \in Nat /\ have \in Nat /\ want \in Nat /\ have <= held
  BY <1>2, <1>5, Finite DEF TypeInv
<1>8. Cardinality(Pending(p, k)') = Max0(want - have)
  BY <1>2, <1>3
<1> HIDE DEF held, have, want
<1>9. held + Max0(want - have) >= want
  BY <1>7 DEF Max0
<1> QED
  BY <1>1, <1>6, <1>8, <1>9 DEF Covered, held, want

\* A row that is created goes from what is to do to the table.
LEMMA CreateCovers ==
  ASSUME TypeInv, TypeInv', NEW q \in Imports, Create(q),
         NEW p \in Imports, NEW k \in Range(batch[p]), Covered(p, k)
  PROVE  Covered(p, k)'
<1> DEFINE h == Head(todo[q])
<1>1. /\ todo[q] \in Seq(Hash) /\ todo[q] # <<>> /\ batch' = batch
      /\ todo' = [todo EXCEPT ![q] = Tail(@)] /\ todo[p] \in Seq(Hash)
  BY DEF Create, TypeInv, TypeOK
<1>2. h \in Hash /\ Range(todo[q]) = Range(Tail(todo[q])) \cup {h}
  BY <1>1, RangeSeq
<1>3. Range(todo[p]) \subseteq Range(todo'[p]) \cup {h}
  BY <1>1, <1>2 DEF TypeInv, TypeOK
<1>4. CASE h \in Ids
  <2>1. Ids' = Ids /\ trades' = trades
    BY <1>4 DEF Create, Ids
  <2>2. IdsOf(k.fill)' = IdsOf(k.fill)
    BY <2>1 DEF IdsOf
  <2>3. Pending(p, k) \subseteq Pending(p, k)'
    BY <2>1, <1>3, <1>4 DEF Pending
  <2> QED
    BY <2>2, <2>3, <1>1, CoveredFrame
<1>5. CASE h \notin Ids
  <2>1. Insert(h, h.key)
    BY <1>5 DEF Create
  <2>2. /\ Ids' = Ids \cup {h}
        /\ IdsOf(k.fill)' = IdsOf(k.fill) \cup (IF h.key.fill = k.fill THEN {h} ELSE {})
    BY <2>1, <1>5, TypeTable, InsertShape
  <2>3. Pending(p, k) \subseteq Pending(p, k)' \cup {h}
    BY <2>2, <1>3 DEF Pending
  <2>4. CASE h \notin Pending(p, k)
    BY <2>2, <2>3, <2>4, <1>1, CoveredFrame
  <2>5. CASE h \in Pending(p, k)
    <3>1. h.key = k
      BY <2>5 DEF Pending
    <3>2. Cardinality(IdsOf(k.fill)') = Cardinality(IdsOf(k.fill)) + 1
      <4>1. h \notin IdsOf(k.fill) /\ IdsOf(k.fill)' = IdsOf(k.fill) \cup {h}
        BY <1>5, <2>2, <3>1 DEF IdsOf
      <4>2. IsFiniteSet(IdsOf(k.fill))
        BY Finite DEF TypeInv
      <4> QED
        BY <4>1, <4>2, FS_AddElement
    <3>3. Cardinality(Pending(p, k)') >= Cardinality(Pending(p, k)) - 1
      <4>1. IsFiniteSet(Pending(p, k)')
        <5>1. todo'[p] \in Seq(Hash)
          BY DEF TypeInv, TypeOK
        <5>2. IsFiniteSet(Range(todo'[p])) /\ Pending(p, k)' \in SUBSET Range(todo'[p])
          BY <5>1, RangeSeq DEF Pending
        <5> QED
          BY <5>2, FS_Subset
      <4>2. IsFiniteSet(Pending(p, k)) /\ Cardinality(Pending(p, k)) \in Nat
        BY PendingFinite
      <4>3. Pending(p, k) \ {h} \in SUBSET Pending(p, k)'
        BY <2>3
      <4>4. Cardinality(Pending(p, k) \ {h}) = Cardinality(Pending(p, k)) - 1
        BY <4>2, <2>5, FS_RemoveElement
      <4>5. Cardinality(Pending(p, k) \ {h}) <= Cardinality(Pending(p, k)')
        BY <4>1, <4>3, FS_Subset
      <4>6. Cardinality(Pending(p, k)') \in Nat
        BY <4>1, FS_CardinalityType
      <4> QED
        BY <4>2, <4>4, <4>5, <4>6
    <3>4. /\ Cardinality(IdsOf(k.fill)) \in Nat /\ Cardinality(Pending(p, k)) \in Nat
          /\ RowsOf(batch[p], k) \in Nat
      BY Finite, PendingFinite, RowsInBatch DEF TypeInv
    <3>5. Cardinality(Pending(p, k)') \in Nat
      <4>1. todo'[p] \in Seq(Hash)
        BY DEF TypeInv, TypeOK
      <4>2. IsFiniteSet(Range(todo'[p])) /\ Pending(p, k)' \in SUBSET Range(todo'[p])
        BY <4>1, RangeSeq DEF Pending
      <4> QED
        BY <4>2, FS_Subset, FS_CardinalityType
    <3> QED
      BY <3>2, <3>3, <3>4, <3>5, <1>1 DEF Covered
  <2> QED
    BY <2>4, <2>5
<1> QED
  BY <1>4, <1>5

\* A trade that goes leaves its fill short for the imports in progress.
LEMMA DeleteCovers ==
  ASSUME TypeInv, TypeInv', LostInv, NEW ids \in SUBSET Ids, Delete(ids),
         short' = Disturbed(ids), batch' = batch, todo' = todo
  PROVE  LostInv'
<1> SUFFICES ASSUME NEW p \in Imports, NEW k \in Range(batch[p]), k.fill \notin short'[p]
             PROVE  Covered(p, k)'
  BY DEF LostInv
<1>1. InProgress(p)
  BY RowsInBatch
<1>2. short'[p] = short[p] \cup {trades[i].key.fill : i \in ids}
  BY <1>1 DEF Disturbed
<1>3. Covered(p, k)
  BY <1>2 DEF LostInv
<1>4. \A i \in ids : trades[i].key.fill # k.fill
  BY <1>2
<1>5. Ids' = Ids \ ids /\ IdsOf(k.fill)' = IdsOf(k.fill) \ ids
  BY TypeTable, DeleteShape
<1>6. IdsOf(k.fill) \subseteq IdsOf(k.fill)'
  BY <1>4, <1>5 DEF IdsOf
<1>7. Pending(p, k) \subseteq Pending(p, k)'
  BY <1>5 DEF Pending
<1> QED
  BY <1>3, <1>6, <1>7, CoveredFrame

LEMMA InitLost == Init => LostInv
BY DEF Init, LostInv, Range

LEMMA ImportLost ==
  ASSUME TypeInv, TypeInv', LostInv, NEW q \in Imports,
         (\E b \in Batches : Start(q, b)) \/ Create(q) \/ Fails(q) \/ Ends(q)
  PROVE  LostInv'
<1> SUFFICES ASSUME NEW p \in Imports, NEW k \in Range(batch'[p]), k.fill \notin short'[p]
             PROVE  Covered(p, k)'
  BY DEF LostInv
<1>1. CASE \E b \in Batches : Start(q, b)
  <2>1. PICK b \in Batches : Start(q, b)
    BY <1>1
  <2>2. CASE p = q
    <3>1. batch'[p] = b /\ short'[p] = Gapped
      BY <2>1, <2>2 DEF Start, TypeInv, TypeOK
    <3> QED
      BY <3>1, <2>1, <2>2, StartCovers
  <2>3. CASE p # q
    <3>1. /\ batch'[p] = batch[p] /\ todo'[p] = todo[p] /\ short'[p] = short[p]
          /\ trades' = trades /\ Ids' = Ids
      BY <2>1, <2>3 DEF Start, TypeInv, TypeOK, Ids
    <3>2. Covered(p, k) /\ IdsOf(k.fill)' = IdsOf(k.fill) /\ Pending(p, k)' = Pending(p, k)
      BY <3>1 DEF LostInv, IdsOf, Pending
    <3> QED
      BY <3>1, <3>2, CoveredFrame
  <2> QED
    BY <2>2, <2>3
<1>2. CASE Create(q)
  <2>1. batch' = batch /\ short' = short
    BY <1>2 DEF Create
  <2> QED
    BY <2>1, <1>2, CreateCovers DEF LostInv
<1>3. CASE Fails(q)
  <2>1. /\ batch' = batch /\ trades' = trades /\ Ids' = Ids
        /\ todo' = [todo EXCEPT ![q] = Tail(@)]
        /\ short' = [short EXCEPT ![q] = @ \cup {Head(todo[q]).key.fill}]
        /\ todo[q] # <<>> /\ todo[q] \in Seq(Hash)
    BY <1>3 DEF Fails, Ids, TypeInv, TypeOK
  <2>2. Covered(p, k)
    BY <2>1 DEF LostInv, TypeInv, TypeOK
  <2>3. IdsOf(k.fill)' = IdsOf(k.fill)
    BY <2>1 DEF IdsOf
  <2>4. Pending(p, k) \subseteq Pending(p, k)'
    <3>1. CASE p = q
      <4>1. todo'[p] = Tail(todo[q])
        BY <3>1, <2>1 DEF TypeInv, TypeOK
      <4>2. Range(todo[q]) = Range(Tail(todo[q])) \cup {Head(todo[q])}
        BY <2>1, RangeSeq
      <4>3. Head(todo[q]).key # k
        <5>1. Head(todo[q]).key.fill \in short'[p]
          BY <3>1, <2>1 DEF TypeInv, TypeOK
        <5> QED
          BY <5>1
      <4> QED
        BY <3>1, <4>1, <4>2, <4>3, <2>1 DEF Pending
    <3>2. CASE p # q
      BY <3>2, <2>1 DEF Pending, TypeInv, TypeOK
    <3> QED
      BY <3>1, <3>2
  <2> QED
    BY <2>1, <2>2, <2>3, <2>4, CoveredFrame
<1>4. CASE Ends(q)
  <2>1. p # q
    <3>1. batch'[q] = <<>>
      BY <1>4 DEF Ends, TypeInv, TypeOK
    <3> QED
      BY <3>1 DEF Range
  <2>2. /\ batch'[p] = batch[p] /\ todo'[p] = todo[p] /\ short'[p] = short[p]
        /\ trades' = trades /\ Ids' = Ids
    BY <1>4, <2>1 DEF Ends, Ids, TypeInv, TypeOK
  <2>3. Covered(p, k) /\ IdsOf(k.fill)' = IdsOf(k.fill) /\ Pending(p, k)' = Pending(p, k)
    BY <2>2 DEF LostInv, IdsOf, Pending
  <2> QED
    BY <2>2, <2>3, CoveredFrame
<1> QED
  BY <1>1, <1>2, <1>3, <1>4

LEMMA UserLost ==
  ASSUME TypeInv, TypeInv', LostInv,
         (\E o \in Own, k \in Key : Enter(o, k)) \/ (\E i \in Ids : Edit(i))
  PROVE  LostInv'
<1>1. batch' = batch /\ todo' = todo /\ short' = short
  BY DEF Enter, Edit
<1> SUFFICES ASSUME NEW p \in Imports, NEW k \in Range(batch[p]), k.fill \notin short[p]
             PROVE  Covered(p, k)'
  BY <1>1 DEF LostInv
<1>2. Covered(p, k)
  BY DEF LostInv
<1>3. CASE \E o \in Own, l \in Key : Enter(o, l)
  <2>1. PICK o \in Own, l \in Key : Enter(o, l)
    BY <1>3
  <2>2. Ids' = Ids \cup {o} /\ IdsOf(k.fill) \subseteq IdsOf(k.fill)'
    <3>1. Insert(o, l) /\ o \notin Ids /\ TableOK
      BY <2>1, TypeTable DEF Enter
    <3>2. Ids' = Ids \cup {o}
      BY <3>1, InsertShape
    <3>3. IdsOf(k.fill)' = IdsOf(k.fill) \cup (IF l.fill = k.fill THEN {o} ELSE {})
      BY <3>1, InsertShape
    <3> QED
      BY <3>2, <3>3
  <2>3. Pending(p, k) \subseteq Pending(p, k)'
    <3>1. todo[p] \in Seq(Hash)
      BY DEF TypeInv, TypeOK
    <3>2. Range(todo[p]) \subseteq Hash
      BY <3>1, RangeSeq
    <3> QED
      BY <3>2, <2>2, <1>1, OwnAssumption DEF Pending
  <2> QED
    BY <1>1, <1>2, <2>2, <2>3, CoveredFrame
<1>4. CASE \E i \in Ids : Edit(i)
  <2>1. Ids' = Ids /\ IdsOf(k.fill)' = IdsOf(k.fill)
    BY <1>4, TypeTable, EditShape
  <2>2. Pending(p, k)' = Pending(p, k)
    BY <2>1, <1>1 DEF Pending
  <2> QED
    BY <1>1, <1>2, <2>1, <2>2, CoveredFrame
<1> QED
  BY <1>3, <1>4

LEMMA NextLost == TypeInv /\ LostInv /\ [Next]_vars => LostInv'
<1> SUFFICES ASSUME TypeInv, LostInv, [Next]_vars PROVE LostInv'
  OBVIOUS
<1>0. TypeInv'
  BY NextType
<1>1. ASSUME NEW p \in Imports,
             (\E b \in Batches : Start(p, b)) \/ Create(p) \/ Fails(p) \/ Ends(p)
      PROVE  LostInv'
  BY <1>0, <1>1, ImportLost
<1>2. CASE (\E o \in Own, k \in Key : Enter(o, k)) \/ (\E i \in Ids : Edit(i))
  BY <1>0, <1>2, UserLost
<1>3. ASSUME NEW ids \in SUBSET Ids, Remove(ids) PROVE LostInv'
  BY <1>0, <1>3, DeleteCovers DEF Remove
<1>4. ASSUME NEW i \in Ids, RemoveOne(i) PROVE LostInv'
  <2>1. {i} \in SUBSET Ids
    OBVIOUS
  <2> QED
    BY <1>4, <2>1, <1>3 DEF RemoveOne
<1>5. CASE RemoveBrokerImported
  BY <1>5, BrokerIds, <1>3 DEF RemoveBrokerImported
<1>6. ASSUME NEW d \in Cleaners, FindDuplicates(d) \/ RemoveDuplicates(d) PROVE LostInv'
  <2>1. CASE FindDuplicates(d)
    <3>1. UNCHANGED <<trades, batch, todo, short>> /\ Ids' = Ids
      BY <2>1 DEF FindDuplicates, Ids
    <3> QED
      BY <3>1 DEF LostInv, Covered, Pending, IdsOf
  <2>2. CASE RemoveDuplicates(d)
    <3>1. doomed[d] \in SUBSET Ids
      BY DEF TypeInv, TypeOK
    <3> QED
      BY <2>2, <3>1, <1>0, DeleteCovers DEF RemoveDuplicates
  <2> QED
    BY <1>6, <2>1, <2>2
<1>7. CASE UNCHANGED vars
  <2>1. UNCHANGED <<trades, batch, todo, short>> /\ Ids' = Ids
    BY <1>7 DEF vars, Ids
  <2> QED
    BY <2>1 DEF LostInv, Covered, Pending, IdsOf
<1> QED
  BY <1>1, <1>2, <1>4, <1>5, <1>6, <1>7 DEF Next

\* Every contract that an import brought is in the table when it has no row left to
\* create, for any number of imports of either source at once, rows that fail and
\* acts of the user: with the exceptions the property names (importTrades).
THEOREM AllCreated == Spec => []NothingLost
<1>1. TypeInv /\ LostInv => NothingLost
  <2> SUFFICES ASSUME TypeInv, LostInv, NEW p \in Imports, todo[p] = <<>>,
                      NEW i \in DOMAIN batch[p], batch[p][i].fill \notin short[p]
               PROVE  Cardinality(IdsOf(batch[p][i].fill)) >= RowsOf(batch[p], batch[p][i])
    BY DEF NothingLost
  <2> DEFINE k == batch[p][i]
  <2>1. k \in Range(batch[p])
    BY DEF Range
  <2>2. Covered(p, k)
    BY <2>1 DEF LostInv
  <2>3. Pending(p, k) = {}
    BY DEF Pending, Range
  <2>4. Cardinality(Pending(p, k)) = 0
    BY <2>3, FS_EmptySet
  <2>5. Cardinality(IdsOf(k.fill)) \in Nat /\ RowsOf(batch[p], k) \in Nat
    BY <2>1, Finite, RowsInBatch DEF TypeInv
  <2> QED
    BY <2>2, <2>4, <2>5 DEF Covered
<1>2. Spec => []LostInv
  BY InitLost, NextLost, TypeAlways, PTL DEF Spec
<1> QED
  BY <1>1, <1>2, TypeAlways, PTL

------------------------------------------------------------------------------
(* Removal of duplicates.                                                   *)

\* Older trades of a trade are of its fill, and their older trades are its own.
OrderInv ==
    \A i \in Ids :
        /\ i \notin trades[i].older
        /\ \A j \in trades[i].older :
            trades[j].key.fill = trades[i].key.fill /\ trades[j].older \subseteq trades[i].older

\* What a removal is about to delete has an older trade as long as the user removes
\* none of its fill, other removals at work included; it is no repetition.
DoomInv ==
    \A d \in Cleaners : \A i \in doomed[d] :
        /\ i \in Own \/ i.n = 1
        /\ trades[i].key.fill \notin removed => trades[i].older # {}

CleanInv == OrderInv /\ DoomInv

\* Every fill of the table has an oldest trade.
LEMMA Oldest ==
  ASSUME TypeInv, OrderInv, NEW f, IdsOf(f) # {}
  PROVE  \E m \in IdsOf(f) : trades[m].older = {}
<1> DEFINE S == {Cardinality(trades[i].older) : i \in IdsOf(f)}
<1>1. \A i \in Ids : /\ trades[i].older \subseteq Ids /\ IsFiniteSet(trades[i].older)
                     /\ Cardinality(trades[i].older) \in Nat
  <2> TAKE i \in Ids
  <2>1. trades[i].older \in SUBSET Ids
    BY DEF TypeInv, TypeOK
  <2> QED
    BY <2>1, FS_Subset, FS_CardinalityType DEF TypeInv
<1>2. S \in SUBSET Nat /\ S # {}
  BY <1>1 DEF IdsOf
<1>3. PICK c \in S : \A n \in S : c <= n
  BY <1>2, Least
<1>4. PICK m \in IdsOf(f) : c = Cardinality(trades[m].older)
  OBVIOUS
<1>5. SUFFICES ASSUME NEW j \in trades[m].older PROVE FALSE
  BY <1>4
<1>6. m \in Ids /\ j \in Ids /\ j \in IdsOf(f)
  BY <1>1 DEF IdsOf, OrderInv
<1>7. trades[j].older \subseteq trades[m].older \ {j}
  BY <1>6 DEF OrderInv
<1>8. Cardinality(trades[j].older) <= Cardinality(trades[m].older) - 1
  <2>1. IsFiniteSet(trades[m].older)
    BY <1>1, <1>6
  <2>2. /\ IsFiniteSet(trades[m].older \ {j})
        /\ Cardinality(trades[m].older \ {j}) = Cardinality(trades[m].older) - 1
    BY <2>1, FS_RemoveElement
  <2> QED
    BY <1>7, <2>2, FS_Subset
<1>9. c <= Cardinality(trades[j].older)
  BY <1>3, <1>6
<1>10. Cardinality(trades[j].older) \in Nat /\ Cardinality(trades[m].older) \in Nat
  BY <1>1, <1>6
<1> QED
  BY <1>4, <1>8, <1>9, <1>10

LEMMA InsertOrder ==
  ASSUME TypeInv, OrderInv, NEW id, NEW k, Insert(id, k), id \notin Ids
  PROVE  OrderInv'
<1>1. /\ Ids' = Ids \cup {id}
      /\ trades'[id] = [key |-> k, older |-> IdsOf(k.fill)]
      /\ \A i \in Ids : trades'[i] = trades[i]
  BY TypeTable, InsertShape
<1>2. \A i \in Ids : trades[i].older \subseteq Ids
  BY DEF TypeInv, TypeOK
<1>3. ASSUME NEW i \in Ids
      PROVE  /\ i \notin trades'[i].older
             /\ \A j \in trades'[i].older : trades'[j].key.fill = trades'[i].key.fill
                                             /\ trades'[j].older \subseteq trades'[i].older
  BY <1>1, <1>2 DEF OrderInv
<1>4. /\ id \notin trades'[id].older
      /\ \A j \in trades'[id].older : trades'[j].key.fill = trades'[id].key.fill
                                       /\ trades'[j].older \subseteq trades'[id].older
  BY <1>1, <1>2 DEF OrderInv, IdsOf
<1> QED
  BY <1>1, <1>3, <1>4 DEF OrderInv

LEMMA DeleteOrder ==
  ASSUME TypeInv, OrderInv, NEW ids, Delete(ids)
  PROVE  OrderInv'
<1>1. /\ Ids' = Ids \ ids
      /\ \A i \in Ids' : trades'[i].key = trades[i].key /\ trades'[i].older = trades[i].older \ ids
  BY TypeTable, DeleteShape
<1>2. \A i \in Ids : trades[i].older \subseteq Ids
  BY DEF TypeInv, TypeOK
<1> QED
  BY <1>1, <1>2 DEF OrderInv

LEMMA EditOrder ==
  ASSUME TypeInv, OrderInv, NEW i \in Ids, Edit(i)
  PROVE  OrderInv'
<1>1. /\ Ids' = Ids
      /\ \A j \in Ids : trades'[j].older = trades[j].older /\ trades'[j].key.fill = trades[j].key.fill
  BY TypeTable, EditShape
<1>2. \A j \in Ids : trades[j].older \subseteq Ids
  BY DEF TypeInv, TypeOK
<1> QED
  BY <1>1, <1>2 DEF OrderInv

\* Whoever deletes, the trades still doomed keep the oldest of their fill before them:
\* it is doomed by nobody, unless the user removed trades of the fill.
LEMMA DeleteDoom ==
  ASSUME TypeInv, CleanInv, NEW ids \in SUBSET Ids, Delete(ids), removed \subseteq removed',
         \A i \in ids : trades[i].older = {} => trades[i].key.fill \in removed'
  PROVE  DoomInv'
<1>1. /\ Ids' = Ids \ ids
      /\ \A i \in Ids' : trades'[i].key = trades[i].key /\ trades'[i].older = trades[i].older \ ids
      /\ \A f : IdsOf(f)' = IdsOf(f) \ ids
  BY TypeTable, DeleteShape
<1>2. \A d \in Cleaners : doomed'[d] = doomed[d] \ ids /\ doomed[d] \subseteq Ids
  BY DEF Delete, TypeInv, TypeOK
<1> SUFFICES ASSUME NEW d \in Cleaners, NEW i \in doomed'[d]
             PROVE  /\ i \in Own \/ i.n = 1
                    /\ trades'[i].key.fill \notin removed' => trades'[i].older # {}
  BY DEF DoomInv
<1>3. i \in doomed[d] /\ i \in Ids /\ i \in Ids' /\ i \notin ids
  BY <1>1, <1>2
<1>4. ASSUME trades'[i].key.fill \notin removed' PROVE trades'[i].older # {}
  <2> DEFINE f == trades[i].key.fill
  <2>1. f \notin removed' /\ f \notin removed /\ i \in IdsOf(f)
    BY <1>1, <1>3, <1>4 DEF IdsOf
  <2>2. PICK m \in IdsOf(f) : trades[m].older = {}
    BY <2>1, Oldest DEF CleanInv
  <2>3. m \in Ids /\ trades[m].key.fill = f /\ m \notin ids
    BY <2>1, <2>2 DEF IdsOf
  <2>4. trades[i].older # {}
    BY <1>3, <2>1 DEF CleanInv, DoomInv
  <2>5. m \in trades[i].older
    BY <2>2, <2>3, <2>4, <1>3 DEF TypeInv, TypeOK
  <2> QED
    BY <2>3, <2>5, <1>1, <1>3
<1> QED
  BY <1>3, <1>4 DEF CleanInv, DoomInv

LEMMA InitClean == Init => CleanInv
<1> SUFFICES ASSUME Init PROVE CleanInv
  OBVIOUS
<1>1. DoomInv
  BY DEF Init, DoomInv
<1>2. PICK n \in Nat : \E order \in [1 .. n -> Own], key \in OwnKeys : Entered(n, order, key)
  BY InitShape
<1>3. PICK order \in [1 .. n -> Own], key \in OwnKeys : Entered(n, order, key)
  BY <1>2
<1>4. ASSUME NEW i \in Ids
      PROVE  /\ i \notin trades[i].older
             /\ \A j \in trades[i].older :
                  trades[j].key.fill = trades[i].key.fill /\ trades[j].older \subseteq trades[i].older
  <2>1. PICK m \in 1 .. n : i = order[m]
    BY <1>3 DEF Entered
  <2>2. i \notin trades[i].older
    BY <2>1, <1>3 DEF Entered
  <2>3. ASSUME NEW j \in trades[i].older
        PROVE  trades[j].key.fill = trades[i].key.fill /\ trades[j].older \subseteq trades[i].older
    <3>1. PICK l \in 1 .. n : j = order[l]
      BY <2>1, <1>3 DEF Entered
    <3>2. l < m /\ key[order[l]].fill = key[order[m]].fill
      BY <3>1, <2>1, <2>3, <1>3 DEF Entered
    <3>3. trades[j].key.fill = trades[i].key.fill
      BY <3>1, <3>2, <2>1, <1>3 DEF Entered
    <3>4. ASSUME NEW x \in trades[j].older PROVE x \in trades[i].older
      <4>1. x \in Ids
        BY <3>1, <1>3 DEF Entered
      <4>2. PICK z \in 1 .. n : x = order[z]
        BY <4>1, <1>3 DEF Entered
      <4>3. z < l /\ key[order[z]].fill = key[order[l]].fill
        BY <4>2, <3>1, <3>4, <1>3 DEF Entered
      <4>4. z < m /\ key[order[z]].fill = key[order[m]].fill
        BY <4>3, <3>2
      <4> QED
        BY <4>2, <4>4, <2>1, <1>3 DEF Entered
    <3> QED
      BY <3>3, <3>4
  <2> QED
    BY <2>2, <2>3
<1> QED
  BY <1>1, <1>4 DEF CleanInv, OrderInv

\* A trade with a fingerprint is an extra only of a trade without, as its first.
LEMMA FindDoom ==
  ASSUME TypeInv, CleanInv, NEW c \in Cleaners, FindDuplicates(c)
  PROVE  CleanInv'
<1>1. UNCHANGED <<trades, removed>> /\ doomed' = [doomed EXCEPT ![c] = Extra] /\ Ids' = Ids
  BY DEF FindDuplicates, Ids
<1>2. OrderInv'
  BY <1>1 DEF OrderInv, CleanInv
<1>3. ASSUME NEW i \in Extra PROVE (i \in Own \/ i.n = 1) /\ trades[i].older # {}
  <2>1. PICK j \in trades[i].older : DuplicateIdentity(j) = DuplicateIdentity(i)
    BY DEF Extra
  <2>2. i \in Ids /\ i # j
    BY <2>1 DEF Extra, CleanInv, OrderInv
  <2>3. CASE i \notin Own
    <3>1. DuplicateIdentity(i) = i
      BY <2>3 DEF DuplicateIdentity
    <3>2. j \in Own
      BY <3>1, <2>1, <2>2 DEF DuplicateIdentity
    <3>3. i = [key |-> trades[j].key, n |-> 1]
      BY <3>1, <3>2, <2>1 DEF DuplicateIdentity
    <3>4. i.n = 1
      BY <3>3
    <3> QED
      BY <3>4, <2>1
  <2> QED
    BY <2>1, <2>3
<1>4. DoomInv'
  BY <1>1, <1>3 DEF DoomInv, CleanInv, TypeInv, TypeOK
<1> QED
  BY <1>2, <1>4 DEF CleanInv

LEMMA RemoveClean ==
  ASSUME TypeInv, CleanInv, NEW ids \in SUBSET Ids, Remove(ids)
  PROVE  CleanInv'
<1>1. Delete(ids) /\ removed' = removed \cup {trades[i].key.fill : i \in ids}
  BY DEF Remove
<1>2. OrderInv'
  BY <1>1, DeleteOrder DEF CleanInv
<1>3. DoomInv'
  BY <1>1, DeleteDoom
<1> QED
  BY <1>2, <1>3 DEF CleanInv

LEMMA NextClean == TypeInv /\ CleanInv /\ [Next]_vars => CleanInv'
<1> SUFFICES ASSUME TypeInv, CleanInv, [Next]_vars PROVE CleanInv'
  OBVIOUS
<1>0. \A d \in Cleaners : doomed[d] \subseteq Ids
  BY DEF TypeInv, TypeOK
<1>1. ASSUME UNCHANGED <<trades, doomed, removed>> PROVE CleanInv'
  BY <1>1 DEF CleanInv, OrderInv, DoomInv, Ids
<1>2. ASSUME NEW id, NEW k, Insert(id, k), id \notin Ids, UNCHANGED <<doomed, removed>> PROVE CleanInv'
  <2>1. OrderInv'
    BY <1>2, InsertOrder DEF CleanInv
  <2>2. \A i \in Ids : trades'[i] = trades[i]
    BY <1>2, TypeTable, InsertShape
  <2> QED
    BY <2>1, <2>2, <1>0, <1>2 DEF CleanInv, DoomInv
<1>3. ASSUME NEW p \in Imports,
             (\E b \in Batches : Start(p, b)) \/ Create(p) \/ Fails(p) \/ Ends(p)
      PROVE  CleanInv'
  <2>1. CASE Create(p)
    <3>1. UNCHANGED <<doomed, removed>>
      BY <2>1 DEF Create
    <3>2. CASE Head(todo[p]) \in Ids
      BY <3>1, <3>2, <2>1, <1>1 DEF Create
    <3>3. CASE Head(todo[p]) \notin Ids
      <4>1. Insert(Head(todo[p]), Head(todo[p]).key)
        BY <3>3, <2>1 DEF Create
      <4> QED
        BY <3>1, <3>3, <4>1, <1>2
    <3> QED
      BY <3>2, <3>3
  <2> QED
    BY <2>1, <1>1, <1>3 DEF Start, Fails, Ends
<1>4. ASSUME NEW o \in Own, NEW k \in Key, Enter(o, k) PROVE CleanInv'
  BY <1>2, <1>4 DEF Enter
<1>5. ASSUME NEW i \in Ids, Edit(i) PROVE CleanInv'
  <2>1. OrderInv'
    BY <1>5, EditOrder DEF CleanInv
  <2>2. \A j \in Ids : trades'[j].older = trades[j].older /\ trades'[j].key.fill = trades[j].key.fill
    BY <1>5, TypeTable, EditShape
  <2>3. UNCHANGED <<doomed, removed>>
    BY <1>5 DEF Edit
  <2> QED
    BY <2>1, <2>2, <2>3, <1>0 DEF CleanInv, DoomInv
<1>6. ASSUME NEW i \in Ids, RemoveOne(i) PROVE CleanInv'
  <2>1. {i} \in SUBSET Ids
    OBVIOUS
  <2> QED
    BY <1>6, <2>1, RemoveClean DEF RemoveOne
<1>7. CASE RemoveBrokerImported
  BY <1>7, BrokerIds, RemoveClean DEF RemoveBrokerImported
<1>8. ASSUME NEW d \in Cleaners, RemoveDuplicates(d) PROVE CleanInv'
  <2>1. Delete(doomed[d]) /\ removed' = removed /\ doomed[d] \in SUBSET Ids
    BY <1>0, <1>8 DEF RemoveDuplicates
  <2>2. \A i \in doomed[d] : trades[i].older = {} => trades[i].key.fill \in removed'
    BY <2>1 DEF CleanInv, DoomInv
  <2>3. OrderInv'
    BY <2>1, DeleteOrder DEF CleanInv
  <2>4. DoomInv'
    BY <2>1, <2>2, DeleteDoom
  <2> QED
    BY <2>3, <2>4 DEF CleanInv
<1>9. CASE UNCHANGED vars
  BY <1>1, <1>9 DEF vars
<1> QED
  BY <1>3, <1>4, <1>5, <1>6, <1>7, <1>8, <1>9, FindDoom DEF Next

LEMMA CleanAlways == Spec => []CleanInv
BY InitClean, NextClean, TypeAlways, PTL DEF Spec

\* Removing duplicates, however many removals are at work and whatever the user edits
\* and imports bring meanwhile, takes no repetition that an import created on purpose
\* and never the last trade of a fill (removeDuplicates).
THEOREM OneOfEachKept == Spec => KeepsOneOfEach
<1>1. TypeInv /\ CleanInv =>
        \A d \in Cleaners : RemoveDuplicates(d) =>
            /\ \A i \in Ids \ Ids' : i \in Own \/ i.n = 1
            /\ \A f \in Fills \ removed : IdsOf(f) # {} => IdsOf(f)' # {}
  <2> SUFFICES ASSUME TypeInv, CleanInv, NEW d \in Cleaners, RemoveDuplicates(d)
               PROVE  /\ \A i \in Ids \ Ids' : i \in Own \/ i.n = 1
                      /\ \A f \in Fills \ removed : IdsOf(f) # {} => IdsOf(f)' # {}
    OBVIOUS
  <2>1. Delete(doomed[d])
    BY DEF RemoveDuplicates
  <2>2. Ids' = Ids \ doomed[d] /\ \A f : IdsOf(f)' = IdsOf(f) \ doomed[d]
    BY <2>1, TypeTable, DeleteShape
  <2>3. \A i \in Ids \ Ids' : i \in Own \/ i.n = 1
    BY <2>2 DEF CleanInv, DoomInv
  <2>4. ASSUME NEW f \in Fills \ removed, IdsOf(f) # {} PROVE IdsOf(f)' # {}
    <3>1. PICK m \in IdsOf(f) : trades[m].older = {}
      BY <2>4, Oldest DEF CleanInv
    <3>2. m \notin doomed[d]
      BY <3>1, <2>4 DEF CleanInv, DoomInv, IdsOf
    <3> QED
      BY <3>1, <3>2, <2>2
  <2> QED
    BY <2>3, <2>4
<1> QED
  BY <1>1, TypeAlways, CleanAlways, PTL DEF KeepsOneOfEach

------------------------------------------------------------------------------
(* Nothing twice.                                                           *)

\* Where the rows and the trades of a fill come from, unless it is blurred: what is
\* to create is of the batch, a fingerprint is that of its trade, and the imports
\* in progress that bring the fill are of one source.
SourceInv ==
    /\ \A p \in Imports : \A h \in Range(todo[p]) : h.key \in Range(batch[p])
    /\ \A i \in Ids : trades[i].key.fill \notin blurred =>
            trades[i].key.dated # "edited" /\ (i \in Own \/ trades[i].key = i.key)
    /\ \A p, q \in Imports : \A k \in Range(batch[p]), l \in Range(batch[q]) :
            k.fill = l.fill /\ k.fill \notin blurred => k.dated = l.dated

\* What all the imports together have to create of k; the highest rank that the fill
\* has room for; the trades and fingerprints to come that a rank x counts before it,
\* with those beyond the limit.
PendingIds(k) == {h \in UNION {Range(todo[p]) : p \in Imports} : h.key = k}
Limit(k) == Contracts[k.fill] - TradesAt(Twin(k))
Upto(k, x) ==
    {i \in IdsAt(k) : i \in Own \/ i.n <= x \/ i.n > Limit(k)}
        \cup {h \in PendingIds(k) : h.n <= x}

\* A rank to be created has room, and no more than that many are counted before it.
RankOK(k) ==
    \A h \in PendingIds(k) : h.n <= Limit(k) /\ Cardinality(Upto(k, h.n)) <= h.n
RankInv ==
    \A k \in Key : k.dated \in Sources /\ k.fill \notin blurred => RankOK(k)

TwiceInv == SourceInv /\ RankInv

\* The fingerprints of k of ranks above x, up to y.
Ranks(k, x, y) == {[key |-> k, n |-> n] : n \in (x + 1) .. y}

LEMMA RanksCount ==
  ASSUME NEW k, NEW x \in Nat, NEW y \in Nat, x <= y
  PROVE  /\ IsFiniteSet(Ranks(k, x, y)) /\ Cardinality(Ranks(k, x, y)) \in Nat
         /\ Cardinality(Ranks(k, x, y)) <= y - x
<1> DEFINE f == [n \in (x + 1) .. y |-> [key |-> k, n |-> n]]
<1>1. f \in Surjection((x + 1) .. y, Ranks(k, x, y))
  BY DEF Surjection, Ranks
<1>2. x + 1 \in Int /\ y \in Int
  OBVIOUS
<1>3. IsFiniteSet((x + 1) .. y) /\ Cardinality((x + 1) .. y) = y - x
  <2>1. /\ IsFiniteSet((x + 1) .. y)
        /\ Cardinality((x + 1) .. y) = IF x + 1 > y THEN 0 ELSE y - (x + 1) + 1
    BY <1>2, FS_Interval
  <2> QED
    BY <2>1
<1> HIDE DEF f
<1>4. IsFiniteSet(Ranks(k, x, y)) /\ Cardinality(Ranks(k, x, y)) <= y - x
  BY <1>1, <1>3, FS_Surjection
<1> QED
  BY <1>4, FS_CardinalityType

LEMMA CountUpto ==
  ASSUME NEW k, NEW x \in Nat, NEW y \in Nat, x <= y,
         NEW A, IsFiniteSet(A), Cardinality(A) <= x, NEW B, B \subseteq A \cup Ranks(k, x, y)
  PROVE  IsFiniteSet(B) /\ Cardinality(B) <= y
<1> DEFINE R == Ranks(k, x, y)
<1>1. IsFiniteSet(R) /\ Cardinality(R) \in Nat /\ Cardinality(R) <= y - x
  BY RanksCount
<1> HIDE DEF R
<1>2. /\ IsFiniteSet(A \cup R)
      /\ Cardinality(A \cup R) = Cardinality(A) + Cardinality(R) - Cardinality(A \cap R)
  BY <1>1, FS_Union
<1>3. Cardinality(A) \in Nat /\ Cardinality(A \cap R) \in Nat
  <2>1. IsFiniteSet(A \cap R)
    BY FS_Intersection
  <2> QED
    BY <2>1, FS_CardinalityType
<1>4. IsFiniteSet(B) /\ Cardinality(B) <= Cardinality(A \cup R) /\ Cardinality(B) \in Nat
  <2>1. B \in SUBSET (A \cup R)
    BY DEF R
  <2> QED
    BY <2>1, <1>2, FS_Subset, FS_CardinalityType
<1> QED
  BY <1>1, <1>2, <1>3, <1>4

LEMMA PendingShape ==
  ASSUME TypeInv, NEW k, NEW h \in PendingIds(k)
  PROVE  /\ h \in Hash /\ h.key = k /\ k \in Key /\ h.n \in Nat \ {0}
         /\ h = [key |-> k, n |-> h.n] /\ h \notin Own
         /\ \E p \in Imports : h \in Range(todo[p])
<1>1. PICK p \in Imports : h \in Range(todo[p])
  BY DEF PendingIds
<1>2. todo[p] \in Seq(Hash)
  BY DEF TypeInv, TypeOK
<1>3. h \in Hash /\ h.key = k
  BY <1>1, <1>2, RangeSeq DEF PendingIds
<1>4. k \in Key /\ h.n \in Nat \ {0} /\ h = [key |-> k, n |-> h.n]
  BY <1>3 DEF Hash
<1> QED
  BY <1>1, <1>3, <1>4, OwnAssumption

\* A trade with a fingerprint is the one of its key and rank.
LEMMA TradeShape ==
  ASSUME TypeInv, SourceInv, NEW k, k.fill \notin blurred, NEW i \in IdsAt(k), i \notin Own
  PROVE  i.n \in Nat \ {0} /\ i = [key |-> k, n |-> i.n]
<1>1. i \in Hash /\ i.key = k
  BY DEF IdsAt, SourceInv, TypeInv, TypeOK
<1> QED
  BY <1>1 DEF Hash

LEMMA UptoFinite ==
  ASSUME TypeInv, NEW k, NEW x \in Nat
  PROVE  IsFiniteSet(Upto(k, x)) /\ Cardinality(Upto(k, x)) \in Nat
<1>1. \A h \in PendingIds(k) : h.n <= x => h \in Ranks(k, 0, x)
  BY PendingShape DEF Ranks
<1>2. Upto(k, x) \in SUBSET (IdsAt(k) \cup Ranks(k, 0, x))
  BY <1>1 DEF Upto
<1>3. IsFiniteSet(IdsAt(k) \cup Ranks(k, 0, x))
  <2>1. IsFiniteSet(Ranks(k, 0, x))
    BY RanksCount
  <2>2. IsFiniteSet(IdsAt(k))
    BY Finite DEF TypeInv
  <2> QED
    BY <2>1, <2>2, FS_Union
<1> QED
  BY <1>2, <1>3, FS_Subset, FS_CardinalityType

\* Each rank above x counts one more.
LEMMA Grow ==
  ASSUME TypeInv, SourceInv, NEW k, k.fill \notin blurred, NEW x \in Nat, NEW y \in Nat,
         x <= y, Cardinality(Upto(k, x)) <= x
  PROVE  Cardinality(Upto(k, y)) <= y
<1>1. \A i \in IdsAt(k) : i \in Own \/ i.n <= x \/ i.n > y \/ i \in Ranks(k, x, y)
  BY TradeShape DEF Ranks
<1>2. \A h \in PendingIds(k) : h.n <= x \/ h.n > y \/ h \in Ranks(k, x, y)
  BY PendingShape DEF Ranks
<1>3. \A i \in IdsAt(k) : i \in Own \/ i.n \in Nat
  BY TradeShape
<1>4. \A h \in PendingIds(k) : h.n \in Nat
  BY PendingShape
<1>5. Upto(k, y) \subseteq Upto(k, x) \cup Ranks(k, x, y)
  BY <1>1, <1>2, <1>3, <1>4 DEF Upto
<1> QED
  BY <1>5, UptoFinite, CountUpto

LEMMA FiniteNext ==
  ASSUME TypeInv'
  PROVE  /\ \A k : IsFiniteSet(IdsAt(k)') /\ TradesAt(k)' \in Nat
         /\ \A f : IsFiniteSet(IdsOf(f)') /\ Cardinality(IdsOf(f)') \in Nat
<1>1. \A k : IdsAt(k)' \in SUBSET Ids'
  BY DEF IdsAt
<1>2. \A f : IdsOf(f)' \in SUBSET Ids'
  BY DEF IdsOf
<1>3. \A S \in SUBSET Ids' : IsFiniteSet(S) /\ Cardinality(S) \in Nat
  BY FS_Subset, FS_CardinalityType DEF TypeInv
<1> QED
  BY <1>1, <1>2, <1>3 DEF TradesAt

LEMMA LimitType ==
  ASSUME TypeInv, NEW k \in Key
  PROVE  Limit(k) \in Int /\ Contracts[k.fill] \in Nat \ {0}
BY Finite, ContractsAssumption DEF TypeInv, Limit, Key

LEMMA LimitNext ==
  ASSUME TypeInv', NEW k \in Key
  PROVE  Limit(k)' \in Int
BY FiniteNext, ContractsAssumption DEF Limit, Key

\* Fewer trades of either dating and less to create leave a rank its room.
LEMMA RankFrame ==
  ASSUME TypeInv, TypeInv', SourceInv, NEW k \in Key, k.fill \notin blurred, RankOK(k),
         IdsAt(k)' \subseteq IdsAt(k), PendingIds(k)' \subseteq PendingIds(k),
         IdsAt(Twin(k))' \subseteq IdsAt(Twin(k))
  PROVE  RankOK(k)'
<1>1. Limit(k) <= Limit(k)' /\ Limit(k) \in Int /\ Limit(k)' \in Int
  <2>1. TradesAt(Twin(k))' <= TradesAt(Twin(k))
    <3>1. IsFiniteSet(IdsAt(Twin(k)))
      BY Finite DEF TypeInv
    <3> QED
      BY <3>1, FS_Subset DEF TradesAt
  <2>2. TradesAt(Twin(k))' \in Nat /\ TradesAt(Twin(k)) \in Nat /\ Contracts[k.fill] \in Nat
    BY Finite, FiniteNext, LimitType DEF TypeInv
  <2> QED
    BY <2>1, <2>2 DEF Limit
<1> SUFFICES ASSUME NEW h \in PendingIds(k)'
             PROVE  h.n <= Limit(k)' /\ Cardinality(Upto(k, h.n)') <= h.n
  BY DEF RankOK
<1>2. h \in PendingIds(k) /\ h.n \in Nat
  BY PendingShape
<1>3. h.n <= Limit(k) /\ Cardinality(Upto(k, h.n)) <= h.n
  BY <1>2 DEF RankOK
<1>4. \A i \in IdsAt(k) : i \in Own \/ i.n \in Nat
  BY TradeShape
<1>5. Upto(k, h.n)' \in SUBSET Upto(k, h.n)
  BY <1>1, <1>4 DEF Upto
<1>6. IsFiniteSet(Upto(k, h.n)) /\ Cardinality(Upto(k, h.n)) \in Nat
  BY <1>2, UptoFinite
<1>7. Cardinality(Upto(k, h.n)') <= Cardinality(Upto(k, h.n)) /\ Cardinality(Upto(k, h.n)') \in Nat
  BY <1>5, <1>6, FS_Subset, FS_CardinalityType
<1> QED
  BY <1>1, <1>2, <1>3, <1>6, <1>7

\* The fingerprints to create are of the batch, above the trades there are, and the
\* twin leaves them room.
LEMMA MissingRanks ==
  ASSUME TypeInv, NEW b \in Batches, NEW h \in Range(Missing(b))
  PROVE  /\ h \in Hash /\ h.key \in Range(b) /\ h.key \in Key /\ h.key.dated \in Sources
         /\ h.n \in Nat /\ TradesAt(h.key) < h.n /\ h.n <= Limit(h.key)
<1>1. Counted
  BY Finite DEF TypeInv
<1>2. PICK d \in Sources : /\ \A i \in 1 .. Len(b) : b[i] \in KeysOf(d)
                           /\ Closed(b, d, Len(b), Decisions(b)[Len(b)])
  BY <1>1, MissingClosed
<1> DEFINE acc == Decisions(b)[Len(b)]
           k == h.key
<1>3. Missing(b) = acc.hashes
  BY DEF Missing
<1> HIDE DEF acc
<1>4. AccType(acc) /\ Pooled(b, d, Len(b), acc) /\ Hashed(d, acc)
  BY <1>2 DEF Closed, acc
<1>5. h \in Hash /\ h.n \in Nat \ {0} /\ k \in Key
  <2>1. Missing(b) \in Seq(Hash)
    BY <1>3, <1>4 DEF AccType
  <2>2. h \in Hash
    BY <2>1, RangeSeq
  <2> QED
    BY <2>2 DEF Hash
<1>6. k \in KeysOf(d) /\ TradesAt(k) < h.n /\ h.n <= acc.rank[k]
  BY <1>3, <1>4 DEF Hashed, Range
<1>7. TradesAt(Twin(k)) \in Nat /\ Len(b) \in Nat /\ RowsTo(b, Len(b), k) \in Nat
  <2>1. Len(b) \in Nat /\ Twin(k) \in Key
    BY <1>6, BatchShape, TwinKey
  <2>2. RowsTo(b, Len(b), k) \in Nat
    BY <2>1, CountRows
  <2> QED
    BY <2>1, <2>2, <1>1 DEF Counted
<1>8. h.n + TradesAt(Twin(k)) <= RowsTo(b, Len(b), k)
  <2>1. acc.rank[k] = Max0(RowsTo(b, Len(b), k) - TradesAt(Twin(k)))
    BY <1>4, <1>6 DEF Pooled
  <2> QED
    BY <2>1, <1>5, <1>6, <1>7 DEF Max0
<1>9. PICK j \in 1 .. Len(b) : b[j] = k
  <2>1. RowsTo(b, Len(b), k) # 0
    BY <1>5, <1>7, <1>8
  <2>2. {j \in 1 .. Len(b) : b[j] = k} # {}
    BY <2>1, FS_EmptySet DEF RowsTo
  <2> QED
    BY <2>2
<1>10. k \in Range(b)
  BY <1>9, BatchShape DEF Range
<1>11. RowsTo(b, Len(b), k) <= Contracts[k.fill]
  <2>1. j \in DOMAIN b
    BY <1>9, BatchShape
  <2>2. RowsOf(b, b[j]) <= Contracts[b[j].fill]
    BY <2>1, BatchesAssumption
  <2> QED
    BY <2>2, <1>9, BatchShape
<1>12. h.n <= Limit(k)
  <2>1. Contracts[k.fill] \in Nat
    BY <1>5, ContractsAssumption DEF Key
  <2> QED
    BY <2>1, <1>5, <1>7, <1>8, <1>11 DEF Limit
<1> QED
  BY <1>5, <1>6, <1>10, <1>12 DEF KeysOf

LEMMA StartSource ==
  ASSUME TypeInv, TypeInv', SourceInv, NEW p \in Imports, NEW b \in Batches, Start(p, b)
  PROVE  SourceInv'
<1>1. /\ batch' = [batch EXCEPT ![p] = b] /\ todo' = [todo EXCEPT ![p] = Missing(b)]
      /\ trades' = trades /\ Ids' = Ids /\ blurred \subseteq blurred'
      /\ \A q \in Imports : q # p => batch'[q] = batch[q] /\ todo'[q] = todo[q]
      /\ batch'[p] = b /\ todo'[p] = Missing(b)
  BY DEF Start, TypeInv, TypeOK, Ids
<1>2. ASSUME NEW q \in Imports, NEW h \in Range(todo'[q]) PROVE h.key \in Range(batch'[q])
  <2>1. CASE q = p
    BY <2>1, <1>1, <1>2, MissingRanks
  <2>2. CASE q # p
    BY <2>2, <1>1, <1>2 DEF SourceInv
  <2> QED
    BY <2>1, <2>2
<1>3. ASSUME NEW i \in Ids', trades'[i].key.fill \notin blurred'
      PROVE  trades'[i].key.dated # "edited" /\ (i \in Own \/ trades'[i].key = i.key)
  BY <1>1, <1>3 DEF SourceInv
\* Another import in progress that brings the fill is of the same source.
<1>4. ASSUME NEW k \in Range(b), NEW q \in Imports, q # p, NEW l \in Range(batch[q]),
             k.fill = l.fill, k.fill \notin blurred'
      PROVE  k.dated = l.dated
  <2>1. batch[q] \in Batches /\ InProgress(q)
    BY RowsInBatch
  <2>2. k.dated = b[1].dated
    <3>1. PICK d \in Sources : \A i \in 1 .. Len(b) : b[i] \in KeysOf(d)
      BY BatchShape
    <3>2. 1 \in 1 .. Len(b)
      BY BatchShape
    <3> QED
      BY <3>1, <3>2, BatchShape DEF Range, KeysOf
  <2>3. l.dated = batch[q][1].dated
    <3>1. PICK d \in Sources : \A i \in 1 .. Len(batch[q]) : batch[q][i] \in KeysOf(d)
      BY <2>1, BatchShape
    <3>2. 1 \in 1 .. Len(batch[q])
      BY <2>1, BatchShape
    <3> QED
      BY <3>1, <3>2, <2>1, BatchShape DEF Range, KeysOf
  <2>4. k.fill \in FillsOf(b) /\ l.fill \in FillsOf(batch[q])
    BY DEF FillsOf, Range
  <2>5. blurred' = blurred \cup
            UNION {FillsOf(b) \cap FillsOf(batch[r]) :
                   r \in {r \in Imports : InProgress(r) /\ batch[r][1].dated # b[1].dated}}
    BY DEF Start
  <2> QED
    BY <2>1, <2>2, <2>3, <2>4, <2>5, <1>4
<1>5. ASSUME NEW q \in Imports, NEW r \in Imports, NEW k \in Range(batch'[q]),
             NEW l \in Range(batch'[r]), k.fill = l.fill, k.fill \notin blurred'
      PROVE  k.dated = l.dated
  <2>1. CASE q = p /\ r = p
    <3>1. k \in Range(b) /\ l \in Range(b)
      BY <2>1, <1>1
    <3>2. PICK d \in Sources : \A i \in 1 .. Len(b) : b[i] \in KeysOf(d)
      BY BatchShape
    <3> QED
      BY <3>1, <3>2, BatchShape DEF Range, KeysOf
  <2>2. CASE q = p /\ r # p
    BY <2>2, <1>1, <1>4, <1>5
  <2>3. CASE q # p /\ r = p
    BY <2>3, <1>1, <1>4, <1>5
  <2>4. CASE q # p /\ r # p
    <3>1. k \in Range(batch[q]) /\ l \in Range(batch[r]) /\ k.fill \notin blurred
      BY <2>4, <1>1, <1>5
    <3> QED
      BY <3>1, <1>5 DEF SourceInv
  <2> QED
    BY <2>1, <2>2, <2>3, <2>4
<1> QED
  BY <1>2, <1>3, <1>5 DEF SourceInv

\* The ranks an import adds come after those of the table, which are no more than
\* the trades there are, whatever other imports have still to create.
LEMMA StartRank ==
  ASSUME TypeInv, TypeInv', SourceInv, RankInv, NEW p \in Imports, NEW b \in Batches,
         Start(p, b), NEW k \in Key, k.dated \in Sources, k.fill \notin blurred'
  PROVE  RankOK(k)'
<1>1. /\ trades' = trades /\ Ids' = Ids /\ blurred \subseteq blurred'
      /\ \A q \in Imports : q # p => todo'[q] = todo[q]
      /\ todo'[p] = Missing(b)
  BY DEF Start, TypeInv, TypeOK, Ids
<1>2. RankOK(k) /\ k.fill \notin blurred
  BY <1>1 DEF RankInv
<1>3. /\ IdsAt(k)' = IdsAt(k) /\ IdsAt(Twin(k))' = IdsAt(Twin(k)) /\ Limit(k)' = Limit(k)
  BY <1>1 DEF IdsAt, Limit, TradesAt
<1> DEFINE New == {h \in Range(Missing(b)) : h.key = k}
           t == TradesAt(k)
<1>4. PendingIds(k)' \subseteq PendingIds(k) \cup New
  BY <1>1 DEF PendingIds
<1>5. \A h \in New : h \in Hash /\ h.n \in Nat /\ t < h.n /\ h.n <= Limit(k) /\ h = [key |-> k, n |-> h.n]
  BY MissingRanks DEF Hash
<1>6. t \in Nat /\ IsFiniteSet(IdsAt(k))
  BY Finite DEF TypeInv
<1> HIDE DEF New
<1>7. \A h \in PendingIds(k) : h.n \in Nat /\ h = [key |-> k, n |-> h.n]
  BY PendingShape
<1>8. \A i \in IdsAt(k) : i \in Own \/ (i.n \in Nat /\ i = [key |-> k, n |-> i.n])
  BY <1>2, TradeShape
<1>9. IsFiniteSet(Upto(k, t)) /\ Cardinality(Upto(k, t)) <= t
  <2>1. IsFiniteSet(Upto(k, t)) /\ Cardinality(Upto(k, t)) \in Nat
    BY <1>6, UptoFinite
  <2>2. CASE \E h \in PendingIds(k) : h.n <= t
    <3>1. PICK h \in PendingIds(k) : h.n <= t
      BY <2>2
    <3>2. h.n \in Nat /\ Cardinality(Upto(k, h.n)) <= h.n
      BY <3>1, <1>2, <1>7 DEF RankOK
    <3> HIDE DEF t
    <3> QED
      BY <3>1, <3>2, <2>1, <1>2, <1>6, Grow
  <2>3. CASE ~ \E h \in PendingIds(k) : h.n <= t
    <3>1. Upto(k, t) \in SUBSET IdsAt(k)
      BY <2>3 DEF Upto
    <3>2. Cardinality(Upto(k, t)) <= Cardinality(IdsAt(k))
      BY <3>1, <1>6, FS_Subset
    <3> QED
      BY <3>2, <2>1 DEF TradesAt
  <2> QED
    BY <2>2, <2>3
<1> HIDE DEF t
<1> SUFFICES ASSUME NEW h \in PendingIds(k)'
             PROVE  h.n <= Limit(k)' /\ Cardinality(Upto(k, h.n)') <= h.n
  BY DEF RankOK
<1>10. h.n \in Nat /\ h.n <= Limit(k)
  BY <1>2, <1>4, <1>5, <1>7 DEF RankOK
<1>11. CASE h.n <= t
  <2>1. h \in PendingIds(k)
    BY <1>4, <1>5, <1>6, <1>10, <1>11
  <2>2. Upto(k, h.n)' \in SUBSET Upto(k, h.n)
    <3>1. \A g \in New : ~ g.n <= h.n
      BY <1>5, <1>6, <1>10, <1>11
    <3> QED
      BY <3>1, <1>3, <1>4 DEF Upto
  <2>3. IsFiniteSet(Upto(k, h.n)) /\ Cardinality(Upto(k, h.n)) \in Nat
    BY <1>10, UptoFinite
  <2>4. /\ Cardinality(Upto(k, h.n)') <= Cardinality(Upto(k, h.n))
        /\ Cardinality(Upto(k, h.n)') \in Nat
    BY <2>2, <2>3, FS_Subset, FS_CardinalityType
  <2>5. Cardinality(Upto(k, h.n)) <= h.n
    BY <2>1, <1>2 DEF RankOK
  <2> QED
    BY <2>3, <2>4, <2>5, <1>3, <1>10
<1>12. CASE ~ h.n <= t
  <2>1. \A i \in IdsAt(k) : i \in Own \/ i.n <= t \/ i.n > h.n \/ i \in Ranks(k, t, h.n)
    BY <1>6, <1>8, <1>10 DEF Ranks
  <2>2. \A g \in PendingIds(k) \cup New : g.n <= t \/ g.n > h.n \/ g \in Ranks(k, t, h.n)
    BY <1>5, <1>6, <1>7, <1>10 DEF Ranks
  <2>3. \A g \in New : ~ g.n <= t
    BY <1>5, <1>6
  <2>4. \A g \in PendingIds(k) \cup New : g.n \in Nat
    BY <1>5, <1>7
  <2>5. Upto(k, h.n)' \subseteq Upto(k, t) \cup Ranks(k, t, h.n)
    BY <2>1, <2>2, <2>3, <2>4, <1>3, <1>4, <1>8, <1>10 DEF Upto
  <2>6. Cardinality(Upto(k, h.n)') <= h.n
    BY <2>5, <1>6, <1>9, <1>10, <1>12, CountUpto
  <2> QED
    BY <2>6, <1>3, <1>10
<1> QED
  BY <1>11, <1>12

\* What Create does when nobody has the fingerprint yet.
LEMMA CreateShape ==
  ASSUME TypeInv, NEW p \in Imports, Create(p), Head(todo[p]) \notin Ids
  PROVE  LET h == Head(todo[p])
         IN  /\ h \in Hash /\ h \notin Own /\ h.key \in Key /\ h \in Range(todo[p])
             /\ Insert(h, h.key) /\ Ids' = Ids \cup {h}
             /\ trades'[h].key = h.key /\ \A i \in Ids : trades'[i] = trades[i]
             /\ \A f : IdsOf(f)' = IdsOf(f) \cup (IF h.key.fill = f THEN {h} ELSE {})
             /\ \A l : IdsAt(l)' = IdsAt(l) \cup (IF h.key = l THEN {h} ELSE {})
<1> DEFINE h == Head(todo[p])
<1>1. todo[p] \in Seq(Hash) /\ todo[p] # <<>>
  BY DEF Create, TypeInv, TypeOK
<1>2. h \in Hash /\ h \in Range(todo[p])
  BY <1>1, RangeSeq
<1>3. h.key \in Key /\ h \notin Own
  BY <1>2, OwnAssumption DEF Hash
<1>4. Insert(h, h.key)
  BY DEF Create
<1> HIDE DEF h
<1>5. /\ Ids' = Ids \cup {h}
      /\ trades'[h] = [key |-> h.key, older |-> IdsOf(h.key.fill)]
      /\ \A i \in Ids : trades'[i] = trades[i]
      /\ \A f : IdsOf(f)' = IdsOf(f) \cup (IF h.key.fill = f THEN {h} ELSE {})
      /\ \A l : IdsAt(l)' = IdsAt(l) \cup (IF h.key = l THEN {h} ELSE {})
  <2>1. TableOK /\ h \notin Ids
    BY TypeTable DEF h
  <2> QED
    BY <2>1, <1>4, InsertShape
<1> QED
  BY <1>2, <1>3, <1>4, <1>5 DEF h

\* Rows to create go, and never come back: the head is of the todo list.
LEMMA LessTodo ==
  ASSUME TypeInv, NEW p \in Imports, Create(p) \/ Fails(p) \/ Ends(p)
  PROVE  /\ \A q \in Imports : Range(todo'[q]) \subseteq Range(todo[q])
         /\ \A k : PendingIds(k)' \subseteq PendingIds(k)
<1>1. ASSUME NEW q \in Imports PROVE Range(todo'[q]) \subseteq Range(todo[q])
  <2>1. CASE (Create(p) \/ Fails(p)) /\ q = p
    <3>1. todo[p] \in Seq(Hash) /\ todo[p] # <<>> /\ todo'[p] = Tail(todo[p])
      BY <2>1 DEF Create, Fails, TypeInv, TypeOK
    <3> QED
      BY <2>1, <3>1, RangeSeq
  <2>2. CASE Ends(p) /\ q = p
    <3>1. todo'[p] = <<>>
      BY <2>2 DEF Ends, TypeInv, TypeOK
    <3> QED
      BY <2>2, <3>1 DEF Range
  <2>3. CASE q # p
    BY <2>3 DEF Create, Fails, Ends, TypeInv, TypeOK
  <2> QED
    BY <2>1, <2>2, <2>3
<1> QED
  BY <1>1 DEF PendingIds

LEMMA CreateSource ==
  ASSUME TypeInv, SourceInv, NEW p \in Imports, Create(p)
  PROVE  SourceInv'
<1>1. batch' = batch /\ blurred' = blurred
  BY DEF Create
<1>2. \A q \in Imports : \A h \in Range(todo'[q]) : h.key \in Range(batch[q])
  BY LessTodo DEF SourceInv
<1>3. \A i \in Ids' : trades'[i].key.fill \notin blurred =>
            trades'[i].key.dated # "edited" /\ (i \in Own \/ trades'[i].key = i.key)
  <2>1. CASE Head(todo[p]) \in Ids
    <3>1. trades' = trades /\ Ids' = Ids
      BY <2>1 DEF Create, Ids
    <3> QED
      BY <3>1 DEF SourceInv
  <2>2. CASE Head(todo[p]) \notin Ids
    <3> DEFINE h == Head(todo[p])
    <3>1. /\ h \in Range(todo[p]) /\ Ids' = Ids \cup {h} /\ trades'[h].key = h.key
          /\ \A i \in Ids : trades'[i] = trades[i]
      BY <2>2, CreateShape
    <3>2. h.key \in Range(batch[p])
      BY <3>1 DEF SourceInv
    <3>3. h.key.dated # "edited"
      <4>1. batch[p] \in Batches
        BY <3>2, RowsInBatch
      <4> QED
        BY <4>1, <3>2, BatchShape DEF Range, KeysOf, Sources
    <3> HIDE DEF h
    <3> QED
      BY <3>1, <3>3 DEF SourceInv
  <2> QED
    BY <2>1, <2>2
<1> QED
  BY <1>1, <1>2, <1>3 DEF SourceInv

\* A row that is created was counted already; nobody brings the twin meanwhile.
LEMMA CreateRank ==
  ASSUME TypeInv, TypeInv', SourceInv, RankInv, NEW p \in Imports, Create(p),
         NEW k \in Key, k.dated \in Sources, k.fill \notin blurred'
  PROVE  RankOK(k)'
<1> DEFINE h == Head(todo[p])
<1>1. blurred' = blurred /\ RankOK(k) /\ PendingIds(k)' \subseteq PendingIds(k)
  BY LessTodo DEF Create, RankInv
<1>2. CASE h \in Ids
  <2>1. trades' = trades /\ Ids' = Ids
    BY <1>2 DEF Create, Ids
  <2>2. IdsAt(k)' = IdsAt(k) /\ IdsAt(Twin(k))' = IdsAt(Twin(k))
    BY <2>1 DEF IdsAt
  <2> QED
    BY <2>2, <1>1, RankFrame
<1>3. CASE h \notin Ids
  <2>1. /\ h \in Hash /\ h \notin Own /\ h.key \in Key /\ h \in Range(todo[p])
        /\ Ids' = Ids \cup {h}
        /\ \A l : IdsAt(l)' = IdsAt(l) \cup (IF h.key = l THEN {h} ELSE {})
    BY <1>3, CreateShape
  <2> HIDE DEF h
  <2>2. k \in KeysOf(k.dated) /\ Twin(k) # k /\ Twin(k).fill = k.fill /\ Twin(k).dated # k.dated
    <3>1. k \in KeysOf(k.dated)
      BY DEF KeysOf
    <3> QED
      BY <3>1, TwinKey
  <2>3. CASE h.key = k
    <3>1. /\ IdsAt(k)' = IdsAt(k) \cup {h} /\ IdsAt(Twin(k))' = IdsAt(Twin(k)) \cup {}
          /\ h \in PendingIds(k)
      BY <2>1, <2>2, <2>3 DEF PendingIds
    <3>2. Limit(k)' = Limit(k)
      BY <3>1 DEF Limit, TradesAt
    <3>3. h.n <= Limit(k) /\ h.n \in Nat /\ Limit(k) \in Int
      BY <3>1, <1>1, PendingShape, LimitType DEF RankOK
    <3> SUFFICES ASSUME NEW g \in PendingIds(k)'
                 PROVE  g.n <= Limit(k)' /\ Cardinality(Upto(k, g.n)') <= g.n
      BY DEF RankOK
    <3>4. g \in PendingIds(k) /\ g.n \in Nat
      BY <1>1, PendingShape
    <3>5. Upto(k, g.n)' \in SUBSET Upto(k, g.n)
      BY <3>1, <3>2, <3>3, <2>1, <1>1 DEF Upto
    <3>6. IsFiniteSet(Upto(k, g.n)) /\ Cardinality(Upto(k, g.n)) \in Nat
      BY <3>4, UptoFinite
    <3>7. /\ Cardinality(Upto(k, g.n)') <= Cardinality(Upto(k, g.n))
          /\ Cardinality(Upto(k, g.n)') \in Nat
      BY <3>5, <3>6, FS_Subset, FS_CardinalityType
    <3>8. g.n <= Limit(k) /\ Cardinality(Upto(k, g.n)) <= g.n
      BY <3>4, <1>1 DEF RankOK
    <3> QED
      BY <3>2, <3>4, <3>6, <3>7, <3>8
  <2>4. CASE h.key = Twin(k)
    <3>1. PendingIds(k) = {}
      <4> SUFFICES ASSUME NEW g \in PendingIds(k) PROVE FALSE
        OBVIOUS
      <4>1. PICK q \in Imports : g \in Range(todo[q])
        BY PendingShape
      <4>2. k \in Range(batch[q]) /\ Twin(k) \in Range(batch[p])
        BY <4>1, <2>1, <2>4, PendingShape DEF SourceInv
      <4> QED
        BY <4>2, <2>2, <1>1 DEF SourceInv
    <3> QED
      BY <3>1, <1>1 DEF RankOK
  <2>5. CASE h.key # k /\ h.key # Twin(k)
    <3>1. IdsAt(k)' = IdsAt(k) \cup {} /\ IdsAt(Twin(k))' = IdsAt(Twin(k)) \cup {}
      BY <2>1, <2>5
    <3> QED
      BY <3>1, <1>1, RankFrame
  <2> QED
    BY <2>3, <2>4, <2>5
<1> QED
  BY <1>2, <1>3

LEMMA InitTwice == Init => TwiceInv
<1> SUFFICES ASSUME Init PROVE TwiceInv
  OBVIOUS
<1>1. (\A p \in Imports : todo[p] = <<>> /\ batch[p] = <<>>)
  BY DEF Init
<1>2. \A p \in Imports : Range(todo[p]) = {} /\ Range(batch[p]) = {}
  BY <1>1 DEF Range
<1>3. PICK n \in Nat : \E order \in [1 .. n -> Own], key \in OwnKeys : Entered(n, order, key)
  BY InitShape
<1>4. PICK order \in [1 .. n -> Own], key \in OwnKeys : Entered(n, order, key)
  BY <1>3
<1>5. \A i \in Ids : i \in Own /\ trades[i].key.dated # "edited"
  BY <1>4 DEF Entered, OwnKeys
<1>6. SourceInv
  BY <1>2, <1>5 DEF SourceInv
<1>7. RankInv
  BY <1>2 DEF RankInv, RankOK, PendingIds
<1> QED
  BY <1>6, <1>7 DEF TwiceInv

\* Other steps of imports.
LEMMA EndTwice ==
  ASSUME TypeInv, TypeInv', TwiceInv, NEW p \in Imports, Fails(p) \/ Ends(p)
  PROVE  TwiceInv'
<1>1. /\ trades' = trades /\ Ids' = Ids /\ blurred' = blurred
      /\ \A q \in Imports : batch'[q] = batch[q] \/ batch'[q] = <<>>
  BY DEF Fails, Ends, Ids, TypeInv, TypeOK
<1>2. \A q \in Imports : Range(todo'[q]) \subseteq Range(todo[q])
  BY LessTodo
<1>3. \A q \in Imports : Range(batch'[q]) \subseteq Range(batch[q])
  BY <1>1 DEF Range
<1>4. ASSUME NEW q \in Imports, NEW h \in Range(todo'[q]) PROVE h.key \in Range(batch'[q])
  <2>1. h.key \in Range(batch[q])
    BY <1>2, <1>4 DEF TwiceInv, SourceInv
  <2>2. CASE batch'[q] = batch[q]
    BY <2>1, <2>2
  <2>3. CASE batch'[q] # batch[q]
    <3>1. Ends(p) /\ q = p
      BY <2>3 DEF Fails, Ends, TypeInv, TypeOK
    <3>2. todo'[q] = <<>>
      BY <3>1 DEF Ends, TypeInv, TypeOK
    <3> QED
      BY <3>2, <1>4 DEF Range
  <2> QED
    BY <2>2, <2>3
<1>5. SourceInv'
  <2>1. \A q, r \in Imports : \A k \in Range(batch'[q]), l \in Range(batch'[r]) :
            k.fill = l.fill /\ k.fill \notin blurred' => k.dated = l.dated
    BY <1>1, <1>3 DEF TwiceInv, SourceInv
  <2>2. \A i \in Ids' : trades'[i].key.fill \notin blurred' =>
            trades'[i].key.dated # "edited" /\ (i \in Own \/ trades'[i].key = i.key)
    BY <1>1 DEF TwiceInv, SourceInv
  <2> QED
    BY <1>4, <2>1, <2>2 DEF SourceInv
<1>6. ASSUME NEW k \in Key, k.dated \in Sources, k.fill \notin blurred' PROVE RankOK(k)'
  <2>1. RankOK(k)
    BY <1>1, <1>6 DEF TwiceInv, RankInv
  <2>2. IdsAt(k)' = IdsAt(k) /\ IdsAt(Twin(k))' = IdsAt(Twin(k))
    BY <1>1 DEF IdsAt
  <2>3. PendingIds(k)' \subseteq PendingIds(k)
    BY LessTodo
  <2> QED
    BY <2>1, <2>2, <2>3, <1>1, <1>6, RankFrame DEF TwiceInv
<1> QED
  BY <1>5, <1>6 DEF TwiceInv, RankInv

\* Trades that go leave room.
LEMMA DeleteTwice ==
  ASSUME TypeInv, TypeInv', TwiceInv, NEW ids \in SUBSET Ids, Delete(ids),
         UNCHANGED <<batch, todo, blurred>>
  PROVE  TwiceInv'
<1>1. /\ Ids' = Ids \ ids
      /\ \A i \in Ids' : trades'[i].key = trades[i].key
      /\ \A l : IdsAt(l)' = IdsAt(l) \ ids
  BY TypeTable, DeleteShape
<1>2. SourceInv'
  BY <1>1 DEF TwiceInv, SourceInv
<1>3. ASSUME NEW k \in Key, k.dated \in Sources, k.fill \notin blurred PROVE RankOK(k)'
  <2>1. RankOK(k)
    BY <1>3 DEF TwiceInv, RankInv
  <2>2. IdsAt(k)' \subseteq IdsAt(k) /\ IdsAt(Twin(k))' \subseteq IdsAt(Twin(k))
    BY <1>1
  <2>3. PendingIds(k)' = PendingIds(k)
    BY DEF PendingIds
  <2> QED
    BY <2>1, <2>2, <2>3, <1>3, RankFrame DEF TwiceInv
<1> QED
  BY <1>2, <1>3 DEF TwiceInv, RankInv

\* A trade entered or edited is of no fill that an import in progress may count on.
LEMMA UserTwice ==
  ASSUME TypeInv, TypeInv', TwiceInv,
         (\E o \in Own, k \in Key : Enter(o, k)) \/ (\E i \in Ids : Edit(i))
  PROVE  TwiceInv'
<1>1. batch' = batch /\ todo' = todo /\ blurred \subseteq blurred'
  BY DEF Enter, Edit
<1>2. \A k : PendingIds(k)' = PendingIds(k)
  BY <1>1 DEF PendingIds
<1>3. CASE \E o \in Own, l \in Key : Enter(o, l)
  <2>1. PICK o \in Own, l \in Key : Enter(o, l)
    BY <1>3
  <2>2. Insert(o, l) /\ o \notin Ids /\ TableOK /\ l.dated # "edited"
    BY <2>1, TypeTable DEF Enter
  <2>3. /\ Ids' = Ids \cup {o} /\ trades'[o] = [key |-> l, older |-> IdsOf(l.fill)]
        /\ \A i \in Ids : trades'[i] = trades[i]
    BY <2>2, InsertShape
  <2>4. \A k : IdsAt(k)' = IdsAt(k) \cup (IF l = k THEN {o} ELSE {})
    BY <2>2, InsertShape
  <2>5. SourceInv'
    <3>1. \A i \in Ids' : trades'[i].key.fill \notin blurred' =>
            trades'[i].key.dated # "edited" /\ (i \in Own \/ trades'[i].key = i.key)
      BY <2>2, <2>3, <1>1 DEF TwiceInv, SourceInv
    <3> QED
      BY <3>1, <1>1 DEF TwiceInv, SourceInv
  <2>6. ASSUME NEW k \in Key, k.dated \in Sources, k.fill \notin blurred' PROVE RankOK(k)'
    <3>1. RankOK(k) /\ k.fill \notin blurred
      BY <1>1, <2>6 DEF TwiceInv, RankInv
    <3>2. Twin(k).fill = k.fill
      <4>1. k \in KeysOf(k.dated)
        BY DEF KeysOf
      <4> QED
        BY <4>1, <2>6, TwinKey
    <3>3. CASE l.fill = k.fill
      <4>1. \A p \in Imports : ~ InProgress(p)
        BY <3>3, <2>1, <2>6 DEF Enter
      <4>2. PendingIds(k) = {}
        <5> SUFFICES ASSUME NEW g \in PendingIds(k) PROVE FALSE
          OBVIOUS
        <5>1. PICK q \in Imports : g \in Range(todo[q])
          BY PendingShape
        <5>2. g.key \in Range(batch[q])
          BY <5>1 DEF TwiceInv, SourceInv
        <5> QED
          BY <5>2, <4>1, RowsInBatch
      <4> QED
        BY <4>2, <1>2 DEF RankOK
    <3>4. CASE l.fill # k.fill
      <4>1. l # k /\ l # Twin(k)
        BY <3>2, <3>4
      <4>2. IdsAt(k)' = IdsAt(k) \cup {} /\ IdsAt(Twin(k))' = IdsAt(Twin(k)) \cup {}
        BY <4>1, <2>4
      <4> QED
        BY <3>1, <4>2, <1>2, RankFrame DEF TwiceInv
    <3> QED
      BY <3>3, <3>4
  <2> QED
    BY <2>5, <2>6 DEF TwiceInv, RankInv
<1>4. CASE \E i \in Ids : Edit(i)
  <2>1. PICK i \in Ids : Edit(i)
    BY <1>4
  <2>2. /\ Ids' = Ids
        /\ \A j \in Ids : /\ trades'[j].key.fill = trades[j].key.fill
                          /\ j # i => trades'[j] = trades[j]
    BY <2>1, TypeTable, EditShape
  <2>3. trades[i].key.fill \in blurred'
    BY <2>1 DEF Edit
  <2>4. SourceInv'
    <3>1. \A j \in Ids' : trades'[j].key.fill \notin blurred' =>
            trades'[j].key.dated # "edited" /\ (j \in Own \/ trades'[j].key = j.key)
      BY <2>2, <2>3, <1>1 DEF TwiceInv, SourceInv
    <3> QED
      BY <3>1, <1>1 DEF TwiceInv, SourceInv
  <2>5. ASSUME NEW k \in Key, k.dated \in Sources, k.fill \notin blurred' PROVE RankOK(k)'
    <3>1. RankOK(k) /\ k.fill \notin blurred
      BY <1>1, <2>5 DEF TwiceInv, RankInv
    <3>2. Twin(k).fill = k.fill
      <4>1. k \in KeysOf(k.dated)
        BY DEF KeysOf
      <4> QED
        BY <4>1, <2>5, TwinKey
    <3>3. IdsAt(k)' \subseteq IdsAt(k) /\ IdsAt(Twin(k))' \subseteq IdsAt(Twin(k))
      BY <3>2, <2>2, <2>3, <2>5 DEF IdsAt
    <3> QED
      BY <3>1, <3>3, <1>2, RankFrame DEF TwiceInv
  <2> QED
    BY <2>4, <2>5 DEF TwiceInv, RankInv
<1> QED
  BY <1>3, <1>4

LEMMA NextTwice == TypeInv /\ TwiceInv /\ [Next]_vars => TwiceInv'
<1> SUFFICES ASSUME TypeInv, TwiceInv, [Next]_vars PROVE TwiceInv'
  OBVIOUS
<1>0. TypeInv'
  BY NextType
<1>1. ASSUME NEW p \in Imports, NEW b \in Batches, Start(p, b) PROVE TwiceInv'
  <2>1. SourceInv'
    BY <1>0, <1>1, StartSource DEF TwiceInv
  <2>2. RankInv'
    BY <1>0, <1>1, StartRank DEF TwiceInv, RankInv
  <2> QED
    BY <2>1, <2>2 DEF TwiceInv
<1>2. ASSUME NEW p \in Imports, Create(p) PROVE TwiceInv'
  <2>1. SourceInv'
    BY <1>2, CreateSource DEF TwiceInv
  <2>2. RankInv'
    BY <1>0, <1>2, CreateRank DEF TwiceInv, RankInv
  <2> QED
    BY <2>1, <2>2 DEF TwiceInv
<1>3. ASSUME NEW p \in Imports, Fails(p) \/ Ends(p) PROVE TwiceInv'
  BY <1>0, <1>3, EndTwice
<1>4. CASE (\E o \in Own, k \in Key : Enter(o, k)) \/ (\E i \in Ids : Edit(i))
  BY <1>0, <1>4, UserTwice
<1>5. ASSUME NEW ids \in SUBSET Ids, Remove(ids) PROVE TwiceInv'
  BY <1>0, <1>5, DeleteTwice DEF Remove
<1>6. ASSUME NEW i \in Ids, RemoveOne(i) PROVE TwiceInv'
  <2>1. {i} \in SUBSET Ids
    OBVIOUS
  <2> QED
    BY <1>6, <2>1, <1>5 DEF RemoveOne
<1>7. CASE RemoveBrokerImported
  BY <1>7, BrokerIds, <1>5 DEF RemoveBrokerImported
<1>8. ASSUME UNCHANGED <<trades, batch, todo, blurred>> PROVE TwiceInv'
  <2>1. Ids' = Ids
    BY <1>8 DEF Ids
  <2>2. SourceInv'
    BY <1>8, <2>1 DEF TwiceInv, SourceInv
  <2>3. RankInv'
    <3>1. ASSUME NEW k \in Key, k.dated \in Sources, k.fill \notin blurred PROVE RankOK(k)'
      <4>1. IdsAt(k)' = IdsAt(k) /\ IdsAt(Twin(k))' = IdsAt(Twin(k))
        BY <1>8, <2>1 DEF IdsAt
      <4>2. PendingIds(k)' = PendingIds(k)
        BY <1>8 DEF PendingIds
      <4> QED
        BY <3>1, <4>1, <4>2, <1>0, RankFrame DEF TwiceInv, RankInv
    <3> QED
      BY <3>1, <1>8 DEF RankInv
  <2> QED
    BY <2>2, <2>3 DEF TwiceInv
<1>9. ASSUME NEW d \in Cleaners, FindDuplicates(d) \/ RemoveDuplicates(d) PROVE TwiceInv'
  <2>1. CASE FindDuplicates(d)
    BY <2>1, <1>8 DEF FindDuplicates
  <2>2. CASE RemoveDuplicates(d)
    <3>1. doomed[d] \in SUBSET Ids
      BY DEF TypeInv, TypeOK
    <3> QED
      BY <2>2, <3>1, <1>0, DeleteTwice DEF RemoveDuplicates
  <2> QED
    BY <1>9, <2>1, <2>2
<1>10. CASE UNCHANGED vars
  BY <1>8, <1>10 DEF vars
<1> QED
  BY <1>1, <1>2, <1>3, <1>4, <1>6, <1>7, <1>9, <1>10 DEF Next

LEMMA TwiceAlways == Spec => []TwiceInv
BY InitTwice, NextTwice, TypeAlways, PTL DEF Spec

\* A row is created only while its fill has fewer trades than contracts: those the
\* rank counts before it, the ranks between it and the limit, and the twin's.
LEMMA CreateRoom ==
  ASSUME TypeInv, TwiceInv, NEW p \in Imports, Create(p), Head(todo[p]) \notin Ids,
         NEW f \in Fills \ blurred, Head(todo[p]).key.fill = f
  PROVE  Cardinality(IdsOf(f)) < Contracts[f]
<1> DEFINE h == Head(todo[p])
           k == h.key
<1>1. h \in Hash /\ h \notin Own /\ k \in Key /\ h \in Range(todo[p])
  BY CreateShape
<1>2. k \in Range(batch[p]) /\ k.dated \in Sources /\ k.fill = f
  <2>1. k \in Range(batch[p])
    BY <1>1 DEF TwiceInv, SourceInv
  <2>2. batch[p] \in Batches
    BY <2>1, RowsInBatch
  <2> QED
    BY <2>1, <2>2, BatchShape DEF Range, KeysOf
<1>3. h \in PendingIds(k) /\ h \notin IdsAt(k)
  BY <1>1 DEF PendingIds, IdsAt
<1> DEFINE x == h.n
           U == Upto(k, x)
           L == Limit(k)
<1>4. x \in Nat \ {0} /\ L \in Int /\ x <= L /\ Cardinality(U) <= x /\ RankOK(k)
  BY <1>1, <1>2, <1>3, PendingShape, LimitType DEF TwiceInv, RankInv, RankOK
<1>5. IsFiniteSet(U) /\ h \in U
  BY <1>3, <1>4, UptoFinite DEF Upto
<1>6. \A i \in IdsAt(k) : i \in Own \/ (i.n \in Nat /\ i = [key |-> k, n |-> i.n])
  BY <1>2, TradeShape DEF TwiceInv
<1>7. IdsAt(k) \subseteq (U \ {h}) \cup Ranks(k, x, L)
  BY <1>3, <1>4, <1>6 DEF Upto, Ranks
<1> HIDE DEF U, L, x
<1>8. IsFiniteSet(U \ {h}) /\ Cardinality(U \ {h}) = Cardinality(U) - 1
  BY <1>5, FS_RemoveElement
<1>9. Cardinality(IdsAt(k)) <= L - 1
  <2>1. IsFiniteSet(Ranks(k, x, L)) /\ Cardinality(Ranks(k, x, L)) <= L - x
        /\ Cardinality(Ranks(k, x, L)) \in Nat
    BY <1>4, RanksCount
  <2> DEFINE R == Ranks(k, x, L)
             V == U \ {h}
  <2>2. Cardinality(V \cup R) = Cardinality(V) + Cardinality(R) - Cardinality(V \cap R)
        /\ IsFiniteSet(V \cup R)
    BY <1>8, <2>1, FS_Union
  <2>3. Cardinality(V \cap R) \in Nat /\ Cardinality(U) \in Nat /\ Cardinality(IdsAt(k)) \in Nat
    BY <1>5, <1>8, FS_Intersection, FS_CardinalityType, Finite DEF TypeInv, TradesAt
  <2>4. Cardinality(IdsAt(k)) <= Cardinality(V \cup R)
    BY <1>7, <2>2, FS_Subset
  <2> HIDE DEF R, V
  <2>5. Cardinality(V) = Cardinality(U) - 1 /\ Cardinality(R) <= L - x /\ Cardinality(R) \in Nat
    BY <1>8, <2>1 DEF V, R
  <2> QED
    BY <1>4, <2>2, <2>3, <2>4, <2>5
<1>10. Cardinality(IdsOf(f)) <= TradesAt(k) + TradesAt(Twin(k))
  <2>1. IdsOf(f) \subseteq IdsAt(k) \cup IdsAt(Twin(k))
    <3> SUFFICES ASSUME NEW i \in IdsOf(f) PROVE trades[i].key = k \/ trades[i].key = Twin(k)
      BY DEF IdsOf, IdsAt
    <3>1. i \in Ids /\ trades[i].key \in Key /\ trades[i].key.fill = k.fill
      BY <1>2 DEF IdsOf, TypeInv, TypeOK
    <3>2. trades[i].key.dated \in Sources
      BY <3>1, <1>2 DEF TwiceInv, SourceInv, Key, Sources
    <3> HIDE DEF k
    <3> QED
      BY <3>1, <3>2, <1>1, <1>2 DEF Key, Twin, Sources
  <2>2. IsFiniteSet(IdsAt(k)) /\ IsFiniteSet(IdsAt(Twin(k)))
    BY Finite DEF TypeInv
  <2>3. /\ IsFiniteSet(IdsAt(k) \cup IdsAt(Twin(k)))
        /\ Cardinality(IdsAt(k) \cup IdsAt(Twin(k)))
             = TradesAt(k) + TradesAt(Twin(k)) - Cardinality(IdsAt(k) \cap IdsAt(Twin(k)))
    BY <2>2, FS_Union DEF TradesAt
  <2>4. Cardinality(IdsAt(k) \cap IdsAt(Twin(k))) \in Nat
    BY <2>2, FS_Intersection, FS_CardinalityType
  <2>5. Cardinality(IdsOf(f)) <= Cardinality(IdsAt(k) \cup IdsAt(Twin(k)))
    BY <2>1, <2>3, FS_Subset
  <2>6. Cardinality(IdsOf(f)) \in Nat /\ TradesAt(k) \in Nat /\ TradesAt(Twin(k)) \in Nat
    BY Finite DEF TypeInv
  <2> HIDE DEF k
  <2> QED
    BY <2>3, <2>4, <2>5, <2>6
<1>11. TradesAt(k) <= Contracts[f] - TradesAt(Twin(k)) - 1
  BY <1>9, <1>2 DEF TradesAt, L, Limit
<1>12. /\ Cardinality(IdsOf(f)) \in Nat /\ TradesAt(k) \in Nat /\ TradesAt(Twin(k)) \in Nat
       /\ Contracts[f] \in Nat
  BY Finite, ContractsAssumption DEF TypeInv
<1> HIDE DEF k
<1> QED
  BY <1>10, <1>11, <1>12

\* No import adds a trade to a fill that has all its contracts, for any number of
\* imports at once of the file or of the broker, retries after failures and crashes,
\* removals and acts of the user; unless the fill is blurred (importTrades, and the
\* unique index on importHash).
THEOREM NeverTwice == Spec => NothingTwice
<1>1. TypeInv /\ TwiceInv /\ [Next]_vars =>
        \A f \in Fills \ blurred' :
            ~((IdsOf(f) \ Own)' \subseteq IdsOf(f)) => Cardinality(IdsOf(f)) < Contracts[f]
  <2> SUFFICES ASSUME TypeInv, TwiceInv, [Next]_vars, NEW f \in Fills \ blurred',
                      ~ ((IdsOf(f) \ Own)' \subseteq IdsOf(f))
               PROVE  Cardinality(IdsOf(f)) < Contracts[f]
    OBVIOUS
  <2>1. ASSUME NEW p \in Imports, Create(p) PROVE Cardinality(IdsOf(f)) < Contracts[f]
    <3>1. blurred' = blurred
      BY <2>1 DEF Create
    <3>2. Head(todo[p]) \notin Ids
      <4> SUFFICES ASSUME Head(todo[p]) \in Ids PROVE FALSE
        OBVIOUS
      <4>1. trades' = trades /\ Ids' = Ids
        BY <2>1 DEF Create, Ids
      <4> QED
        BY <4>1 DEF IdsOf
    <3>3. IdsOf(f)' = IdsOf(f) \cup (IF Head(todo[p]).key.fill = f THEN {Head(todo[p])} ELSE {})
      BY <2>1, <3>2, CreateShape
    <3>4. Head(todo[p]).key.fill = f
      BY <3>3
    <3> QED
      BY <2>1, <3>1, <3>2, <3>4, CreateRoom
  <2>2. ASSUME trades' = trades PROVE FALSE
    BY <2>2 DEF IdsOf, Ids
  <2>3. ASSUME NEW o \in Own, NEW k \in Key, Enter(o, k) PROVE FALSE
    <3>1. Insert(o, k) /\ o \notin Ids /\ TableOK
      BY <2>3, TypeTable DEF Enter
    <3>2. IdsOf(f)' = IdsOf(f) \cup (IF k.fill = f THEN {o} ELSE {})
      BY <3>1, InsertShape
    <3> QED
      BY <3>2
  <2>4. ASSUME NEW i \in Ids, Edit(i) PROVE FALSE
    <3>1. IdsOf(f)' = IdsOf(f)
      BY <2>4, TypeTable, EditShape
    <3> QED
      BY <3>1
  <2>5. ASSUME NEW ids, Delete(ids) PROVE FALSE
    <3>1. IdsOf(f)' = IdsOf(f) \ ids
      BY <2>5, TypeTable, DeleteShape
    <3> QED
      BY <3>1
  <2> QED
    BY <2>1, <2>2, <2>3, <2>4, <2>5
       DEF Next, Start, Fails, Ends, RemoveOne, RemoveBrokerImported, Remove,
           FindDuplicates, RemoveDuplicates, vars
<1> QED
  BY <1>1, TypeAlways, TwiceAlways, PTL DEF NothingTwice, Spec

=============================================================================
