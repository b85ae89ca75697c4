--------------------------- MODULE UserCacheProofs ---------------------------
(* Theorems about UserCache, for any number of requests and changes and    *)
(* any two durations.                                                      *)
EXTENDS UserCache, TLAPS

\* The version key holds a number as long as it exists.
KeyOK == versionLife = 0 => version = 0

LEMMA RequestShapes ==
    ASSUME NEW q \in Request \cup {Idle}
    PROVE  /\ q = Idle <=> q.at = "idle"
           /\ q # Idle => q.floor \in Writes
           /\ q.at \in {"get", "load", "set"} => q.v \in Versions
           /\ q.at \in {"set", "done"} => q.got \in Writes
           /\ q.at \in {"get", "load"} =>
                q \in [at : {"get", "load"}, floor : Writes, v : Versions]
BY DEF Request, Idle

LEMMA MoveType ==
    ASSUME TypeOK, NEW r \in Readers, NEW from, NEW to \in Request \cup {Idle},
           Move(r, from, to)
    PROVE  reader' \in [Readers -> Request \cup {Idle}]
BY DEF Move, TypeOK

\* The steps of a request keep the types.
LEMMA RequestType ==
    ASSUME TypeOK, NEW r \in Readers, Begin(r) \/ Read(r)
    PROVE  TypeOK'
<1> DEFINE q == reader[r]
<1>1. q \in Request \cup {Idle}
  BY DEF TypeOK
<1>2. row \in Writes /\ announced \in Writes /\ version \in Versions
  BY CacheAssumption DEF TypeOK, Writes, Versions
<1>3. CASE Begin(r)
  <2>1. [at |-> "version", floor |-> announced] \in Request
    BY <1>2 DEF Request
  <2>2. reader' \in [Readers -> Request \cup {Idle}]
    BY <1>3, <2>1, MoveType DEF Begin
  <2> QED
    BY <1>3, <2>2 DEF Begin, TypeOK, database, redis
<1>4. CASE ReadVersion(r)
  <2>1. q.floor \in Writes
    BY <1>1, <1>4, RequestShapes DEF ReadVersion, Move, Idle
  <2>2. [at |-> "get", floor |-> q.floor, v |-> version] \in Request
    BY <1>2, <2>1 DEF Request
  <2>3. reader' \in [Readers -> Request \cup {Idle}]
    BY <1>4, <2>2, MoveType DEF ReadVersion
  <2> QED
    BY <1>4, <2>3 DEF ReadVersion, TypeOK, database, redis
<1>5. CASE Hit(r)
  <2>1. q.floor \in Writes /\ q.v \in Versions
    BY <1>1, <1>5, RequestShapes DEF Hit, Idle
  <2>2. Done(r, entry[q.v].val) \in Request
    BY <2>1 DEF Request, Done, TypeOK
  <2>3. reader' \in [Readers -> Request \cup {Idle}]
    BY <1>5, <2>2, MoveType DEF Hit
  <2> QED
    BY <1>5, <2>3 DEF Hit, TypeOK, database, redis
<1>6. CASE Miss(r)
  <2>1. q \in [at : {"get", "load"}, floor : Writes, v : Versions]
    BY <1>1, <1>6, RequestShapes DEF Miss
  <2>2. [q EXCEPT !.at = "load"] \in Request
    BY <2>1 DEF Request
  <2>3. reader' \in [Readers -> Request \cup {Idle}]
    BY <1>6, <2>2, MoveType DEF Miss
  <2> QED
    BY <1>6, <2>3 DEF Miss, TypeOK, database, redis
<1>7. CASE ReadFails(r)
  <2>1. q.floor \in Writes
    BY <1>1, <1>7, RequestShapes DEF ReadFails, Idle
  <2>2. [at |-> "direct", floor |-> q.floor] \in Request
    BY <2>1 DEF Request
  <2>3. reader' \in [Readers -> Request \cup {Idle}]
    BY <1>7, <2>2, MoveType DEF ReadFails
  <2> QED
    BY <1>7, <2>3 DEF ReadFails, TypeOK, database, redis
<1>8. CASE Load(r)
  <2>1. q.floor \in Writes /\ q.v \in Versions
    BY <1>1, <1>8, RequestShapes DEF Load, Move, Idle
  <2>2. /\ Done(r, row) \in Request
        /\ [at |-> "set", floor |-> q.floor, v |-> q.v, got |-> row] \in Request
    BY <1>2, <2>1 DEF Request, Done
  <2>3. reader' \in [Readers -> Request \cup {Idle}]
    BY <1>8, <2>2, MoveType DEF Load
  <2> QED
    BY <1>8, <2>3 DEF Load, TypeOK, database, redis
<1>9. CASE LoadDirect(r)
  <2>1. q.floor \in Writes
    BY <1>1, <1>9, RequestShapes DEF LoadDirect, Move, Idle
  <2>2. Done(r, row) \in Request
    BY <1>2, <2>1 DEF Request, Done
  <2>3. reader' \in [Readers -> Request \cup {Idle}]
    BY <1>9, <2>2, MoveType DEF LoadDirect
  <2> QED
    BY <1>9, <2>3 DEF LoadDirect, TypeOK, database, redis
<1>10. CASE Set(r)
  <2>1. q.floor \in Writes /\ q.v \in Versions /\ q.got \in Writes
    BY <1>1, <1>10, RequestShapes DEF Set, Move, Idle
  <2>2. Done(r, q.got) \in Request
    BY <2>1 DEF Request, Done
  <2>3. reader' \in [Readers -> Request \cup {Idle}]
    BY <1>10, <2>2, MoveType DEF Set
  <2>4. entry' \in [Versions -> [val : Writes, life : 0 .. EntryTtl]]
    BY <1>10, <2>1, CacheAssumption DEF Set, NewEntry, TypeOK
  <2> QED
    BY <1>10, <2>3, <2>4 DEF Set, TypeOK, database
<1>11. CASE Return(r)
  <2>1. reader' \in [Readers -> Request \cup {Idle}]
    BY <1>11, MoveType DEF Return
  <2> QED
    BY <1>11, <2>1 DEF Return, TypeOK, database, redis
<1> QED
  BY <1>3, <1>4, <1>5, <1>6, <1>7, <1>8, <1>9, <1>10, <1>11 DEF Read

LEMMA ChangeType ==
    ASSUME TypeOK, KeyOK, Write \/ Invalidate \/ InvalidateFails \/ Tick
    PROVE  TypeOK' /\ KeyOK'
<1>1. CASE Write
  BY <1>1, CacheAssumption DEF Write, TypeOK, KeyOK, Writes, redis
<1>2. CASE Invalidate
  BY <1>2, CacheAssumption DEF Invalidate, NextVersion, TypeOK, KeyOK, Writes
<1>3. CASE InvalidateFails
  BY <1>3, CacheAssumption DEF InvalidateFails, TypeOK, KeyOK, Writes, redis
<1>4. CASE Tick
  <2>1. \A n \in 0 .. EntryTtl : Less(n) \in 0 .. EntryTtl
    BY CacheAssumption DEF Less
  <2>2. entry' \in [Versions -> [val : Writes, life : 0 .. EntryTtl]]
    BY <1>4, <2>1 DEF Tick, TypeOK
  <2>3. versionLife' \in 0 .. VersionTtl
    <3>1. versionLife \in 0 .. VersionTtl /\ Less(versionLife) \in 0 .. VersionTtl
      BY CacheAssumption DEF TypeOK, Less
    <3>2. versionLife' \in {versionLife, Less(versionLife)}
      BY <1>4, Zenon DEF Tick
    <3> QED
      BY <3>1, <3>2
  <2> QED
    BY <1>4, <2>2, <2>3, CacheAssumption DEF Tick, TypeOK, KeyOK, database, Writes
<1> QED
  BY <1>1, <1>2, <1>3, <1>4

LEMMA InitType == Init => TypeOK /\ KeyOK
<1> SUFFICES ASSUME Init PROVE TypeOK /\ KeyOK
  OBVIOUS
<1>1. reader \in [Readers -> Request \cup {Idle}]
  BY DEF Init
<1>2. entry \in [Versions -> [val : Writes, life : 0 .. EntryTtl]]
  <2>1. [val |-> 0, life |-> 0] \in [val : Writes, life : 0 .. EntryTtl]
    BY CacheAssumption DEF Writes
  <2> QED
    BY <2>1 DEF Init
<1>3. gone \in BOOLEAN
  BY DEF Init
<1>4. row = 0 /\ pending = 0 /\ announced = 0 /\ version = 0 /\ versionLife = 0
  BY DEF Init
<1> QED
  BY <1>1, <1>2, <1>3, <1>4, CacheAssumption DEF TypeOK, KeyOK, Writes

LEMMA TypeStep == TypeOK /\ KeyOK /\ [Next]_vars => TypeOK' /\ KeyOK'
<1> SUFFICES ASSUME TypeOK, KeyOK, [Next]_vars PROVE TypeOK' /\ KeyOK'
  OBVIOUS
<1>1. ASSUME NEW r \in Readers, Begin(r) \/ Read(r) PROVE TypeOK' /\ KeyOK'
  <2>1. UNCHANGED <<version, versionLife>>
    BY <1>1 DEF Begin, Read, ReadVersion, Hit, Miss, ReadFails, Load, LoadDirect, Set,
                Return, redis
  <2> QED
    BY <1>1, <2>1, RequestType DEF KeyOK
<1>2. CASE UNCHANGED vars
  BY <1>2 DEF vars, TypeOK, KeyOK
<1> QED
  BY <1>1, <1>2, ChangeType DEF Next

\* The values every variable takes, and a version key that lives while it holds
\* a number.
THEOREM TypeCorrect == Spec => [](TypeOK /\ KeyOK)
BY InitType, TypeStep, PTL DEF Spec

-----------------------------------------------------------------------------
(* Freshness.  A version, once left, never comes back as long as its key   *)
(* does not expire: what may still be written under an old version is read *)
(* only by requests that began before the invalidation.                    *)

\* What a request knows.  Copies of the current version are as recent as the
\* last invalidation; copies under the version a request is about to look up are
\* at least what it may expect.
Sound(q) ==
    /\ q.at # "idle" => q.floor <= announced
    /\ q.at \in {"get", "load", "set"} => q.v <= version
    /\ q.at = "get" =>
         /\ entry[q.v].life > 0 => entry[q.v].val >= q.floor
         /\ \A o \in Readers :
               reader[o].at = "set" /\ reader[o].v = q.v => reader[o].got >= q.floor
    /\ q.at = "set" =>
         /\ q.got >= q.floor
         /\ q.v = version => q.got >= announced
    /\ q.at = "done" => q.got >= q.floor

CopiesFresh ==
    /\ entry[version].life > 0 => entry[version].val >= announced
    /\ \A v \in Versions : v > version => entry[v].life = 0

IInv ==
    /\ TypeOK
    /\ KeyOK
    /\ CopiesFresh
    /\ \A r \in Readers : Sound(reader[r])

\* A request step changes its own record, and the copies only by a Set.
LEMMA RequestSound ==
    ASSUME IInv, NEW r \in Readers, Begin(r) \/ Read(r)
    PROVE  CopiesFresh' /\ \A o \in Readers : Sound(reader[o])'
<1> DEFINE q == reader[r]
<1>1. /\ announced \in Nat /\ row \in Nat /\ version \in Nat
      /\ announced <= row /\ version \in Versions
  BY CacheAssumption DEF IInv, TypeOK, Writes, Versions
<1>2. \A o \in Readers : reader[o] \in Request \cup {Idle} /\ Sound(reader[o])
  BY DEF IInv, TypeOK
<1>3. \A o \in Readers :
        /\ reader[o] # Idle => reader[o].floor \in Nat
        /\ reader[o].at \in {"get", "load", "set"} => reader[o].v \in Versions
        /\ reader[o].at \in {"set", "done"} => reader[o].got \in Nat
  <2>1. Writes \subseteq Nat /\ Versions \subseteq Nat
    BY CacheAssumption DEF Writes, Versions
  <2> TAKE o \in Readers
  <2>2. reader[o] \in Request \cup {Idle}
    BY <1>2
  <2> QED
    BY <2>1, <2>2, RequestShapes
<1>4. \A v \in Versions : entry[v].val \in Nat /\ entry[v].life \in Nat
  BY CacheAssumption DEF IInv, TypeOK, Writes
<1>5. UNCHANGED <<row, announced, version>>
  BY DEF Begin, Read, ReadVersion, Hit, Miss, ReadFails, Load, LoadDirect, Set, Return,
         redis, database
<1>6. \A o \in Readers \ {r} : reader'[o] = reader[o]
  BY DEF Begin, Read, ReadVersion, Hit, Miss, ReadFails, Load, LoadDirect, Set, Return,
         Move, IInv, TypeOK
\* Every step but Set and Load: nothing new is about to be written.
<1>7. ASSUME UNCHANGED entry, reader'[r].at # "set", Sound(reader[r])'
      PROVE  CopiesFresh' /\ \A o \in Readers : Sound(reader[o])'
  <2>1. CopiesFresh'
    BY <1>5, <1>7 DEF IInv, CopiesFresh
  <2>2. ASSUME NEW o \in Readers \ {r} PROVE Sound(reader[o])'
    BY <1>2, <1>5, <1>6, <1>7 DEF Sound
  <2> QED
    BY <1>7, <2>1, <2>2
<1>8. CASE Begin(r)
  <2>1. reader'[r] = [at |-> "version", floor |-> announced] /\ UNCHANGED entry
    BY <1>8 DEF Begin, Move, IInv, TypeOK, redis
  <2>2. Sound(reader[r])'
    BY <1>1, <1>5, <2>1 DEF Sound
  <2> QED
    BY <1>7, <2>1, <2>2
<1>9. CASE ReadVersion(r)
  <2>1. /\ reader'[r] = [at |-> "get", floor |-> q.floor, v |-> version]
        /\ UNCHANGED entry /\ q.at = "version"
    BY <1>9 DEF ReadVersion, Move, IInv, TypeOK, redis
  <2>2. q.floor <= announced /\ q.floor \in Nat
    BY <1>2, <1>3, <2>1 DEF Sound, Idle
  <2>3. entry[version].life > 0 => entry[version].val >= q.floor
    BY <1>1, <1>4, <2>2 DEF IInv, CopiesFresh
  <2>4. ASSUME NEW o \in Readers, reader'[o].at = "set", reader'[o].v = version
        PROVE  reader'[o].got >= q.floor
    BY <1>1, <1>2, <1>3, <1>6, <2>1, <2>2, <2>4 DEF Sound
  <2>5. Sound(reader[r])'
    BY <1>1, <1>5, <2>1, <2>2, <2>3, <2>4 DEF Sound
  <2> QED
    BY <1>7, <2>1, <2>5
<1>10. CASE Hit(r)
  <2>1. /\ reader'[r] = Done(r, entry[q.v].val) /\ UNCHANGED entry
        /\ q.at = "get" /\ entry[q.v].life > 0
    BY <1>10 DEF Hit, Move, IInv, TypeOK, redis
  <2>2. Sound(reader[r])'
    BY <1>2, <1>5, <2>1 DEF Sound, Done
  <2> QED
    BY <1>7, <2>1, <2>2 DEF Done
<1>11. CASE Miss(r)
  <2>1. q.at = "get" /\ q \in [at : {"get", "load"}, floor : Writes, v : Versions]
    BY <1>2, <1>11, RequestShapes DEF Miss
  <2>2. reader'[r] = [q EXCEPT !.at = "load"] /\ UNCHANGED entry
    BY <1>11 DEF Miss, Move, IInv, TypeOK, redis
  <2>3. Sound(reader[r])'
    BY <1>2, <1>5, <2>1, <2>2 DEF Sound
  <2> QED
    BY <1>7, <2>1, <2>2, <2>3
<1>12. CASE ReadFails(r)
  <2>1. /\ reader'[r] = [at |-> "direct", floor |-> q.floor] /\ UNCHANGED entry
        /\ q.at \in {"version", "get"}
    BY <1>12 DEF ReadFails, Move, IInv, TypeOK, redis
  <2>2. Sound(reader[r])'
    BY <1>2, <1>5, <2>1 DEF Sound
  <2> QED
    BY <1>7, <2>1, <2>2
<1>13. CASE Load(r)
  <2>1. /\ q.at = "load" /\ UNCHANGED entry
        /\ \/ reader'[r] = Done(r, row)
           \/ reader'[r] = [at |-> "set", floor |-> q.floor, v |-> q.v, got |-> row]
    BY <1>13 DEF Load, Move, IInv, TypeOK, redis
  <2>2. q.floor \in Nat /\ q.floor <= row /\ q.v <= version
    BY <1>1, <1>2, <1>3, <2>1 DEF Sound, Idle
  <2>3. Sound(reader[r])'
    BY <1>1, <1>2, <1>5, <2>1, <2>2 DEF Sound, Done
  <2>4. CopiesFresh'
    BY <1>5, <2>1 DEF IInv, CopiesFresh
  \* The row just read is at least what anyone may expect.
  <2>5. ASSUME NEW o \in Readers \ {r} PROVE Sound(reader[o])'
    <3>1. reader[o].at = "get" => reader[o].floor <= row /\ reader[o].floor \in Nat
      BY <1>1, <1>2, <1>3 DEF Sound, Idle
    <3>2. \A a \in Readers : reader'[a].at = "set" =>
            \/ a = r /\ reader'[a].got = row
            \/ a # r /\ reader'[a] = reader[a]
      BY <1>6, <2>1 DEF Done
    <3> QED
      BY <1>1, <1>2, <1>5, <1>6, <2>1, <3>1, <3>2 DEF Sound
  <2> QED
    BY <2>3, <2>4, <2>5
<1>14. CASE LoadDirect(r)
  <2>1. reader'[r] = Done(r, row) /\ UNCHANGED entry /\ q.at = "direct"
    BY <1>14 DEF LoadDirect, Move, IInv, TypeOK, redis
  <2>2. q.floor \in Nat /\ q.floor <= row
    BY <1>1, <1>2, <1>3, <2>1 DEF Sound, Idle
  <2>3. Sound(reader[r])'
    BY <1>2, <1>5, <2>1, <2>2 DEF Sound, Done
  <2> QED
    BY <1>7, <2>1, <2>3 DEF Done
<1>15. CASE Set(r)
  <2>1. /\ q.at = "set" /\ reader'[r] = Done(r, q.got) /\ entry' \in {NewEntry(r), entry}
    BY <1>15 DEF Set, Move, IInv, TypeOK
  <2>2. q.v \in Versions /\ q.v <= version /\ q.got \in Nat
    BY <1>2, <1>3, <2>1 DEF Sound
  <2>3. \A v \in Versions :
          \/ entry'[v] = entry[v]
          \/ v = q.v /\ entry'[v].val = q.got
    BY <2>1 DEF NewEntry, IInv, TypeOK
  <2>4. Sound(reader[r])'
    BY <1>2, <1>5, <2>1 DEF Sound, Done
  <2>5. CopiesFresh'
    <3>1. entry'[version].life > 0 => entry'[version].val >= announced
      BY <1>1, <1>2, <2>1, <2>3 DEF Sound, IInv, CopiesFresh
    <3>2. \A v \in Versions : v > version => entry'[v].life = 0
      BY <1>1, <2>2, <2>3 DEF IInv, CopiesFresh, Versions
    <3> QED
      BY <1>5, <3>1, <3>2 DEF CopiesFresh
  \* Whoever is about to look this key up expects no more than what was written.
  <2>6. ASSUME NEW o \in Readers \ {r} PROVE Sound(reader[o])'
    <3>1. ASSUME reader[o].at = "get"
          PROVE  entry'[reader[o].v].life > 0 => entry'[reader[o].v].val >= reader[o].floor
      BY <1>2, <1>3, <2>1, <2>3, <3>1 DEF Sound
    <3>2. \A a \in Readers : reader'[a].at = "set" => reader'[a] = reader[a]
      BY <1>6, <2>1 DEF Done
    <3> QED
      BY <1>2, <1>5, <1>6, <3>1, <3>2 DEF Sound
  <2> QED
    BY <2>4, <2>5, <2>6
<1>16. CASE Return(r)
  <2>1. reader'[r] = Idle /\ UNCHANGED entry
    BY <1>16 DEF Return, Move, IInv, TypeOK, redis
  <2>2. Sound(reader[r])'
    BY <2>1 DEF Sound, Idle
  <2> QED
    BY <1>7, <2>1, <2>2 DEF Idle
<1> QED
  BY <1>8, <1>9, <1>10, <1>11, <1>12, <1>13, <1>14, <1>15, <1>16 DEF Read

LEMMA ChangeSound ==
    ASSUME IInv, ~VersionExpires, Write \/ Invalidate \/ InvalidateFails \/ Tick
    PROVE  CopiesFresh' /\ \A o \in Readers : Sound(reader[o])'
<1>1. /\ announced \in Nat /\ row \in Nat /\ version \in Nat
      /\ announced <= row /\ version \in Versions
  BY CacheAssumption DEF IInv, TypeOK, Writes, Versions
<1>2. \A o \in Readers : reader[o] \in Request \cup {Idle} /\ Sound(reader[o])
  BY DEF IInv, TypeOK
<1>3. \A o \in Readers :
        /\ reader[o] # Idle => reader[o].floor \in Nat
        /\ reader[o].at \in {"get", "load", "set"} => reader[o].v \in Versions /\ reader[o].v \in Nat
        /\ reader[o].at \in {"set", "done"} => reader[o].got \in Nat
  <2>1. Writes \subseteq Nat /\ Versions \subseteq Nat
    BY CacheAssumption DEF Writes, Versions
  <2> TAKE o \in Readers
  <2>2. reader[o] \in Request \cup {Idle}
    BY <1>2
  <2> QED
    BY <2>1, <2>2, RequestShapes
<1>0. \A v \in Versions : v \in Nat /\ entry[v].val \in Nat /\ entry[v].life \in Nat
  BY CacheAssumption DEF IInv, TypeOK, Writes, Versions
<1>4. UNCHANGED reader
  BY DEF Write, Invalidate, InvalidateFails, Tick
<1>5. CASE UNCHANGED <<announced, version, entry>>
  BY <1>2, <1>4, <1>5 DEF IInv, CopiesFresh, Sound
<1>6. CASE Invalidate
  <2>1. version' = version + 1 /\ announced' = row /\ UNCHANGED entry
    BY <1>6 DEF Invalidate, NextVersion
  <2>2. version + 1 \in Versions
    BY <1>6, CacheAssumption DEF Invalidate, IInv, TypeOK, Versions, Writes
  <2>3. CopiesFresh'
    <3>1. entry[version + 1].life = 0
      BY <1>1, <1>0, <2>2 DEF IInv, CopiesFresh
    <3>2. \A v \in Versions : v > version + 1 => entry[v].life = 0
      BY <1>1 DEF IInv, CopiesFresh, Versions
    <3> QED
      BY <2>1, <3>1, <3>2 DEF CopiesFresh
  <2>4. ASSUME NEW o \in Readers PROVE Sound(reader[o])'
    BY <1>1, <1>2, <1>3, <1>4, <2>1 DEF Sound, Idle
  <2> QED
    BY <2>3, <2>4
<1>7. CASE Tick
  <2>1. version' = version /\ announced' = announced
    <3>1. versionLife' = versionLife
      BY <1>7, Zenon DEF Tick
    <3>2. version' = IF versionLife' = 0 THEN 0 ELSE version
      BY <1>7, Zenon DEF Tick
    <3>3. announced' = announced
      BY <1>7 DEF Tick, database
    <3> QED
      BY <3>1, <3>2, <3>3 DEF IInv, KeyOK
  <2>2. \A v \in Versions : /\ entry'[v].val = entry[v].val
                            /\ entry'[v].life \in Nat
                            /\ entry'[v].life > 0 => entry[v].life > 0
                            /\ entry[v].life = 0 => entry'[v].life = 0
    <3> TAKE v \in Versions
    <3>1. entry[v] \in [val : Writes, life : 0 .. EntryTtl]
      BY DEF IInv, TypeOK
    <3>2. entry' = [w \in Versions |-> [entry[w] EXCEPT !.life = Less(@)]]
      BY <1>7 DEF Tick
    <3>3. entry'[v] = [entry[v] EXCEPT !.life = Less(@)]
      BY <3>2
    <3> QED
      BY <3>1, <3>3, CacheAssumption DEF Less
  <2>3. CopiesFresh'
    <3>1. entry'[version].life > 0 => entry'[version].val >= announced
      BY <1>1, <1>0, <2>2 DEF IInv, CopiesFresh
    <3>2. \A v \in Versions : v > version => entry'[v].life = 0
      BY <2>2 DEF IInv, CopiesFresh
    <3> QED
      BY <2>1, <3>1, <3>2 DEF CopiesFresh
  <2>4. ASSUME NEW o \in Readers PROVE Sound(reader[o])'
    <3>1. reader[o].at = "get" =>
            (entry'[reader[o].v].life > 0 => entry'[reader[o].v].val >= reader[o].floor)
      BY <1>2, <1>3, <1>0, <2>2 DEF Sound
    <3>2. Sound(reader[o])
      BY <1>2
    <3> QED
      BY <1>4, <2>1, <3>1, <3>2 DEF Sound
  <2> QED
    BY <2>3, <2>4
<1> QED
  BY <1>5, <1>6, <1>7 DEF Write, InvalidateFails, redis

\* As long as the version key does not expire, a request that begins after an
\* invalidation never gets an older row, however late other requests cache what
\* they read before it.
THEOREM NeverStale == ASSUME ~VersionExpires PROVE Spec => []ReadsAreFresh
<1>1. Init => IInv
  <2> SUFFICES ASSUME Init PROVE IInv
    OBVIOUS
  <2>1. TypeOK /\ KeyOK
    BY InitType
  <2>2. \A v \in Versions : entry[v].life = 0
    BY DEF Init
  <2>3. 0 \in Versions /\ version = 0
    BY CacheAssumption DEF Versions, Init
  <2>4. \A r \in Readers : Sound(reader[r])
    BY DEF Init, Sound, Idle
  <2> QED
    BY <2>1, <2>2, <2>3, <2>4 DEF IInv, CopiesFresh
<1>2. IInv /\ [Next]_vars => IInv'
  <2> SUFFICES ASSUME IInv, [Next]_vars PROVE IInv'
    OBVIOUS
  <2>1. TypeOK' /\ KeyOK'
    BY TypeStep DEF IInv
  <2>2. CASE UNCHANGED vars
    <3>1. UNCHANGED <<announced, version, entry, reader>>
      BY <2>2 DEF vars
    <3> QED
      BY <2>1, <3>1 DEF IInv, CopiesFresh, Sound
  <2>3. ASSUME NEW r \in Readers, Begin(r) \/ Read(r) PROVE IInv'
    BY <2>1, <2>3, RequestSound DEF IInv
  <2>4. CASE Write \/ Invalidate \/ InvalidateFails \/ Tick
    BY <2>1, <2>4, ChangeSound DEF IInv
  <2> QED
    BY <2>2, <2>3, <2>4 DEF Next
<1>3. IInv => ReadsAreFresh
  BY DEF IInv, Sound, ReadsAreFresh
<1> QED
  BY <1>1, <1>2, <1>3, PTL DEF Spec
=============================================================================
