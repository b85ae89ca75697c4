------------------------------ MODULE UserCache ------------------------------
(***************************************************************************)
(* AuthUserCacheService: the Redis copy of one user's row that every       *)
(* authenticated request reads instead of the database.  The key of the    *)
(* copy holds a version; whoever changes the row increments the version    *)
(* afterwards, so that requests look for another key.                      *)
(*                                                                         *)
(* A row is known by the number of changes made to it so far.  Each Redis  *)
(* command and each database statement is a step: anything may happen      *)
(* between two steps of a request, and any Redis command may fail.         *)
(***************************************************************************)
EXTENDS Integers

CONSTANTS
    Readers,        \* requests in progress
    EntryTtl,       \* TTL_SECONDS (60 s), in ticks
    VersionTtl,     \* VERSION_TTL_SECONDS (7 days), in ticks
    VersionExpires, \* may VersionTtl pass without any change?
    SlowRequests,   \* may a request still run when the clock ticks?
    MaxWrites       \* bound: changes of the row

ASSUME CacheAssumption ==
    /\ EntryTtl \in Nat \ {0}
    /\ VersionTtl \in Nat \ {0}
    /\ VersionExpires \in BOOLEAN
    /\ SlowRequests \in BOOLEAN
    /\ MaxWrites \in Nat

VARIABLES
    row,            \* the row in the database
    gone,           \* was the account deleted?
    pending,        \* changes whose invalidate() is still to come
    announced,      \* the row when invalidate() last succeeded
    version,        \* authuser:v:<id>, 0 = no key
    versionLife,    \* ticks before that key expires
    entry,          \* authuser:<id>:<version>, life 0 = no key
    reader          \* where each request is

vars == <<row, gone, pending, announced, version, versionLife, entry, reader>>
redis == <<version, versionLife, entry>>
database == <<row, gone, pending, announced>>

Writes   == 0 .. MaxWrites
Versions == 0 .. MaxWrites

\* `floor' is the last row announced before the request began; `direct': Redis
\* has failed, so the row read will not be cached.
Idle == [at |-> "idle"]
Request ==
    [at : {"version"}, floor : Writes]
    \cup [at : {"get", "load"}, floor : Writes, v : Versions]
    \cup [at : {"direct"}, floor : Writes]
    \cup [at : {"set"}, floor : Writes, v : Versions, got : Writes]
    \cup [at : {"done"}, floor : Writes, got : Writes]

Init ==
    /\ row = 0
    /\ gone = FALSE
    /\ pending = 0
    /\ announced = 0
    /\ version = 0
    /\ versionLife = 0
    /\ entry = [v \in Versions |-> [val |-> 0, life |-> 0]]
    /\ reader = [r \in Readers |-> Idle]

-----------------------------------------------------------------------------
(* getOrLoad, called by JwtStrategy.validate.                              *)

Move(r, from, to) ==
    /\ reader[r].at = from
    /\ reader' = [reader EXCEPT ![r] = to]

Done(r, val) == [at |-> "done", floor |-> reader[r].floor, got |-> val]

Begin(r) ==
    /\ Move(r, "idle", [at |-> "version", floor |-> announced])
    /\ UNCHANGED <<database, redis>>

ReadVersion(r) ==
    /\ Move(r, "version", [at |-> "get", floor |-> reader[r].floor, v |-> version])
    /\ UNCHANGED <<database, redis>>

\* Faulty: a hit gives the copy a new life.
HitAndKeep(r) ==
    /\ reader[r].at = "get"
    /\ entry[reader[r].v].life > 0
    /\ Move(r, "get", Done(r, entry[reader[r].v].val))
    /\ entry' = [entry EXCEPT ![reader[r].v].life = EntryTtl]
    /\ UNCHANGED <<database, version, versionLife>>

Hit(r) ==
    /\ reader[r].at = "get"
    /\ entry[reader[r].v].life > 0
    /\ Move(r, "get", Done(r, entry[reader[r].v].val))
    /\ UNCHANGED <<database, redis>>

Miss(r) ==
    /\ reader[r].at = "get"
    /\ entry[reader[r].v].life = 0
    /\ Move(r, "get", [reader[r] EXCEPT !.at = "load"])
    /\ UNCHANGED <<database, redis>>

\* "Redis indisponible -> lecture en base".
ReadFails(r) ==
    /\ reader[r].at \in {"version", "get"}
    /\ Move(r, reader[r].at, [at |-> "direct", floor |-> reader[r].floor])
    /\ UNCHANGED <<database, redis>>

LoadDirect(r) ==
    /\ Move(r, "direct", Done(r, row))
    /\ UNCHANGED <<database, redis>>

\* A user that does not exist is not cached.
Load(r) ==
    /\ Move(r, "load",
            IF gone THEN Done(r, row)
            ELSE [at |-> "set", floor |-> reader[r].floor, v |-> reader[r].v, got |-> row])
    /\ UNCHANGED <<database, redis>>

\* Faulty: the copy goes under the version of the moment it is written.
NewEntryNow(r) == [entry EXCEPT ![version] = [val |-> reader[r].got, life |-> EntryTtl]]

NewEntry(r) == [entry EXCEPT ![reader[r].v] = [val |-> reader[r].got, life |-> EntryTtl]]

\* The copy is written, or Redis fails and the error is swallowed.
Set(r) ==
    /\ Move(r, "set", Done(r, reader[r].got))
    /\ entry' \in {NewEntry(r), entry}
    /\ UNCHANGED <<database, version, versionLife>>

Return(r) ==
    /\ Move(r, "done", Idle)
    /\ UNCHANGED <<database, redis>>

-----------------------------------------------------------------------------
(* The callers that change the row: webhook, admin, profile, deletion.     *)

Write ==
    /\ row < MaxWrites
    /\ ~gone
    /\ row' = row + 1
    /\ gone' \in BOOLEAN
    /\ pending' = pending + 1
    /\ UNCHANGED <<announced, redis, reader>>

\* invalidate(): INCR and EXPIRE in one MULTI.
NextVersion == version + 1

Invalidate ==
    /\ pending > 0
    /\ pending' = pending - 1
    /\ version' = NextVersion
    /\ versionLife' = VersionTtl
    /\ announced' = row
    /\ UNCHANGED <<row, gone, entry, reader>>

InvalidateFails ==
    /\ pending > 0
    /\ pending' = pending - 1
    /\ UNCHANGED <<row, gone, announced, redis, reader>>

-----------------------------------------------------------------------------
(* Redis lets keys expire.                                                 *)

\* Faulty: no lower end.
LessAlways(n) == n - 1

Less(n) == IF n = 0 THEN 0 ELSE n - 1

Tick ==
    /\ SlowRequests \/ \A r \in Readers : reader[r] = Idle
    /\ entry' = [v \in Versions |-> [entry[v] EXCEPT !.life = Less(@)]]
    /\ versionLife' = IF VersionExpires THEN Less(versionLife) ELSE versionLife
    /\ version' = IF versionLife' = 0 THEN 0 ELSE version
    /\ UNCHANGED <<database, reader>>

Read(r) ==
    \/ ReadVersion(r) \/ Hit(r) \/ Miss(r) \/ ReadFails(r)
    \/ Load(r) \/ LoadDirect(r) \/ Set(r) \/ Return(r)

Next ==
    \/ \E r \in Readers : Begin(r) \/ Read(r)
    \/ Write \/ Invalidate \/ InvalidateFails
    \/ Tick

\* Time passes, and a request that began ends.
Fairness == WF_vars(Tick) /\ \A r \in Readers : WF_vars(Read(r))

Spec == Init /\ [][Next]_vars /\ Fairness

-----------------------------------------------------------------------------
(* Properties.                                                             *)

TypeOK ==
    /\ row \in Writes
    /\ gone \in BOOLEAN
    /\ pending \in 0 .. row
    /\ announced \in 0 .. row
    /\ version \in 0 .. row - pending
    /\ versionLife \in 0 .. VersionTtl
    /\ entry \in [Versions -> [val : Writes, life : 0 .. EntryTtl]]
    /\ reader \in [Readers -> Request \cup {Idle}]

\* "Une entrée écrite avec une version dépassée n'est plus jamais lue": a request
\* that begins after an invalidation gets a row at least as recent as the one
\* invalidated, although slower requests may still be writing older copies.
ReadsAreFresh == \A r \in Readers : reader[r].at = "done" => reader[r].got >= reader[r].floor

\* "Un oubli est borné à TTL_SECONDS": even when no invalidation gets through,
\* requests end up with the current row.
EventuallyCurrent == <>[](\A r \in Readers : reader[r].at = "done" => reader[r].got = row)
=============================================================================
