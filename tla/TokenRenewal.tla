---------------------------- MODULE TokenRenewal ----------------------------
(***************************************************************************)
(* Renewal of the OAuth tokens of the Tradovate connections of ONE login.  *)
(* Each connection (a row of BrokerConnection) has its own copy of the     *)
(* tokens, and Tradovate replaces the refresh token of the login whenever  *)
(* one of them is presented.  Calls are the token requests in progress, in *)
(* any process: synchronisation, live socket, history (validToken), and    *)
(* the hourly cron (refreshNow, tryRevive).                                *)
(*                                                                         *)
(* A refresh token is an identity, taken again only once nothing refers to *)
(* it.  An access token is far from its end, or due: within the 40 min     *)
(* margin, or dead.  A call lasts seconds: time passes between calls only. *)
(*                                                                         *)
(* The lock of the login is left open: it lasts 30 s whatever its holder   *)
(* does, anyone deletes it, and Redis down counts as held.  Whether a call *)
(* gets it is any answer, so what is shown here never rests on it.         *)
(***************************************************************************)
CONSTANTS
    Conns,      \* the sister connections of the login
    Calls,      \* token requests that may be in progress at once
    Tokens,     \* identities of refresh tokens
    None        \* no token, no connection

ASSUME NoneAssumption == None \notin Tokens \cup Conns
\* A login is there because a connection uses it.
ASSUME ConnsAssumption == Conns # {}

VARIABLES
    rows,       \* BrokerConnection: tokens, expiries and status
    current,    \* the refresh token that Tradovate accepts
    call,       \* the calls in progress
    trouble     \* what may go wrong in the behaviour, besides refusals

vars == <<rows, current, call, trouble>>

\* none: an answer is stored everywhere before any other call moves on.
\* slow: storing an answer takes as long as one likes.
\* crash: as none, but a process may die, and an answer be lost on the way.
Trouble == {"none", "slow", "crash"}

Row == [refresh : Tokens, far : BOOLEAN, promised : BOOLEAN,
        status : {"connected", "reconnect"}]

Steps == {"idle", "known", "renewFirst", "lock", "await", "reread", "ask",
          "retry", "askAgain", "store", "spread", "revived", "renewLast",
          "judge", "hosts", "hostsSpread"}

\* token: the refresh token read, presented, then obtained by the call.
\* far, promised: as its caller read them; then the promise obtained.
\* grounds: Tradovate refused the call the token that was valid, or the call
\* found the connection condemned already.
Call == [step : Steps, kind : {"validToken", "refreshNow", "tryRevive"},
         conn : Conns \cup {None}, token : Tokens \cup {None}, far : BOOLEAN,
         promised : BOOLEAN, knownDead : BOOLEAN, grounds : BOOLEAN]

NoCall == [step |-> "idle", kind |-> "validToken", conn |-> None, token |-> None,
           far |-> FALSE, promised |-> FALSE,
           knownDead |-> FALSE, grounds |-> FALSE]

\* Every refresh token that a row or a call still refers to.
InUse == {current} \cup {rows[c].refresh : c \in Conns} \cup {call[p].token : p \in Calls}

At(p, step) == call[p].step = step
Own(p) == call[p].conn
Storing(p) == At(p, "store") \/ At(p, "spread")

\* Whether call p may move on: unless slow, storing an answer (two updates)
\* is over before the next request or the next wait of two seconds ends.
Turn(p) == trouble # "slow" => \A q \in Calls \ {p} : ~Storing(q)

------------------------------------------------------------------------------
Init ==
    /\ current \in Tokens
    /\ rows \in [Conns -> {r \in Row : r.refresh = current /\ r.status = "connected"}]
    /\ call = [p \in Calls |-> NoCall]
    /\ trouble \in Trouble

------------------------------------------------------------------------------
(* Parts of the steps.                                                     *)

Goto(p, step) == call' = [call EXCEPT ![p].step = step]

Finish(p) == call' = [call EXCEPT ![p] = NoCall]

\* The call goes on with its connection alone.
GoOnAt(p, step) == call' = [call EXCEPT ![p] = [NoCall EXCEPT !.step = step, !.conn = Own(p)]]

\* The call has an access token: validToken goes on to ensureFreshHosts.
Served(p) == IF call[p].kind = "validToken" THEN GoOnAt(p, "hosts") ELSE Finish(p)

\* Refused for good: the next step looks for another way out.
GiveUp(p) ==
    call' = [call EXCEPT ![p].token = None, ![p].far = FALSE, ![p].knownDead = FALSE,
                ![p].step = IF call[p].knownDead THEN "judge" ELSE "renewLast",
                ![p].grounds = @ \/ At(p, "retry") \/ call[p].token = current]

\* Whether the row of p shows tokens obtained since p read it.  The expiries
\* of two far access tokens are not told apart here: both answers.
RenewedElsewhere(p) ==
    LET fresh == rows[Own(p)] IN
    IF ~fresh.far THEN {FALSE}
    ELSE IF fresh.refresh # call[p].token \/ ~call[p].far THEN {TRUE}
    ELSE BOOLEAN

\* renewAccessToken succeeded for c: only the access token changes.
Prolong(c) == rows' = [rows EXCEPT ![c].far = TRUE]

------------------------------------------------------------------------------
(* Calls, up to the first request to Tradovate.                            *)

\* A caller reads the row, and uses that copy for the rest of the call.  The
\* cron reads the rows of all its calls at once: a copy may be as old as
\* one likes, since the other calls go on before the next step.
Begin(p, kind, c) ==
    /\ At(p, "idle") /\ Turn(p)
    /\ IF kind = "tryRevive"
       THEN rows[c].status = "reconnect" /\ rows[c].promised
       ELSE rows[c].status = "connected"
    /\ call' = [call EXCEPT ![p] =
            IF kind = "validToken" /\ rows[c].far
            THEN [NoCall EXCEPT !.step = "hosts", !.conn = c]
            ELSE [NoCall EXCEPT !.step = IF kind = "tryRevive" THEN "lock" ELSE "known",
                      !.kind = kind, !.conn = c, !.token = rows[c].refresh,
                      !.far = rows[c].far, !.promised = rows[c].promised]]
    /\ UNCHANGED <<rows, current, trouble>>

\* isRefreshKnownDead: the marker has its own life in Redis (six hours, one
\* token, no answer counts as unmarked) and tells nothing here: both answers.
CheckDead(p) ==
    /\ At(p, "known") /\ Turn(p)
    /\ \E known \in BOOLEAN :
        call' = [call EXCEPT ![p].knownDead = known,
                             ![p].step = IF known THEN "renewFirst" ELSE "lock"]
    /\ UNCHANGED <<rows, current, trouble>>

\* A token known dead is not presented again while the access token can be
\* prolonged without it, which Tradovate does as long as it lives.
RenewFirst(p) ==
    /\ At(p, "renewFirst") /\ Turn(p)
    /\ \/ Prolong(Own(p)) /\ Served(p)
       \/ Goto(p, "lock") /\ UNCHANGED rows
    /\ UNCHANGED <<current, trouble>>

\* tryLoginLock.  tryRevive goes on at once, with the copy of the cron,
\* whether it holds the lock or not.
TakeLock(p) ==
    /\ At(p, "lock") /\ Turn(p)
    /\ \E next \in IF call[p].kind = "tryRevive" THEN {"ask"} ELSE {"reread", "await"} :
        Goto(p, next)
    /\ UNCHANGED <<rows, current, trouble>>

\* awaitSiblingRefresh: two seconds later the sister may have spread its
\* tokens.  Otherwise the call goes on without the lock.
AwaitSister(p) ==
    /\ At(p, "await") /\ Turn(p)
    /\ \E found \in RenewedElsewhere(p) :
        IF found /\ rows[Own(p)].status = "connected" THEN Served(p) ELSE Goto(p, "reread")
    /\ UNCHANGED <<rows, current, trouble>>

\* refreshWithRetry reads the row again before it presents anything.
Reread(p) ==
    /\ At(p, "reread") /\ Turn(p)
    /\ \E found \in RenewedElsewhere(p) :
        \/ found /\ Served(p)
        \/ ~found /\ call' = [call EXCEPT ![p].token = rows[Own(p)].refresh, ![p].step = "ask"]
    /\ UNCHANGED <<rows, current, trouble>>

------------------------------------------------------------------------------
(* Tradovate, and what the call does with its answer.                      *)

\* The call presents a refresh token: the request and its answer.
Presents(p) == (At(p, "ask") \/ At(p, "askAgain")) /\ Turn(p)

\* Tradovate replaces the token it accepts.
Rotate(p) ==
    /\ Presents(p)
    /\ call[p].token = current
    /\ current' \in Tokens \ InUse

\* The old token is dead in every other row.  Tradovate may leave out until
\* when the new one is valid.
Accepted(p) ==
    /\ Rotate(p)
    /\ \E promised \in BOOLEAN :
        call' = [call EXCEPT ![p] = [NoCall EXCEPT !.step = "store", !.kind = call[p].kind,
                    !.conn = Own(p), !.token = current', !.promised = promised]]
    /\ UNCHANGED <<rows, trouble>>

\* Refused, rightly or not: Tradovate may refuse a token it declares valid.
\* tryRevive gives up; the others try once more, then look for a fallback.
Refused(p) ==
    /\ Presents(p)
    /\ CASE call[p].kind = "tryRevive" -> Finish(p)
         [] call[p].kind # "tryRevive" /\ At(p, "ask") ->
                call' = [call EXCEPT ![p].step = "retry", ![p].grounds = (call[p].token = current)]
         [] OTHER -> GiveUp(p)
    /\ UNCHANGED <<rows, current, trouble>>

\* Tradovate is unreachable, limits the rate or asks for a pause: the call
\* fails and nothing is concluded.
Fails(p) ==
    /\ \/ Presents(p)
       \/ (At(p, "renewFirst") \/ At(p, "renewLast")) /\ Turn(p)
    /\ Finish(p)
    /\ UNCHANGED <<rows, current, trouble>>

\* Faulty: the second attempt presents the same token again.
RetrySame(p) ==
    /\ At(p, "retry") /\ Turn(p)
    /\ Goto(p, "askAgain")
    /\ UNCHANGED <<rows, current, trouble>>

\* Two seconds after the first refusal: the row is read once more.
Retry(p) ==
    /\ At(p, "retry") /\ Turn(p)
    /\ \/ /\ rows[Own(p)].status = "reconnect"
          /\ GiveUp(p)
       \/ /\ rows[Own(p)].status = "connected"
          /\ \E found \in RenewedElsewhere(p) :
                \/ found /\ Served(p)
                \/ /\ ~found
                   /\ call' = [call EXCEPT ![p].token = rows[Own(p)].refresh,
                                           ![p].step = "askAgain"]
    /\ UNCHANGED <<rows, current, trouble>>

\* Faulty: without `previous`, no refresh token is written; or the old one stays.
ColumnsNone(p, r) == [r EXCEPT !.refresh = None, !.far = TRUE, !.promised = call[p].promised]
ColumnsKept(p, r) == [r EXCEPT !.far = TRUE, !.promised = call[p].promised]

\* buildTokenColumns.
Columns(p, r) ==
    [r EXCEPT !.refresh = call[p].token, !.far = TRUE, !.promised = call[p].promised]

\* Faulty: the sisters are written first.
StoreLast(p) ==
    /\ At(p, "store")
    /\ \/ /\ rows' = [c \in Conns |-> IF c = Own(p) THEN rows[c] ELSE Columns(p, rows[c])]
          /\ UNCHANGED call
       \/ rows' = [rows EXCEPT ![Own(p)] = Columns(p, @)] /\ Goto(p, "spread")
    /\ UNCHANGED <<current, trouble>>

\* refreshWithToken, first update: the row of the call.  The status stays.
Store(p) ==
    /\ At(p, "store")
    /\ rows' = [rows EXCEPT ![Own(p)] = Columns(p, @)]
    /\ Goto(p, "spread")
    /\ UNCHANGED <<current, trouble>>

\* Faulty: only connected sisters are written, as ensureFreshHosts does.
SpreadConnected(p) ==
    /\ At(p, "spread")
    /\ rows' = [c \in Conns |->
            IF c = Own(p) \/ rows[c].status # "connected" THEN rows[c] ELSE Columns(p, rows[c])]
    /\ IF call[p].kind = "tryRevive" THEN GoOnAt(p, "revived") ELSE Served(p)
    /\ UNCHANGED <<current, trouble>>

\* propagateToSiblings: the same columns in every sister, which is connected
\* again, whatever it holds by now.
Spread(p) ==
    /\ At(p, "spread")
    /\ rows' = [c \in Conns |->
            IF c = Own(p) THEN rows[c]
            ELSE [Columns(p, rows[c]) EXCEPT !.status = "connected"]]
    /\ IF call[p].kind = "tryRevive" THEN GoOnAt(p, "revived") ELSE Served(p)
    /\ UNCHANGED <<current, trouble>>

\* tryRevive: the connection itself is connected again.
Revived(p) ==
    /\ At(p, "revived") /\ Turn(p)
    /\ rows' = [rows EXCEPT ![Own(p)].status = "connected"]
    /\ Finish(p)
    /\ UNCHANGED <<current, trouble>>

\* ensureFreshHosts, after validToken: the hosts may be due, in which case the
\* access token is prolonged in the row ...
FreshHosts(p) ==
    /\ At(p, "hosts") /\ Turn(p)
    /\ \/ Prolong(Own(p)) /\ Goto(p, "hostsSpread")
       \/ Finish(p) /\ UNCHANGED rows
    /\ UNCHANGED <<current, trouble>>

\* ... then in its sisters that are connected.
SpreadHosts(p) ==
    /\ At(p, "hostsSpread") /\ Turn(p)
    /\ rows' = [c \in Conns |->
            IF c # Own(p) /\ rows[c].status = "connected"
            THEN [rows[c] EXCEPT !.far = TRUE] ELSE rows[c]]
    /\ Finish(p)
    /\ UNCHANGED <<current, trouble>>

\* renewAfterRefusedRefresh: prolong the access token if it still lives.  The
\* refresh token is then marked dead (see CheckDead).
RenewLast(p) ==
    /\ At(p, "renewLast") /\ Turn(p)
    /\ \/ Prolong(Own(p)) /\ Served(p)
       \/ Goto(p, "judge") /\ UNCHANGED rows
    /\ UNCHANGED <<current, trouble>>

\* A token announced valid is given more time; otherwise the connection is
\* marked to reconnect, whatever its row holds by now.
Judge(p) ==
    /\ At(p, "judge") /\ Turn(p)
    /\ rows' = IF call[p].promised THEN rows
               ELSE [rows EXCEPT ![Own(p)].status = "reconnect"]
    /\ Finish(p)
    /\ UNCHANGED <<current, trouble>>

------------------------------------------------------------------------------
(* Surroundings.                                                           *)

\* The process dies, or the answer of Tradovate is lost on the way.
Dies(p) ==
    /\ trouble = "crash" /\ ~At(p, "idle")
    /\ Finish(p)
    /\ UNCHANGED current \/ Rotate(p)
    /\ UNCHANGED <<rows, trouble>>

\* An hour passes: access tokens are due, promises of a refresh token may end.
Tick ==
    /\ \A p \in Calls : At(p, "idle")
    /\ \E ended \in SUBSET Conns :
        rows' = [c \in Conns |-> [rows[c] EXCEPT
            !.far = FALSE,
            !.promised = rows[c].promised /\ c \notin ended]]
    /\ UNCHANGED <<current, call, trouble>>

Step(p) ==
    \/ CheckDead(p) \/ RenewFirst(p) \/ TakeLock(p) \/ AwaitSister(p) \/ Reread(p)
    \/ Accepted(p) \/ Refused(p) \/ Fails(p) \/ Retry(p)
    \/ Store(p) \/ Spread(p) \/ Revived(p) \/ FreshHosts(p) \/ SpreadHosts(p)
    \/ RenewLast(p) \/ Judge(p)

Next ==
    \/ \E p \in Calls :
        \/ \E kind \in {"validToken", "refreshNow", "tryRevive"}, c \in Conns : Begin(p, kind, c)
        \/ Step(p)
        \/ Dies(p)
    \/ Tick

Spec == Init /\ [][Next]_vars

------------------------------------------------------------------------------
\* Types of the variables.
TypeOK ==
    /\ rows \in [Conns -> Row]
    /\ current \in Tokens
    /\ call \in [Calls -> Call]
    /\ trouble \in Trouble

\* A token just obtained, until it is written, is the one Tradovate accepts:
\* nobody else can have presented it.  So one call at most holds an unwritten
\* token (refreshWithToken), however the lock behaves.
UnwrittenIsCurrent ==
    \A p \in Calls : At(p, "store") => call[p].token = current

\* Short of a crash the login is never lost: whatever the order of the two
\* updates of two renewals, some row has the token that Tradovate accepts, or a
\* call is about to write it (refreshWithToken, propagateToSiblings).
NeverLost ==
    trouble # "crash" =>
        \/ \E c \in Conns : rows[c].refresh = current
        \/ \E p \in Calls : Storing(p) /\ call[p].token = current

\* Without trouble, a connection is condemned only when Tradovate has refused
\* the token that was valid: never because a sister replaced it meanwhile
\* (comments of REFRESH_RETRY_DELAY_MS, LOCK_TTL_S and LOGIN_LOCK_TTL_S).
NotCondemnedByRace ==
    \A p \in Calls :
        trouble = "none" /\ At(p, "judge") /\ ~call[p].promised => call[p].grounds

\* Without trouble, a condemned connection whose refresh token is announced
\* valid holds the token of the login between two renewals: the cron can revive
\* it without its user (propagateToSiblings writes condemned sisters too).
Revivable ==
    trouble = "none" /\ (\A p \in Calls : ~Storing(p)) =>
        \A c \in Conns :
            rows[c].status = "reconnect" /\ rows[c].promised => rows[c].refresh = current

=============================================================================
