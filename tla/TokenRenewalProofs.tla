------------------------- MODULE TokenRenewalProofs -------------------------
(* Theorems about TokenRenewal, for any number of sister connections, of   *)
(* calls and of tokens.                                                    *)
EXTENDS TokenRenewal, TLAPS

\* A call that works has its connection, and a token to present or to write.
ShapeOK(x) ==
    /\ IF x.step = "idle" THEN x.token = None ELSE x.conn \in Conns
    /\ x.step \notin {"idle", "revived", "renewLast", "judge", "hosts", "hostsSpread"}
        => x.token \in Tokens

Typed == TypeOK /\ \A p \in Calls : ShapeOK(call[p])

\* What most steps of a call do: the call becomes x, which takes no token but
\* one it holds or one of a row, and no row gets another refresh token.
Quiet(p, x) ==
    /\ call' = [call EXCEPT ![p] = x]
    /\ ShapeOK(x)
    /\ x.step \notin {"store", "spread"} /\ ~Storing(p) /\ Turn(p)
    /\ \/ x.token = None
       \/ x.token = call[p].token /\ x.conn = call[p].conn
       \/ \E c \in Conns : x.token = rows[c].refresh
    /\ x.step = "retry" => x.grounds \/ x.token # current
    /\ x.step = "askAgain" =>
        /\ At(p, "retry") /\ x.grounds = call[p].grounds
        /\ ~rows[Own(p)].far \/ rows[Own(p)].refresh = call[p].token
    /\ x.step \in {"renewLast", "judge"} =>
        x.grounds \/ ((At(p, "askAgain") \/ At(p, "renewLast")) /\ ~call[p].grounds)
    /\ rows' \in [Conns -> Row]
    /\ \A c \in Conns : /\ rows'[c].refresh = rows[c].refresh
                        /\ rows[c].far => rows'[c].far
    /\ UNCHANGED <<current, trouble>>

QuietStep(p) ==
    \/ \E kind \in {"validToken", "refreshNow", "tryRevive"}, c \in Conns : Begin(p, kind, c)
    \/ CheckDead(p) \/ RenewFirst(p) \/ TakeLock(p) \/ AwaitSister(p) \/ Reread(p)
    \/ Refused(p) \/ Fails(p) \/ Retry(p) \/ Revived(p) \/ FreshHosts(p)
    \/ SpreadHosts(p) \/ RenewLast(p) \/ Judge(p)

LEMMA NoCallShape == NoCall \in Call /\ ShapeOK(NoCall)
BY DEF NoCall, Call, Steps, ShapeOK

LEMMA CallUpdate ==
    ASSUME Typed, NEW p \in Calls, NEW x \in Call, call' = [call EXCEPT ![p] = x]
    PROVE  /\ call' \in [Calls -> Call]
           /\ call'[p] = x
           /\ \A q \in Calls \ {p} : call'[q] = call[q]
BY DEF Typed, TypeOK

\* A call that ends, or goes on with its connection alone, is quiet.
LEMMA GoesOn ==
    ASSUME Typed, NEW p \in Calls, ~At(p, "idle"), Served(p) \/ Finish(p)
    PROVE  \E x \in Call :
            /\ call' = [call EXCEPT ![p] = x]
            /\ ShapeOK(x) /\ x.token = None /\ x.step \in {"idle", "hosts"}
<1> DEFINE h == [NoCall EXCEPT !.step = "hosts", !.conn = Own(p)]
<1>1. Own(p) \in Conns
  BY DEF Typed, ShapeOK, At, Own
<1>2. h \in Call /\ ShapeOK(h) /\ h.token = None /\ h.step = "hosts"
  BY <1>1 DEF NoCall, Call, Steps, ShapeOK
<1>3. CASE Finish(p)
  BY <1>3, NoCallShape DEF Finish, NoCall
<1>4. CASE Served(p) /\ call[p].kind = "validToken"
  BY <1>2, <1>4 DEF Served, GoOnAt
<1>5. CASE Served(p) /\ call[p].kind # "validToken"
  BY <1>3, <1>5 DEF Served
<1> QED
  BY <1>3, <1>4, <1>5

LEMMA ServedQuiet ==
    ASSUME Typed, NEW p \in Calls, ~At(p, "idle"), ~Storing(p), Turn(p),
           Served(p) \/ Finish(p), UNCHANGED <<current, trouble>>,
           rows' \in [Conns -> Row],
           \A c \in Conns : rows'[c].refresh = rows[c].refresh /\ (rows[c].far => rows'[c].far)
    PROVE  \E x \in Call : Quiet(p, x)
<1>1. PICK x \in Call : /\ call' = [call EXCEPT ![p] = x]
                        /\ ShapeOK(x) /\ x.token = None /\ x.step \in {"idle", "hosts"}
  BY GoesOn
<1>2. Quiet(p, x)
  BY <1>1 DEF Quiet
<1> QED
  BY <1>2

LEMMA ProlongRows ==
    ASSUME Typed, NEW c \in Conns, Prolong(c)
    PROVE  /\ rows' \in [Conns -> Row]
           /\ \A d \in Conns : rows'[d].refresh = rows[d].refresh /\ (rows[d].far => rows'[d].far)
BY DEF Typed, TypeOK, Prolong, Row

LEMMA GiveUpQuiet ==
    ASSUME Typed, NEW p \in Calls, At(p, "retry") \/ At(p, "askAgain"), Turn(p),
           GiveUp(p), UNCHANGED <<rows, current, trouble>>
    PROVE  \E x \in Call : Quiet(p, x)
<1> DEFINE g == call[p].grounds \/ At(p, "retry") \/ call[p].token = current
           s == IF call[p].knownDead THEN "judge" ELSE "renewLast"
           x == [call[p] EXCEPT !.token = None, !.far = FALSE, !.knownDead = FALSE,
                                !.step = s, !.grounds = g]
<1>1. call[p] \in Call /\ ShapeOK(call[p]) /\ rows \in [Conns -> Row]
  BY DEF Typed, TypeOK
<1>2. g \in BOOLEAN /\ s \in {"judge", "renewLast"}
  OBVIOUS
<1>3. call' = [call EXCEPT ![p] = x]
  BY DEF GiveUp
<1> HIDE DEF g, s
<1>4. /\ x \in Call /\ x.token = None /\ x.conn = call[p].conn
      /\ x.step = s /\ x.grounds = g
  BY <1>1, <1>2 DEF Call, Steps
<1>5. ShapeOK(x)
  BY <1>1, <1>2, <1>4 DEF ShapeOK, At
<1>6. g \/ (At(p, "askAgain") /\ ~call[p].grounds)
  BY DEF g
<1> QED
  BY <1>1, <1>2, <1>3, <1>4, <1>5, <1>6 DEF Quiet, At, Storing

LEMMA QuietSteps ==
    ASSUME Typed, NEW p \in Calls, QuietStep(p)
    PROVE  \E x \in Call : Quiet(p, x)
<1> USE DEF Typed, TypeOK
<1>0. call[p] \in Call /\ ShapeOK(call[p]) /\ rows \in [Conns -> Row] /\ current \in Tokens
  OBVIOUS
<1>1. ASSUME NEW c \in Conns PROVE rows[c] \in Row /\ rows[c].refresh \in Tokens
  BY DEF Row
<1>2. CASE \E kind \in {"validToken", "refreshNow", "tryRevive"}, c \in Conns : Begin(p, kind, c)
  <2>1. PICK kind \in {"validToken", "refreshNow", "tryRevive"}, c \in Conns : Begin(p, kind, c)
    BY <1>2
  <2> DEFINE h == [NoCall EXCEPT !.step = "hosts", !.conn = c]
             w == [NoCall EXCEPT !.step = IF kind = "tryRevive" THEN "lock" ELSE "known",
                      !.kind = kind, !.conn = c, !.token = rows[c].refresh,
                      !.far = rows[c].far, !.promised = rows[c].promised]
             x == IF call' = [call EXCEPT ![p] = h] THEN h ELSE w
  <2>2. h \in Call /\ ShapeOK(h) /\ h.token = None /\ h.step = "hosts"
    BY DEF NoCall, Call, Steps, ShapeOK
  <2>3. rows[c].far \in BOOLEAN /\ rows[c].promised \in BOOLEAN
    BY <1>1 DEF Row
  <2>4. w \in Call /\ ShapeOK(w) /\ w.token = rows[c].refresh /\ w.step \in {"lock", "known"}
    BY <1>1, <2>3 DEF NoCall, Call, Steps, ShapeOK
  <2>5. call' = [call EXCEPT ![p] = h] \/ call' = [call EXCEPT ![p] = w]
    BY <2>1 DEF Begin
  <2>6. x \in Call /\ call' = [call EXCEPT ![p] = x] /\ ShapeOK(x)
        /\ x.step \in {"hosts", "lock", "known"}
        /\ (x.token = None \/ x.token = rows[c].refresh)
    BY <2>2, <2>4, <2>5
  <2> HIDE DEF x
  <2> QED
    BY <1>0, <2>1, <2>6 DEF Begin, Quiet, At, Storing
<1>3. CASE CheckDead(p)
  <2>1. PICK known \in BOOLEAN :
            call' = [call EXCEPT ![p] = [call[p] EXCEPT !.knownDead = known,
                                    !.step = IF known THEN "renewFirst" ELSE "lock"]]
    BY <1>3 DEF CheckDead
  <2> DEFINE x == [call[p] EXCEPT !.knownDead = known,
                        !.step = IF known THEN "renewFirst" ELSE "lock"]
  <2>2. x \in Call /\ x.token = call[p].token /\ x.conn = call[p].conn
        /\ x.step \in {"renewFirst", "lock"}
    BY <1>0 DEF Call, Steps
  <2> QED
    BY <1>0, <1>3, <2>1, <2>2 DEF CheckDead, Quiet, At, Storing, ShapeOK
<1>4. CASE RenewFirst(p)
  <2>0. Own(p) \in Conns
    BY <1>0, <1>4 DEF RenewFirst, At, ShapeOK, Own
  <2>1. CASE Served(p) /\ Prolong(Own(p))
    BY <1>0, <1>4, <2>0, <2>1, ServedQuiet, ProlongRows DEF RenewFirst, At, Storing
  <2>2. CASE Goto(p, "lock") /\ UNCHANGED rows
    <3> DEFINE x == [call[p] EXCEPT !.step = "lock"]
    <3>1. x \in Call /\ x.token = call[p].token /\ x.conn = call[p].conn /\ x.step = "lock"
      BY <1>0 DEF Call, Steps
    <3> QED
      BY <1>0, <1>4, <2>2, <3>1 DEF RenewFirst, Goto, Quiet, At, Storing, ShapeOK
  <2> QED
    BY <1>4, <2>1, <2>2 DEF RenewFirst
<1>5. CASE TakeLock(p)
  <2>1. PICK next \in {"ask", "reread", "await"} : Goto(p, next)
    BY <1>5 DEF TakeLock
  <2> DEFINE x == [call[p] EXCEPT !.step = next]
  <2>2. x \in Call /\ x.token = call[p].token /\ x.conn = call[p].conn /\ x.step = next
    BY <1>0 DEF Call, Steps
  <2> QED
    BY <1>0, <1>5, <2>1, <2>2 DEF TakeLock, Goto, Quiet, At, Storing, ShapeOK
<1>6. CASE AwaitSister(p)
  <2>1. CASE Served(p)
    BY <1>0, <1>6, <2>1, ServedQuiet DEF AwaitSister, At, Storing
  <2>2. CASE Goto(p, "reread")
    <3> DEFINE x == [call[p] EXCEPT !.step = "reread"]
    <3>1. x \in Call /\ x.token = call[p].token /\ x.conn = call[p].conn /\ x.step = "reread"
      BY <1>0 DEF Call, Steps
    <3> QED
      BY <1>0, <1>6, <2>2, <3>1 DEF AwaitSister, Goto, Quiet, At, Storing, ShapeOK
  <2> QED
    BY <1>6, <2>1, <2>2 DEF AwaitSister
<1>7. CASE Reread(p)
  <2>1. CASE Served(p)
    BY <1>0, <1>7, <2>1, ServedQuiet DEF Reread, At, Storing
  <2> DEFINE x == [call[p] EXCEPT !.token = rows[Own(p)].refresh, !.step = "ask"]
  <2>2. CASE call' = [call EXCEPT ![p] = x]
    <3>1. Own(p) \in Conns
      BY <1>0, <1>7 DEF Reread, At, ShapeOK, Own
    <3>2. x \in Call /\ x.token = rows[Own(p)].refresh /\ x.conn = call[p].conn /\ x.step = "ask"
      BY <1>0, <1>1, <3>1 DEF Call, Steps
    <3> QED
      BY <1>0, <1>1, <1>7, <2>2, <3>1, <3>2 DEF Reread, Quiet, At, Storing, ShapeOK, Own
  <2> QED
    BY <1>7, <2>1, <2>2 DEF Reread
<1>8. CASE Refused(p)
  <2>1. CASE Finish(p)
    BY <1>0, <1>8, <2>1, ServedQuiet DEF Refused, Presents, At, Storing
  <2> DEFINE x == [call[p] EXCEPT !.step = "retry", !.grounds = (call[p].token = current)]
  <2>2. CASE call' = [call EXCEPT ![p] = x]
    <3>1. x \in Call /\ x.token = call[p].token /\ x.conn = call[p].conn /\ x.step = "retry"
          /\ x.grounds = (call[p].token = current)
      BY <1>0 DEF Call, Steps
    <3> QED
      BY <1>0, <1>8, <2>2, <3>1 DEF Refused, Presents, Quiet, At, Storing, ShapeOK
  <2>3. CASE GiveUp(p) /\ ~At(p, "ask")
    BY <1>0, <1>8, <2>3, GiveUpQuiet DEF Refused, Presents
  <2> QED
    BY <1>8, <2>1, <2>2, <2>3 DEF Refused
<1>9. CASE Fails(p)
  BY <1>0, <1>9, ServedQuiet DEF Fails, Presents, At, Storing
<1>10. CASE Retry(p)
  <2>1. CASE Served(p)
    BY <1>0, <1>10, <2>1, ServedQuiet DEF Retry, At, Storing
  <2>2. CASE GiveUp(p)
    BY <1>0, <1>10, <2>2, GiveUpQuiet DEF Retry
  <2> DEFINE x == [call[p] EXCEPT !.token = rows[Own(p)].refresh, !.step = "askAgain"]
  <2>3. CASE call' = [call EXCEPT ![p] = x] /\ FALSE \in RenewedElsewhere(p)
    <3>1. Own(p) \in Conns
      BY <1>0, <1>10 DEF Retry, At, ShapeOK, Own
    <3>2. x \in Call /\ x.token = rows[Own(p)].refresh /\ x.conn = call[p].conn
          /\ x.step = "askAgain" /\ x.grounds = call[p].grounds
      BY <1>0, <1>1, <3>1 DEF Call, Steps
    <3>3. ~rows[Own(p)].far \/ rows[Own(p)].refresh = call[p].token
      BY <2>3 DEF RenewedElsewhere
    <3> QED
      BY <1>0, <1>1, <1>10, <2>3, <3>1, <3>2, <3>3 DEF Retry, Quiet, At, Storing, ShapeOK, Own
  <2>4. RenewedElsewhere(p) \subseteq BOOLEAN
    BY DEF RenewedElsewhere
  <2>5. CASE ~GiveUp(p)
    <3>1. PICK found \in RenewedElsewhere(p) :
            \/ found /\ Served(p)
            \/ ~found /\ call' = [call EXCEPT ![p].token = rows[Own(p)].refresh,
                                             ![p].step = "askAgain"]
      BY <1>10, <2>5 DEF Retry
    <3> QED
      BY <2>1, <2>3, <2>4, <3>1
  <2> QED
    BY <2>2, <2>5
<1>11. CASE Revived(p)
  <2>1. Own(p) \in Conns
    BY <1>0, <1>11 DEF Revived, At, ShapeOK, Own
  <2>2. /\ rows' \in [Conns -> Row]
        /\ \A c \in Conns : rows'[c].refresh = rows[c].refresh /\ rows'[c].far = rows[c].far
    BY <1>0, <1>11, <2>1 DEF Revived, Row
  <2> QED
    BY <1>0, <1>11, <2>2, ServedQuiet DEF Revived, At, Storing
<1>12. CASE FreshHosts(p)
  <2>0. Own(p) \in Conns
    BY <1>0, <1>12 DEF FreshHosts, At, ShapeOK, Own
  <2>1. CASE Finish(p) /\ UNCHANGED rows
    BY <1>0, <1>12, <2>1, ServedQuiet DEF FreshHosts, At, Storing
  <2>2. CASE Goto(p, "hostsSpread") /\ Prolong(Own(p))
    <3> DEFINE x == [call[p] EXCEPT !.step = "hostsSpread"]
    <3>1. x \in Call /\ x.token = call[p].token /\ x.conn = call[p].conn /\ x.step = "hostsSpread"
      BY <1>0 DEF Call, Steps
    <3>2. /\ rows' \in [Conns -> Row]
          /\ \A d \in Conns : rows'[d].refresh = rows[d].refresh /\ (rows[d].far => rows'[d].far)
      BY <2>0, <2>2, ProlongRows
    <3> QED
      BY <1>0, <1>12, <2>2, <3>1, <3>2 DEF FreshHosts, Goto, Quiet, At, Storing, ShapeOK
  <2> QED
    BY <1>12, <2>1, <2>2 DEF FreshHosts
<1>15. CASE SpreadHosts(p)
  <2>1. \A c \in Conns : [rows[c] EXCEPT !.far = TRUE] \in Row
    BY <1>0 DEF Row
  <2>2. rows' = [c \in Conns |-> IF c # Own(p) /\ rows[c].status = "connected"
                                 THEN [rows[c] EXCEPT !.far = TRUE] ELSE rows[c]]
    BY <1>15 DEF SpreadHosts
  <2>3. rows' \in [Conns -> Row]
    BY <1>0, <2>1, <2>2
  <2>4. \A c \in Conns : rows'[c] = rows[c] \/ rows'[c] = [rows[c] EXCEPT !.far = TRUE]
    BY <2>2
  <2>5. \A c \in Conns : rows'[c].refresh = rows[c].refresh /\ (rows[c].far => rows'[c].far)
    BY <1>0, <2>4 DEF Row
  <2> QED
    BY <1>0, <1>15, <2>3, <2>5, ServedQuiet DEF SpreadHosts, At, Storing
<1>13. CASE RenewLast(p)
  <2>0. Own(p) \in Conns
    BY <1>0, <1>13 DEF RenewLast, At, ShapeOK, Own
  <2>1. CASE Served(p) /\ Prolong(Own(p))
    BY <1>0, <1>13, <2>0, <2>1, ServedQuiet, ProlongRows DEF RenewLast, At, Storing
  <2>2. CASE Goto(p, "judge") /\ UNCHANGED rows
    <3> DEFINE x == [call[p] EXCEPT !.step = "judge"]
    <3>1. x \in Call /\ x.token = call[p].token /\ x.conn = call[p].conn /\ x.step = "judge"
          /\ x.grounds = call[p].grounds
      BY <1>0 DEF Call, Steps
    <3> QED
      BY <1>0, <1>13, <2>2, <3>1 DEF RenewLast, Goto, Quiet, At, Storing, ShapeOK
  <2> QED
    BY <1>13, <2>1, <2>2 DEF RenewLast
<1>14. CASE Judge(p)
  <2>1. Own(p) \in Conns
    BY <1>0, <1>14 DEF Judge, At, ShapeOK, Own
  <2>2. /\ rows' \in [Conns -> Row]
        /\ \A c \in Conns : rows'[c].refresh = rows[c].refresh /\ rows'[c].far = rows[c].far
    BY <1>0, <1>14, <2>1 DEF Judge, Row
  <2> QED
    BY <1>0, <1>14, <2>2, ServedQuiet DEF Judge, At, Storing
<1> QED
  BY <1>2, <1>3, <1>4, <1>5, <1>6, <1>7, <1>8, <1>9, <1>10, <1>11, <1>12, <1>13, <1>14,
     <1>15 DEF QuietStep

------------------------------------------------------------------------------
(* The other steps.                                                        *)

\* A call that was accepted, that wrote its row, or that told its sisters.
LEMMA AcceptedStep ==
    ASSUME Typed, NEW p \in Calls, Accepted(p)
    PROVE  \E x \in Call :
            /\ call' = [call EXCEPT ![p] = x]
            /\ ShapeOK(x) /\ x.step = "store" /\ x.token = current' /\ x.conn = Own(p)
            /\ current' \in Tokens \ InUse /\ call[p].token = current
            /\ Turn(p) /\ ~Storing(p) /\ UNCHANGED <<rows, trouble>>
<1>1. call[p] \in Call /\ ShapeOK(call[p]) /\ current' \in Tokens /\ Own(p) \in Conns
  BY DEF Typed, TypeOK, Accepted, Rotate, Presents, At, ShapeOK, Own
<1>2. PICK promised \in BOOLEAN :
        call' = [call EXCEPT ![p] = [NoCall EXCEPT !.step = "store", !.kind = call[p].kind,
                    !.conn = Own(p), !.token = current', !.promised = promised]]
  BY DEF Accepted
<1> DEFINE x == [NoCall EXCEPT !.step = "store", !.kind = call[p].kind,
                    !.conn = Own(p), !.token = current', !.promised = promised]
<1>3. x \in Call /\ x.step = "store" /\ x.token = current' /\ x.conn = Own(p)
  BY <1>1 DEF Call, Steps, NoCall
<1>4. ShapeOK(x)
  BY <1>1, <1>3 DEF ShapeOK
<1> QED
  BY <1>2, <1>3, <1>4 DEF Accepted, Rotate, Presents, At, Storing

LEMMA StoreStep ==
    ASSUME Typed, NEW p \in Calls, Store(p)
    PROVE  /\ \E x \in Call :
                /\ call' = [call EXCEPT ![p] = x]
                /\ ShapeOK(x) /\ x.step = "spread"
                /\ x.token = call[p].token /\ x.conn = Own(p)
           /\ rows' \in [Conns -> Row] /\ Own(p) \in Conns
           /\ rows'[Own(p)].refresh = call[p].token /\ rows'[Own(p)].far
           /\ \A c \in Conns : c # Own(p) => rows'[c] = rows[c]
           /\ At(p, "store") /\ UNCHANGED <<current, trouble>>
<1> DEFINE x == [call[p] EXCEPT !.step = "spread"]
           r == Columns(p, rows[Own(p)])
<1>1. call[p] \in Call /\ ShapeOK(call[p]) /\ rows \in [Conns -> Row] /\ Own(p) \in Conns
      /\ call[p].token \in Tokens
  BY DEF Typed, TypeOK, Store, At, ShapeOK, Own
<1>2. x \in Call /\ x.step = "spread" /\ x.token = call[p].token /\ x.conn = Own(p)
  BY <1>1 DEF Call, Steps, Own
<1>3. ShapeOK(x)
  BY <1>1, <1>2 DEF ShapeOK
<1>4. r \in Row /\ r.refresh = call[p].token /\ r.far
  <2>1. call[p].promised \in BOOLEAN /\ rows[Own(p)] \in Row
    BY <1>1 DEF Call
  <2> QED
    BY <1>1, <2>1 DEF Columns, Row
<1>5. rows' = [rows EXCEPT ![Own(p)] = r]
  BY DEF Store
<1> HIDE DEF r
<1> QED
  BY <1>1, <1>2, <1>3, <1>4, <1>5 DEF Store, Goto

LEMMA SpreadStep ==
    ASSUME Typed, NEW p \in Calls, Spread(p)
    PROVE  /\ \E x \in Call :
                /\ call' = [call EXCEPT ![p] = x]
                /\ ShapeOK(x) /\ x.step \in {"idle", "hosts", "revived"} /\ x.token = None
           /\ rows' \in [Conns -> Row] /\ Own(p) \in Conns
           /\ rows'[Own(p)] = rows[Own(p)]
           /\ \A c \in Conns : c # Own(p) => rows'[c].refresh = call[p].token /\ rows'[c].far
           /\ At(p, "spread") /\ UNCHANGED <<current, trouble>>
<1>1. call[p] \in Call /\ ShapeOK(call[p]) /\ rows \in [Conns -> Row] /\ Own(p) \in Conns
      /\ call[p].token \in Tokens /\ ~At(p, "idle")
  BY DEF Typed, TypeOK, Spread, At, ShapeOK, Own
<1>2. \E x \in Call :
        /\ call' = [call EXCEPT ![p] = x]
        /\ ShapeOK(x) /\ x.step \in {"idle", "hosts", "revived"} /\ x.token = None
  <2>1. CASE Served(p)
    BY <1>1, <2>1, GoesOn
  <2>2. CASE GoOnAt(p, "revived")
    <3> DEFINE x == [NoCall EXCEPT !.step = "revived", !.conn = Own(p)]
    <3>1. x \in Call /\ x.step = "revived" /\ x.token = None /\ ShapeOK(x)
      BY <1>1 DEF Call, Steps, NoCall, ShapeOK
    <3> QED
      BY <2>2, <3>1 DEF GoOnAt
  <2> QED
    BY <2>1, <2>2 DEF Spread
<1>3. ASSUME NEW c \in Conns
      PROVE  /\ [Columns(p, rows[c]) EXCEPT !.status = "connected"] \in Row
             /\ [Columns(p, rows[c]) EXCEPT !.status = "connected"].refresh = call[p].token
             /\ [Columns(p, rows[c]) EXCEPT !.status = "connected"].far
  <2>1. call[p].promised \in BOOLEAN /\ rows[c] \in Row
    BY <1>1 DEF Call
  <2> QED
    BY <1>1, <2>1 DEF Columns, Row
<1>4. rows' = [c \in Conns |-> IF c = Own(p) THEN rows[c]
                              ELSE [Columns(p, rows[c]) EXCEPT !.status = "connected"]]
  BY DEF Spread
<1> DEFINE told(c) == [Columns(p, rows[c]) EXCEPT !.status = "connected"]
<1>5. /\ rows' \in [Conns -> Row] /\ rows'[Own(p)] = rows[Own(p)]
      /\ \A c \in Conns : c # Own(p) => rows'[c] = told(c)
  BY <1>1, <1>3, <1>4
<1>6. \A c \in Conns : c # Own(p) => rows'[c].refresh = call[p].token /\ rows'[c].far
  BY <1>3, <1>5
<1> QED
  BY <1>1, <1>2, <1>5, <1>6 DEF Spread

LEMMA TickStep ==
    ASSUME Typed, Tick
    PROVE  /\ rows' \in [Conns -> Row]
           /\ \A c \in Conns : rows'[c].refresh = rows[c].refresh
           /\ \A p \in Calls : At(p, "idle")
           /\ UNCHANGED <<current, call, trouble>>
<1>1. PICK ended \in SUBSET Conns :
        rows' = [c \in Conns |-> [rows[c] EXCEPT !.far = FALSE,
                                      !.promised = rows[c].promised /\ c \notin ended]]
  BY DEF Tick
<1>2. ASSUME NEW c \in Conns
      PROVE  /\ [rows[c] EXCEPT !.far = FALSE, !.promised = rows[c].promised /\ c \notin ended] \in Row
             /\ [rows[c] EXCEPT !.far = FALSE, !.promised = rows[c].promised /\ c \notin ended].refresh
                    = rows[c].refresh
  <2>1. rows[c] \in Row /\ (rows[c].promised /\ c \notin ended) \in BOOLEAN
    BY DEF Typed, TypeOK
  <2> QED
    BY <2>1 DEF Row
<1> QED
  BY <1>1, <1>2 DEF Tick

\* What a call does in a step.
LEMMA NextCases ==
    ASSUME Typed, [Next]_vars
    PROVE  \/ \E p \in Calls : QuietStep(p) \/ Accepted(p) \/ Store(p) \/ Spread(p) \/ Dies(p)
           \/ Tick
           \/ UNCHANGED vars
BY DEF Next, Step, QuietStep

------------------------------------------------------------------------------
(* Types.                                                                  *)

LEMMA TypedInit ==
    ASSUME Init
    PROVE  Typed
<1>1. \A p \in Calls : call[p] = NoCall
  BY DEF Init
<1>2. call \in [Calls -> Call] /\ \A p \in Calls : ShapeOK(call[p])
  BY <1>1, NoCallShape DEF Init
<1> QED
  BY <1>2 DEF Init, Typed, TypeOK

LEMMA TypedNext ==
    ASSUME Typed, [Next]_vars
    PROVE  Typed'
<1> USE DEF Typed, TypeOK
<1>0. ASSUME NEW p \in Calls, NEW x \in Call, call' = [call EXCEPT ![p] = x], ShapeOK(x)
      PROVE  call' \in [Calls -> Call] /\ \A q \in Calls : ShapeOK(call'[q])
  BY <1>0
<1>1. ASSUME NEW p \in Calls, QuietStep(p) PROVE Typed'
  <2>1. PICK x \in Call : Quiet(p, x)
    BY <1>1, QuietSteps
  <2> QED
    BY <1>0, <2>1 DEF Quiet, ShapeOK
<1>2. ASSUME NEW p \in Calls, Accepted(p) PROVE Typed'
  BY <1>0, <1>2, AcceptedStep DEF ShapeOK
<1>3. ASSUME NEW p \in Calls, Store(p) PROVE Typed'
  BY <1>0, <1>3, StoreStep DEF ShapeOK
<1>4. ASSUME NEW p \in Calls, Spread(p) PROVE Typed'
  BY <1>0, <1>4, SpreadStep DEF ShapeOK
<1>5. ASSUME NEW p \in Calls, Dies(p) PROVE Typed'
  <2>1. current' \in Tokens /\ UNCHANGED <<rows, trouble>> /\ call' = [call EXCEPT ![p] = NoCall]
    BY <1>5 DEF Dies, Rotate, Finish
  <2> QED
    BY <1>0, <2>1, NoCallShape DEF ShapeOK
<1>6. CASE Tick
  BY <1>6, TickStep DEF ShapeOK
<1>7. CASE UNCHANGED vars
  BY <1>7 DEF vars, ShapeOK
<1> QED
  BY <1>1, <1>2, <1>3, <1>4, <1>5, <1>6, <1>7, NextCases

\* The variables keep their types, and a call that works knows its connection
\* and its token.
THEOREM TypeCorrect == Spec => []TypeOK
<1>1. Init => Typed
  BY TypedInit
<1>2. Typed /\ [Next]_vars => Typed'
  BY TypedNext
<1>3. Typed => TypeOK
  BY DEF Typed
<1> QED
  BY <1>1, <1>2, <1>3, PTL DEF Spec

------------------------------------------------------------------------------
(* A token just obtained.                                                  *)

\* Nothing but its call refers to a token that is not written yet.
Hidden ==
    \A p \in Calls : At(p, "store") =>
        /\ call[p].token = current
        /\ \A c \in Conns : rows[c].refresh # current
        /\ \A q \in Calls \ {p} : call[q].token # current

LEMMA HiddenNext ==
    ASSUME Typed, Hidden, [Next]_vars
    PROVE  Hidden'
<1>0. /\ call \in [Calls -> Call] /\ current \in Tokens /\ None # current
      /\ \A q \in Calls : call[q] \in Call
  BY NoneAssumption DEF Typed, TypeOK
<1>1. ASSUME NEW p \in Calls, QuietStep(p) PROVE Hidden'
  <2>1. PICK x \in Call : Quiet(p, x)
    BY <1>1, QuietSteps
  <2>2. call'[p] = x /\ x.step # "store" /\ \A q \in Calls \ {p} : call'[q] = call[q]
    BY <2>1, CallUpdate DEF Quiet
  <2>3. ASSUME NEW q \in Calls, At(q, "store")' PROVE x.token # current
    <3>1. q # p /\ At(q, "store")
      BY <2>2, <2>3 DEF At
    <3> QED
      BY <1>0, <2>1, <3>1 DEF Quiet, Hidden
  <2> QED
    BY <2>1, <2>2, <2>3 DEF Quiet, Hidden, At
<1>2. ASSUME NEW p \in Calls, Accepted(p) PROVE Hidden'
  <2>1. PICK x \in Call :
            /\ call' = [call EXCEPT ![p] = x] /\ x.step = "store" /\ x.token = current'
            /\ current' \in Tokens \ InUse /\ call[p].token = current
            /\ ~Storing(p) /\ UNCHANGED <<rows, trouble>>
    BY <1>2, AcceptedStep
  <2>2. call'[p] = x /\ \A q \in Calls \ {p} : call'[q] = call[q]
    BY <2>1, CallUpdate
  <2>3. ASSUME NEW q \in Calls \ {p} PROVE ~At(q, "store")
    BY <2>1 DEF Hidden
  <2> QED
    BY <2>1, <2>2, <2>3 DEF Hidden, At, InUse
<1>3. ASSUME NEW p \in Calls, Store(p) PROVE Hidden'
  <2>1. PICK x \in Call : call' = [call EXCEPT ![p] = x] /\ x.step = "spread"
    BY <1>3, StoreStep
  <2>2. call'[p] = x /\ \A q \in Calls \ {p} : call'[q] = call[q]
    BY <2>1, CallUpdate
  <2>3. ASSUME NEW q \in Calls \ {p} PROVE ~At(q, "store")
    BY <1>3, StoreStep DEF Hidden
  <2> QED
    BY <2>1, <2>2, <2>3 DEF Hidden, At
<1>4. ASSUME NEW p \in Calls, Spread(p) PROVE Hidden'
  <2>1. PICK x \in Call : /\ call' = [call EXCEPT ![p] = x]
                          /\ x.step \in {"idle", "hosts", "revived"} /\ x.token = None
    BY <1>4, SpreadStep
  <2>2. call'[p] = x /\ \A q \in Calls \ {p} : call'[q] = call[q]
    BY <2>1, CallUpdate
  <2>3. ASSUME NEW q \in Calls, At(q, "store")' PROVE At(q, "store") /\ q # p
    BY <2>1, <2>2, <2>3 DEF At
  <2>4. ASSUME NEW q \in Calls, At(q, "store")'
        PROVE  \A c \in Conns : rows'[c].refresh # current
    BY <1>4, <2>3, <2>4, SpreadStep DEF Hidden
  <2>5. current' = current
    BY <1>4, SpreadStep
  <2> QED
    BY <1>0, <2>1, <2>2, <2>3, <2>4, <2>5 DEF Hidden, At
<1>5. ASSUME NEW p \in Calls, Dies(p) PROVE Hidden'
  <2>1. call' = [call EXCEPT ![p] = NoCall] /\ rows' = rows /\ NoCall.step = "idle" /\ NoCall.token = None
    BY <1>5 DEF Dies, Finish, NoCall
  <2>2. call'[p] = NoCall /\ \A q \in Calls \ {p} : call'[q] = call[q]
    BY <2>1, CallUpdate, NoCallShape
  <2>3. CASE current' = current
    BY <1>0, <2>1, <2>2, <2>3 DEF Hidden, At
  <2>4. CASE Rotate(p)
    <3>1. call[p].token = current /\ ~At(p, "store")
      BY <2>4 DEF Rotate, Presents, At
    <3>2. \A q \in Calls : ~At(q, "store")
      BY <3>1 DEF Hidden
    <3> QED
      BY <2>1, <2>2, <3>2 DEF Hidden, At
  <2> QED
    BY <1>5, <2>3, <2>4 DEF Dies
<1>6. CASE Tick
  BY <1>6, TickStep DEF Hidden, At
<1>7. CASE UNCHANGED vars
  BY <1>7 DEF vars, Hidden, At
<1> QED
  BY <1>1, <1>2, <1>3, <1>4, <1>5, <1>6, <1>7, NextCases

\* A token that Tradovate gave stays the valid one until it is written,
\* whatever the locks, the speed and the crashes of the calls.
THEOREM UnwrittenStaysCurrent == Spec => []UnwrittenIsCurrent
<1>1. Init => Typed /\ Hidden
  <2>1. Init => \A p \in Calls : call[p].step = "idle"
    BY DEF Init, NoCall
  <2> QED
    BY <2>1, TypedInit DEF Hidden, At
<1>2. Typed /\ Hidden /\ [Next]_vars => (Typed /\ Hidden)'
  BY TypedNext, HiddenNext
<1>3. Typed /\ Hidden => UnwrittenIsCurrent
  BY DEF Hidden, UnwrittenIsCurrent
<1> QED
  BY <1>1, <1>2, <1>3, PTL DEF Spec

------------------------------------------------------------------------------
(* Without trouble.                                                        *)

\* Between two renewals every sister holds the token of the login ...
SistersAgree ==
    (\A p \in Calls : ~Storing(p)) => \A c \in Conns : rows[c].refresh = current

\* ... one call at a time stores an answer, in its own row first ...
OneStores ==
    \A p \in Calls : Storing(p) =>
        /\ call[p].token = current
        /\ At(p, "spread") => rows[Own(p)].refresh = current /\ rows[Own(p)].far
        /\ \A q \in Calls \ {p} : ~Storing(q)

\* ... a call with a replaced token has a row that was renewed since ...
ReplacedIsRenewed ==
    (\A q \in Calls : ~Storing(q)) =>
        \A p \in Calls : call[p].token \notin {None, current} => rows[Own(p)].far

\* ... and a call that goes beyond the first refusal was refused wrongly, or
\* has been since its token was replaced.
Grounds ==
    \A p \in Calls :
        /\ At(p, "retry") => call[p].grounds \/ call[p].token # current
        /\ At(p, "askAgain") \/ At(p, "renewLast") \/ At(p, "judge") => call[p].grounds

Calm == trouble = "none" => SistersAgree /\ OneStores /\ ReplacedIsRenewed /\ Grounds

LEMMA CalmNext ==
    ASSUME Typed, Calm, [Next]_vars
    PROVE  Calm'
<1> SUFFICES ASSUME trouble = "none", trouble' = "none"
             PROVE  (SistersAgree /\ OneStores /\ ReplacedIsRenewed /\ Grounds)'
  BY NextCases, TickStep DEF Calm, Next, Begin, Step, CheckDead, RenewFirst, TakeLock,
     AwaitSister, Reread, Accepted, Refused, Fails, Retry, Store, Spread, Revived,
     FreshHosts, SpreadHosts, RenewLast, Judge, Dies, vars
<1>0. /\ call \in [Calls -> Call] /\ current \in Tokens /\ None # current
      /\ \A q \in Calls : call[q] \in Call /\ ShapeOK(call[q])
      /\ SistersAgree /\ OneStores /\ ReplacedIsRenewed /\ Grounds
  BY NoneAssumption DEF Typed, TypeOK, Calm
<1>1. ASSUME NEW p \in Calls, QuietStep(p)
      PROVE  (SistersAgree /\ OneStores /\ ReplacedIsRenewed /\ Grounds)'
  <2>1. PICK x \in Call : Quiet(p, x)
    BY <1>1, QuietSteps
  <2>2. call'[p] = x /\ \A q \in Calls \ {p} : call'[q] = call[q]
    BY <2>1, CallUpdate DEF Quiet
  <2>3. \A q \in Calls : ~Storing(q) /\ ~Storing(q)'
    BY <2>1, <2>2 DEF Quiet, Turn, Storing, At
  <2>4. \A c \in Conns : rows[c].refresh = current /\ rows'[c].refresh = current'
    BY <1>0, <2>1, <2>3 DEF SistersAgree, Quiet
  <2>5. x.token \in {None, current} \/ (x.token = call[p].token /\ x.conn = Own(p))
    BY <2>1, <2>4 DEF Quiet, Own
  <2>6. ASSUME NEW q \in Calls, call'[q].token \notin {None, current'}
        PROVE  rows'[call'[q].conn].far
    <3>1. call[q].token \notin {None, current} /\ call'[q].conn = Own(q) /\ current' = current
      BY <2>1, <2>2, <2>5, <2>6 DEF Quiet, Own
    <3>2. rows[Own(q)].far
      BY <1>0, <2>3, <3>1 DEF ReplacedIsRenewed
    <3>3. Own(q) \in Conns
      BY <1>0, <2>1, <3>1 DEF ShapeOK, Own
    <3> QED
      BY <2>1, <3>1, <3>2, <3>3 DEF Quiet
  <2>7. x.step = "askAgain" => x.grounds
    <3> SUFFICES ASSUME x.step = "askAgain", ~call[p].grounds PROVE FALSE
      BY <2>1 DEF Quiet
    <3>1. call[p].token # current /\ call[p].token \in Tokens /\ Own(p) \in Conns
      BY <1>0, <2>1 DEF Quiet, Grounds, ShapeOK, At, Own
    <3>2. rows[Own(p)].far /\ rows[Own(p)].refresh = current
      BY <1>0, <2>3, <2>4, <3>1, NoneAssumption DEF ReplacedIsRenewed
    <3> QED
      BY <2>1, <3>1, <3>2 DEF Quiet
  <2>8. x.step \in {"renewLast", "judge"} => x.grounds
    BY <1>0, <2>1 DEF Quiet, Grounds
  <2>9. x.step = "retry" => x.grounds \/ x.token # current'
    BY <2>1 DEF Quiet
  <2>10. Grounds'
    BY <1>0, <2>1, <2>2, <2>7, <2>8, <2>9 DEF Grounds, At, Quiet
  <2> QED
    BY <2>3, <2>4, <2>6, <2>10 DEF SistersAgree, OneStores, ReplacedIsRenewed, Own
<1>2. ASSUME NEW p \in Calls, Accepted(p)
      PROVE  (SistersAgree /\ OneStores /\ ReplacedIsRenewed /\ Grounds)'
  <2>1. PICK x \in Call :
            /\ call' = [call EXCEPT ![p] = x] /\ x.step = "store" /\ x.token = current'
            /\ current' \in Tokens \ InUse /\ Turn(p) /\ UNCHANGED <<rows, trouble>>
    BY <1>2, AcceptedStep
  <2>2. call'[p] = x /\ \A q \in Calls \ {p} : call'[q] = call[q]
    BY <2>1, CallUpdate
  <2>3. Storing(p)' /\ \A q \in Calls \ {p} : ~Storing(q)'
    BY <2>1, <2>2 DEF Turn, Storing, At
  <2>4. \A q \in Calls : call[q].token # current'
    BY <2>1 DEF InUse
  <2>5. Grounds'
    BY <1>0, <2>1, <2>2, <2>4 DEF Grounds, At
  <2>6. OneStores'
    BY <2>1, <2>2, <2>3 DEF OneStores, Storing, At
  <2> QED
    BY <2>3, <2>5, <2>6 DEF SistersAgree, ReplacedIsRenewed
<1>3. ASSUME NEW p \in Calls, Store(p)
      PROVE  (SistersAgree /\ OneStores /\ ReplacedIsRenewed /\ Grounds)'
  <2>1. PICK x \in Call : /\ call' = [call EXCEPT ![p] = x] /\ x.step = "spread"
                          /\ x.token = call[p].token /\ x.conn = Own(p)
    BY <1>3, StoreStep
  <2>2. call'[p] = x /\ \A q \in Calls \ {p} : call'[q] = call[q]
    BY <2>1, CallUpdate
  <2>3. Storing(p) /\ current' = current /\ Own(p) \in Conns
        /\ rows'[Own(p)].refresh = call[p].token /\ rows'[Own(p)].far
    BY <1>3, StoreStep DEF Storing
  <2>4. call[p].token = current /\ \A q \in Calls \ {p} : ~Storing(q)
    BY <1>0, <2>3 DEF OneStores
  <2>5. Storing(p)' /\ \A q \in Calls \ {p} : ~Storing(q)'
    BY <2>1, <2>2, <2>4 DEF Storing, At
  <2>6. Grounds'
    BY <1>0, <2>1, <2>2, <2>3 DEF Grounds, At
  <2>7. OneStores'
    BY <2>1, <2>2, <2>3, <2>4, <2>5 DEF OneStores, At, Own
  <2> QED
    BY <2>5, <2>6, <2>7 DEF SistersAgree, ReplacedIsRenewed
<1>4. ASSUME NEW p \in Calls, Spread(p)
      PROVE  (SistersAgree /\ OneStores /\ ReplacedIsRenewed /\ Grounds)'
  <2>1. PICK x \in Call : /\ call' = [call EXCEPT ![p] = x]
                          /\ x.step \in {"idle", "hosts", "revived"} /\ x.token = None
    BY <1>4, SpreadStep
  <2>2. call'[p] = x /\ \A q \in Calls \ {p} : call'[q] = call[q]
    BY <2>1, CallUpdate
  <2>3. At(p, "spread") /\ Storing(p) /\ current' = current /\ Own(p) \in Conns
        /\ rows'[Own(p)] = rows[Own(p)]
        /\ \A c \in Conns : c # Own(p) => rows'[c].refresh = call[p].token /\ rows'[c].far
    BY <1>4, SpreadStep DEF Storing
  <2>4. /\ call[p].token = current /\ rows[Own(p)].refresh = current /\ rows[Own(p)].far
        /\ \A q \in Calls \ {p} : ~Storing(q)
    BY <1>0, <2>3 DEF OneStores
  <2>5. \A c \in Conns : rows'[c].refresh = current' /\ rows'[c].far
    BY <2>3, <2>4
  <2>6. \A q \in Calls : ~Storing(q)'
    BY <2>1, <2>2, <2>4 DEF Storing, At
  <2>7. Grounds'
    BY <1>0, <2>1, <2>2, <2>3 DEF Grounds, At
  <2>8. ASSUME NEW q \in Calls, call'[q].token \notin {None, current'}
        PROVE  call'[q].conn \in Conns
    BY <1>0, <2>1, <2>2, <2>8 DEF ShapeOK
  <2> QED
    BY <2>5, <2>6, <2>7, <2>8 DEF SistersAgree, OneStores, ReplacedIsRenewed, Own
<1>5. ASSUME NEW p \in Calls, Dies(p) PROVE FALSE
  BY <1>5 DEF Dies
<1>6. CASE Tick
  <2>1. \A q \in Calls : call'[q] = call[q] /\ call[q].step = "idle" /\ call[q].token = None
    BY <1>0, <1>6, TickStep DEF At, ShapeOK
  <2>2. \A q \in Calls : ~Storing(q) /\ ~Storing(q)'
    BY <2>1 DEF Storing, At
  <2>3. SistersAgree'
    BY <1>0, <1>6, <2>2, TickStep DEF SistersAgree
  <2>4. (OneStores /\ ReplacedIsRenewed /\ Grounds)'
    BY <2>1, <2>2 DEF OneStores, ReplacedIsRenewed, Grounds, At
  <2> QED
    BY <2>3, <2>4
<1>7. CASE UNCHANGED vars
  BY <1>0, <1>7 DEF vars, SistersAgree, OneStores, ReplacedIsRenewed, Grounds, At, Storing, Own
<1> QED
  BY <1>1, <1>2, <1>3, <1>4, <1>5, <1>6, <1>7, NextCases

LEMMA CalmInit ==
    ASSUME Init
    PROVE  Calm
<1>1. \A p \in Calls : call[p].step = "idle" /\ call[p].token = None
  BY DEF Init, NoCall
<1>2. \A c \in Conns : rows[c].refresh = current
  BY DEF Init
<1> QED
  BY <1>1, <1>2 DEF Calm, SistersAgree, OneStores, ReplacedIsRenewed, Grounds, Storing, At

\* Without trouble no connection is condemned because a sister took the token,
\* for any number of sisters and of calls, whether or not the lock works.
THEOREM NoRaceCondemns == Spec => []NotCondemnedByRace
<1>1. Init => Typed /\ Calm
  BY TypedInit, CalmInit
<1>2. Typed /\ Calm /\ [Next]_vars => (Typed /\ Calm)'
  BY TypedNext, CalmNext
<1>3. Typed /\ Calm => NotCondemnedByRace
  BY DEF Calm, Grounds, NotCondemnedByRace
<1> QED
  BY <1>1, <1>2, <1>3, PTL DEF Spec

\* Without trouble a condemned connection keeps a token that works.
THEOREM CondemnedIsRevivable == Spec => []Revivable
<1>1. Init => Typed /\ Calm
  BY TypedInit, CalmInit
<1>2. Typed /\ Calm /\ [Next]_vars => (Typed /\ Calm)'
  BY TypedNext, CalmNext
<1>3. Typed /\ Calm => Revivable
  BY DEF Calm, SistersAgree, Revivable
<1> QED
  BY <1>1, <1>2, <1>3, PTL DEF Spec

------------------------------------------------------------------------------
(* The login is not lost.                                                  *)

TwoCalls == \A p, q, r \in Calls : p = q \/ q = r \/ p = r

Holds(p) == Storing(p) /\ call[p].token = current

\* Of two calls that store, the last to be answered has the token of the login: the
\* other was answered before, and has written its own row already ...
OneIsLast ==
    \A p, q \in Calls : p # q /\ Storing(p) /\ Storing(q) =>
        call[p].token # call[q].token /\ (Holds(p) \/ Holds(q))

\* ... what a late call is about to overwrite is never the last copy, since it
\* spares its own row ...
Spared ==
    (\A p \in Calls : ~Holds(p)) =>
        /\ \E c \in Conns : rows[c].refresh = current
        /\ \A q \in Calls : At(q, "spread") => rows[Own(q)].refresh = current

\* ... and the call that has the token will leave it in a sister, or in its row,
\* in which a late call on the same row has left it.
WillLeave ==
    \A p \in Calls : At(p, "spread") /\ Holds(p) =>
        /\ \E c \in Conns : c # Own(p) \/ rows[c].refresh = current
        /\ \A q \in Calls \ {p} :
              At(q, "spread") /\ Own(q) = Own(p) => rows[Own(p)].refresh = current

Kept == trouble # "crash" => OneIsLast /\ Spared /\ WillLeave

LEMMA KeptNext ==
    ASSUME TwoCalls, Typed, Hidden, Kept, [Next]_vars
    PROVE  Kept'
<1> SUFFICES ASSUME trouble # "crash", trouble' = trouble
             PROVE  (OneIsLast /\ Spared /\ WillLeave)'
  BY NextCases, TickStep DEF Kept, Next, Begin, Step, CheckDead, RenewFirst, TakeLock,
     AwaitSister, Reread, Accepted, Refused, Fails, Retry, Store, Spread, Revived,
     FreshHosts, SpreadHosts, RenewLast, Judge, Dies, vars
<1>0. /\ OneIsLast /\ Spared /\ WillLeave
      /\ \A q \in Calls : Storing(q) => Own(q) \in Conns
  BY DEF Kept, Typed, ShapeOK, Storing, At, Own
<1>1. ASSUME NEW p \in Calls, QuietStep(p)
      PROVE  (OneIsLast /\ Spared /\ WillLeave)'
  <2>1. PICK x \in Call : Quiet(p, x)
    BY <1>1, QuietSteps
  <2>2. call'[p] = x /\ \A q \in Calls \ {p} : call'[q] = call[q]
    BY <2>1, CallUpdate DEF Quiet
  <2>3. ~Storing(p) /\ ~Storing(p)' /\ current' = current
    BY <2>1, <2>2 DEF Quiet, Storing, At
  <2>4. \A q \in Calls : Storing(q)' => q # p /\ call'[q] = call[q] /\ Storing(q)
    BY <2>2, <2>3 DEF Storing, At
  <2>5. \A q \in Calls : Storing(q) => call'[q] = call[q] /\ Storing(q)'
    BY <2>2, <2>3 DEF Storing, At
  <2>6. \A c \in Conns : rows'[c].refresh = rows[c].refresh
    BY <2>1 DEF Quiet
  <2>7. OneIsLast'
    BY <1>0, <2>3, <2>4 DEF OneIsLast, Holds, Storing, At
  <2>8. Spared'
    BY <1>0, <2>3, <2>4, <2>5, <2>6 DEF Spared, Holds, Storing, At, Own
  <2>9. WillLeave'
    BY <1>0, <2>3, <2>4, <2>6 DEF WillLeave, Holds, Storing, At, Own
  <2> QED
    BY <2>7, <2>8, <2>9
<1>2. ASSUME NEW p \in Calls, Accepted(p)
      PROVE  (OneIsLast /\ Spared /\ WillLeave)'
  <2>1. PICK x \in Call :
            /\ call' = [call EXCEPT ![p] = x] /\ x.step = "store" /\ x.token = current'
            /\ current' \in Tokens \ InUse
    BY <1>2, AcceptedStep
  <2>2. call'[p] = x /\ \A q \in Calls \ {p} : call'[q] = call[q]
    BY <2>1, CallUpdate
  <2>3. Holds(p)' /\ ~At(p, "spread")'
    BY <2>1, <2>2 DEF Holds, Storing, At
  <2>4. \A q \in Calls \ {p} : call'[q].token # current' /\ ~Holds(q)'
    BY <2>1, <2>2 DEF InUse, Holds
  <2>5. \A q, r \in Calls : q # r => q = p \/ r = p
    BY DEF TwoCalls
  <2>6. OneIsLast'
    BY <2>3, <2>4, <2>5 DEF OneIsLast, Holds
  <2> QED
    BY <2>3, <2>4, <2>6 DEF Spared, WillLeave
<1>3. ASSUME NEW p \in Calls, Store(p)
      PROVE  (OneIsLast /\ Spared /\ WillLeave)'
  <2>1. PICK x \in Call :
            /\ call' = [call EXCEPT ![p] = x] /\ x.step = "spread"
            /\ x.token = call[p].token /\ x.conn = Own(p)
    BY <1>3, StoreStep
  <2>2. /\ rows'[Own(p)].refresh = call[p].token /\ Own(p) \in Conns
        /\ At(p, "store") /\ current' = current
    BY <1>3, StoreStep
  <2>3. call'[p] = x /\ \A q \in Calls \ {p} : call'[q] = call[q]
    BY <2>1, CallUpdate
  <2>4. call[p].token = current /\ \A q \in Calls \ {p} : call[q].token # current
    BY <2>2 DEF Hidden
  <2>5. Holds(p)' /\ Own(p)' = Own(p) /\ rows'[Own(p)].refresh = current'
    BY <2>1, <2>2, <2>3, <2>4 DEF Holds, Storing, At, Own
  <2>6. \A q \in Calls \ {p} : call'[q].token # current' /\ ~Holds(q)'
    BY <2>2, <2>3, <2>4 DEF Holds
  <2>7. \A q, r \in Calls : q # r => q = p \/ r = p
    BY DEF TwoCalls
  <2>8. OneIsLast'
    BY <2>5, <2>6, <2>7 DEF OneIsLast, Holds
  <2>9. WillLeave'
    BY <2>2, <2>5, <2>6 DEF WillLeave
  <2> QED
    BY <2>5, <2>8, <2>9 DEF Spared
<1>4. ASSUME NEW p \in Calls, Spread(p)
      PROVE  (OneIsLast /\ Spared /\ WillLeave)'
  <2>1. PICK x \in Call :
            /\ call' = [call EXCEPT ![p] = x]
            /\ x.step \in {"idle", "hosts", "revived"} /\ x.token = None
    BY <1>4, SpreadStep
  <2>2. /\ Own(p) \in Conns /\ rows'[Own(p)] = rows[Own(p)]
        /\ \A c \in Conns : c # Own(p) => rows'[c].refresh = call[p].token
        /\ At(p, "spread") /\ current' = current
    BY <1>4, SpreadStep
  <2>3. call'[p] = x /\ \A q \in Calls \ {p} : call'[q] = call[q]
    BY <2>1, CallUpdate
  <2>4. ~Storing(p)' /\ Storing(p)
    BY <2>1, <2>2, <2>3 DEF Storing, At
  <2>5. \A q \in Calls \ {p} : /\ Storing(q)' <=> Storing(q)
                               /\ At(q, "spread")' <=> At(q, "spread")
                               /\ Holds(q)' <=> Holds(q)
                               /\ Own(q)' = Own(q)
    BY <2>2, <2>3 DEF Storing, At, Holds, Own
  <2>6. \A q, r \in Calls : q # r => q = p \/ r = p
    BY DEF TwoCalls
  <2>7. OneIsLast'
    BY <2>4, <2>6 DEF OneIsLast
  <2>8. CASE Holds(p)
    <3>1. \A q \in Calls : ~Holds(q)'
      BY <1>0, <2>2, <2>4, <2>5, <2>8 DEF OneIsLast, Holds
    <3>2. \E c \in Conns : rows'[c].refresh = current'
      <4>1. PICK c \in Conns : c # Own(p) \/ rows[c].refresh = current
        BY <1>0, <2>2, <2>8 DEF WillLeave
      <4> QED
        BY <2>2, <2>8, <4>1 DEF Holds
    <3>3. ASSUME NEW q \in Calls, At(q, "spread")'
          PROVE  rows'[Own(q)'].refresh = current'
      <4>1. q # p /\ At(q, "spread") /\ Own(q)' = Own(q) /\ Own(q) \in Conns
        BY <1>0, <2>4, <2>5, <3>3 DEF Storing
      <4>2. CASE Own(q) = Own(p)
        BY <1>0, <2>2, <2>8, <4>1, <4>2 DEF WillLeave
      <4>3. CASE Own(q) # Own(p)
        BY <2>2, <2>8, <4>1, <4>3 DEF Holds
      <4> QED
        BY <4>2, <4>3
    <3> QED
      BY <2>7, <3>1, <3>2, <3>3 DEF Spared, WillLeave
  <2>9. CASE ~Holds(p)
    <3>1. ASSUME \A q \in Calls : ~Holds(q)'
          PROVE  Spared'
      <4>1. \A q \in Calls : ~Holds(q)
        BY <2>5, <2>9, <3>1
      <4>2. rows[Own(p)].refresh = current
        BY <1>0, <2>2, <4>1 DEF Spared
      <4>3. \A q \in Calls : ~At(q, "spread")'
        BY <1>0, <2>4, <2>5, <4>1 DEF OneIsLast, Storing
      <4> QED
        BY <2>2, <4>2, <4>3 DEF Spared
    <3>2. ASSUME NEW q \in Calls, At(q, "spread")', Holds(q)'
          PROVE  /\ \E c \in Conns : c # Own(q)' \/ rows'[c].refresh = current'
                 /\ \A r \in Calls \ {q} : ~At(r, "spread")'
      <4>1. q # p /\ At(q, "spread") /\ Holds(q) /\ Own(q)' = Own(q)
        BY <2>4, <2>5, <3>2 DEF Storing
      <4>2. Own(p) = Own(q) => rows[Own(p)].refresh = current
        BY <1>0, <2>2, <4>1 DEF WillLeave
      <4>3. \A r \in Calls \ {q} : ~At(r, "spread")'
        BY <2>4, <2>6, <4>1 DEF Storing
      <4> QED
        BY <2>2, <4>1, <4>2, <4>3
    <3>3. WillLeave'
      BY <3>2 DEF WillLeave
    <3>4. Spared'
      BY <3>1 DEF Spared
    <3> QED
      BY <2>7, <3>3, <3>4
  <2> QED
    BY <2>8, <2>9
<1>5. ASSUME NEW p \in Calls, Dies(p) PROVE FALSE
  BY <1>5 DEF Dies
<1>6. CASE Tick
  <2>1. \A p \in Calls : ~Storing(p) /\ ~Storing(p)' /\ ~At(p, "spread")'
    BY <1>6, TickStep DEF Storing, At
  <2>2. (\A c \in Conns : rows'[c].refresh = rows[c].refresh) /\ current' = current
    BY <1>6, TickStep
  <2> QED
    BY <1>0, <2>1, <2>2 DEF OneIsLast, Spared, WillLeave, Holds
<1>7. CASE UNCHANGED vars
  BY <1>0, <1>7 DEF vars, OneIsLast, Spared, WillLeave, Holds, Storing, At, Own
<1> QED
  BY <1>1, <1>2, <1>3, <1>4, <1>5, <1>6, <1>7, NextCases

LEMMA KeptInit ==
    ASSUME Init
    PROVE  Kept /\ Hidden
<1>1. \A p \in Calls : ~Storing(p) /\ ~At(p, "spread") /\ ~At(p, "store")
  BY DEF Init, NoCall, Storing, At
<1>2. \E c \in Conns : rows[c].refresh = current
  BY ConnsAssumption DEF Init
<1> QED
  BY <1>1, <1>2 DEF Kept, Hidden, OneIsLast, Spared, WillLeave

\* Two calls of any speed leave the token of the login in a row, or about to be
\* written (refreshWithToken, propagateToSiblings), for any number of sisters.  Three
\* slow ones may not.
THEOREM LoginNeverLost ==
    ASSUME TwoCalls
    PROVE  Spec => []NeverLost
<1>1. Init => Typed /\ Hidden /\ Kept
  BY TypedInit, KeptInit
<1>2. Typed /\ Hidden /\ Kept /\ [Next]_vars => (Typed /\ Hidden /\ Kept)'
  BY TypedNext, HiddenNext, KeptNext
<1>3. Typed /\ Hidden /\ Kept => NeverLost
  BY DEF Kept, Spared, Holds, NeverLost
<1> QED
  BY <1>1, <1>2, <1>3, PTL DEF Spec

\* Any number of calls do, when none moves on while another stores its answer.
THEOREM LoginNeverLostInTurn == Spec => [](trouble = "none" => NeverLost)
<1>1. Init => Typed /\ Calm
  BY TypedInit, CalmInit
<1>2. Typed /\ Calm /\ [Next]_vars => (Typed /\ Calm)'
  BY TypedNext, CalmNext
<1>3. Typed /\ Calm => (trouble = "none" => NeverLost)
  BY ConnsAssumption DEF Calm, SistersAgree, OneStores, NeverLost
<1> QED
  BY <1>1, <1>2, <1>3, PTL DEF Spec
=============================================================================
