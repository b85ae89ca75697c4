----------------------------- MODULE TradeImport -----------------------------
(***************************************************************************)
(* Imports of trades into the journal of ONE user, and what happens around *)
(* them: the file of the user and the synchronisation of the broker bring  *)
(* the same fills, several times, possibly at once; rows fail, processes   *)
(* die; the user enters, edits and removes trades, and asks for duplicates *)
(* to be removed (TradesService).                                          *)
(*                                                                         *)
(* A fill is what really happened at the broker.  Identical contracts of   *)
(* one order are told apart by nothing: a fill has a number of contracts,  *)
(* each one a trade.  The file dates a fill in local time, the broker in   *)
(* UTC.  Two fills at the same prices, a whole number of half hours apart, *)
(* would be taken for one: there are none here.                            *)
(***************************************************************************)
EXTENDS Integers, Sequences, FiniteSets, Functions

CONSTANTS
    Fills,      \* what happened at the broker
    Contracts,  \* how many identical trades each fill is
    Batches,    \* what an import may bring: sequences of keys of one dating
    Imports,    \* imports that may be in progress at once
    Cleaners,   \* removals of duplicates that may be in progress at once
    Own,        \* trades without fingerprint: entered, or before the migration
    MaxActs     \* bound: acts of the user, and rows that fail, in a behaviour

\* dedupeKey: asset, side, prices and P&L (the fill), and the date.  A trade
\* that the user edits no longer looks like its fill.
Key == [fill : Fills, dated : {"local", "utc", "edited"}]

\* occurrenceHash: the n-th occurrence of a key in its source.  It is the id
\* of an imported trade here: it never changes, and
\* @@unique([userId, importHash]) makes it an identity.
Hash == [key : Key, n : Nat \ {0}]

VARIABLES
    trades,     \* the table: of each id, the key and the older trades of its fill
    batch,      \* what each import brings, <<>> when it is not in progress
    todo,       \* the fingerprints it has still to create
    doomed,     \* the trades each removal of duplicates is about to delete
    short,      \* fills each import may leave incomplete: see Gapped and Disturbed
    removed,    \* fills of which the user has removed a trade
    blurred,    \* fills that may have one too many: edited, or brought twice at once
    acts        \* how many times the user, or a failure, has intervened

vars == <<trades, batch, todo, doomed, short, removed, blurred, acts>>

FillsOf(b) == {b[i].fill : i \in DOMAIN b}
RowsOf(b, k) == Cardinality({i \in DOMAIN b : b[i] = k})
InProgress(p) == batch[p] # <<>>

\* What the user has is finite, and has no fingerprint.
ASSUME OwnAssumption == IsFiniteSet(Own) /\ \A o \in Own : o \notin Hash
ASSUME ContractsAssumption == Contracts \in [Fills -> Nat \ {0}]
\* A source brings the contracts there were, or fewer, in its own dating.
ASSUME BatchesAssumption ==
    \A b \in Batches :
        /\ b \in Seq(Key) /\ b # <<>>
        /\ \E d \in {"local", "utc"} : \A i \in DOMAIN b : b[i].dated = d
        /\ \A i \in DOMAIN b : RowsOf(b, b[i]) <= Contracts[b[i].fill]
ASSUME MaxActsAssumption == MaxActs \in Nat

Ids == DOMAIN trades
IdsAt(k) == {i \in Ids : trades[i].key = k}
IdsOf(f) == {i \in Ids : trades[i].key.fill = f}
TradesAt(k) == Cardinality(IdsAt(k))
Acts == acts < MaxActs /\ acts' = acts + 1

------------------------------------------------------------------------------
(* What an import has to create, given the trades there are.               *)

\* Faulty: the other dating is not recognised; or an equal date is accepted.
OtherDatingNone(pool, k) == {}
OtherDatingAny(pool, k) == {j \in Key : j.fill = k.fill /\ j.dated # "edited" /\ pool[j] > 0}

\* CrossSourcePool: existing trades left that are k in the other dating.
OtherDating(pool, k) ==
    {j \in Key : j.fill = k.fill /\ {j.dated, k.dated} = {"local", "utc"} /\ pool[j] > 0}

\* Faulty: a trade of the pool absorbs as many rows as one likes; or the
\* rows are numbered from zero.
ReadRowKeeps(acc, k) ==
    LET n == acc.rank[k] + 1
    IN  IF OtherDating(acc.pool, k) # {} THEN acc
        ELSE [acc EXCEPT !.rank[k] = n,
                !.hashes = IF n <= TradesAt(k) THEN @
                           ELSE Append(@, [key |-> k, n |-> n])]
ReadRowZero(acc, k) ==
    LET n == acc.rank[k]
    IN  [acc EXCEPT !.rank[k] = n + 1,
            !.hashes = IF n < TradesAt(k) THEN @ ELSE Append(@, [key |-> k, n |-> n])]

\* One row of the batch: taken from the pool, one for one; or a repetition
\* whose rank the table already has (`seen`); or to be created.
ReadRow(acc, k) ==
    LET other == OtherDating(acc.pool, k)
        n == acc.rank[k] + 1
    IN  IF other # {} THEN [acc EXCEPT !.pool[CHOOSE j \in other : TRUE] = @ - 1]
        ELSE [acc EXCEPT !.rank[k] = n,
                !.hashes = IF n <= TradesAt(k) THEN @
                           ELSE Append(@, [key |-> k, n |-> n])]

\* The rows of the batch one by one.  Everything is read first, and decided in
\* memory: only the insertions come later.
Decisions(b) ==
    LET acc[i \in 0 .. Len(b)] ==
            IF i = 0 THEN [pool   |-> [k \in Key |-> TradesAt(k)],
                           rank   |-> [k \in Key |-> 0],
                           hashes |-> <<>>]
            ELSE ReadRow(acc[i - 1], b[i])
    IN  acc

\* The fingerprints to create, in order.
Missing(b) == Decisions(b)[Len(b)].hashes

------------------------------------------------------------------------------
Init ==
    /\ \E order \in UNION {[1..n -> Own] : n \in 0..Cardinality(Own)},
          key \in [Own -> {k \in Key : k.dated # "edited"}] :
        /\ IsInjective(order)
        /\ trades = [o \in {order[i] : i \in DOMAIN order} |->
              [key   |-> key[o],
               older |-> {order[i] : i \in {i \in DOMAIN order :
                    /\ key[order[i]].fill = key[o].fill
                    /\ \E j \in DOMAIN order : i < j /\ order[j] = o}}]]
    /\ batch = [p \in Imports |-> <<>>]
    /\ todo = [p \in Imports |-> <<>>]
    /\ doomed = [d \in Cleaners |-> {}]
    /\ short = [p \in Imports |-> {}]
    /\ removed = {}
    /\ blurred = {}
    /\ acts = 0

------------------------------------------------------------------------------
(* The table.                                                              *)

Insert(id, k) ==
    trades' = [i \in Ids \cup {id} |->
        IF i = id THEN [key |-> k, older |-> IdsOf(k.fill)] ELSE trades[i]]

\* Deletes by id: a removal of duplicates has nothing to delete there later.
Delete(ids) ==
    /\ trades' = [i \in Ids \ ids |-> [trades[i] EXCEPT !.older = @ \ ids]]
    /\ doomed' = [d \in Cleaners |-> doomed[d] \ ids]

\* The trades that went were counted by the imports in progress.
Disturbed(ids) ==
    [p \in Imports |-> IF InProgress(p) THEN short[p] \cup {trades[i].key.fill : i \in ids}
                       ELSE short[p]]

\* Fills that have a fingerprint of a rank above their number of trades, since
\* a trade went or was edited: the next import asks for ranks that are taken.
Gapped == {h.key.fill : h \in {h \in Ids \ Own : h.n > TradesAt(h.key)}}

------------------------------------------------------------------------------
(* Imports.                                                                *)

\* importTrades reads the table.  Nothing keeps the file of the user and the
\* synchronisation apart: what both bring at once may be created twice.
Start(p, b) ==
    /\ ~InProgress(p)
    /\ batch' = [batch EXCEPT ![p] = b]
    /\ todo' = [todo EXCEPT ![p] = Missing(b)]
    /\ short' = [short EXCEPT ![p] = Gapped]
    /\ blurred' = blurred \cup
            UNION {FillsOf(b) \cap FillsOf(batch[q]) :
                   q \in {q \in Imports : InProgress(q) /\ batch[q][1].dated # b[1].dated}}
    /\ UNCHANGED <<trades, doomed, removed, acts>>

\* One row: created, or refused by the unique index because an import in
\* progress, or an edited trade, has the fingerprint already: a duplicate.
Create(p) ==
    /\ todo[p] # <<>>
    /\ LET h == Head(todo[p]) IN IF h \in Ids THEN UNCHANGED trades ELSE Insert(h, h.key)
    /\ todo' = [todo EXCEPT ![p] = Tail(@)]
    /\ UNCHANGED <<batch, doomed, short, removed, blurred, acts>>

\* Any other error of the row: counted, and the next row is tried.
Fails(p) ==
    /\ todo[p] # <<>>
    /\ todo' = [todo EXCEPT ![p] = Tail(@)]
    /\ short' = [short EXCEPT ![p] = @ \cup {Head(todo[p]).key.fill}]
    /\ Acts
    /\ UNCHANGED <<trades, batch, doomed, removed, blurred>>

\* The import is over, or its process dies.
Ends(p) ==
    /\ InProgress(p)
    /\ batch' = [batch EXCEPT ![p] = <<>>]
    /\ todo' = [todo EXCEPT ![p] = <<>>]
    /\ short' = [short EXCEPT ![p] = {}]
    /\ UNCHANGED <<trades, doomed, removed, blurred, acts>>

------------------------------------------------------------------------------
(* The user.                                                               *)

\* create: a trade entered by hand has no fingerprint.  The imports in progress
\* did not count it.
Enter(o, k) ==
    /\ o \in Own \ Ids /\ k.dated # "edited"
    /\ Insert(o, k)
    /\ blurred' = IF \E p \in Imports : InProgress(p) THEN blurred \cup {k.fill} ELSE blurred
    /\ Acts
    /\ UNCHANGED <<batch, todo, doomed, short, removed>>

\* update: the columns change, the fingerprint stays.
Edit(i) ==
    /\ trades' = [trades EXCEPT ![i].key.dated = "edited"]
    /\ blurred' = blurred \cup {trades[i].key.fill}
    /\ Acts
    /\ UNCHANGED <<batch, todo, doomed, short, removed>>

Remove(ids) ==
    /\ Delete(ids)
    /\ short' = Disturbed(ids)
    /\ removed' = removed \cup {trades[i].key.fill : i \in ids}
    /\ Acts
    /\ UNCHANGED <<batch, todo, blurred>>

\* remove.
RemoveOne(i) == Remove({i})

\* removeBrokerImported: everything the broker brought.
RemoveBrokerImported ==
    LET ids == {h \in Ids \ Own : h.key.dated = "utc"}
    IN  ids # {} /\ Remove(ids)

------------------------------------------------------------------------------
(* Removal of duplicates.                                                  *)

\* Faulty: by key, as before fingerprints.
DuplicateIdentityKey(i) == [key |-> trades[i].key, n |-> 1]

\* duplicateIdentity: the fingerprint, else the key.
DuplicateIdentity(i) == IF i \in Own THEN [key |-> trades[i].key, n |-> 1] ELSE i

\* Every trade that has an older one of the same identity.
Extra == {i \in Ids : \E j \in trades[i].older : DuplicateIdentity(j) = DuplicateIdentity(i)}

\* removeDuplicates reads the table, and keeps the oldest of each identity.
FindDuplicates(d) ==
    /\ doomed[d] = {} /\ Extra # {}
    /\ doomed' = [doomed EXCEPT ![d] = Extra]
    /\ UNCHANGED <<trades, batch, todo, short, removed, blurred, acts>>

\* Then deletes the others.
RemoveDuplicates(d) ==
    /\ doomed[d] # {}
    /\ Delete(doomed[d])
    /\ short' = Disturbed(doomed[d])
    /\ UNCHANGED <<batch, todo, removed, blurred, acts>>

------------------------------------------------------------------------------
Next ==
    \/ \E p \in Imports :
        \/ \E b \in Batches : Start(p, b)
        \/ Create(p) \/ Fails(p) \/ Ends(p)
    \/ \E o \in Own, k \in Key : Enter(o, k)
    \/ \E i \in Ids : Edit(i) \/ RemoveOne(i)
    \/ RemoveBrokerImported
    \/ \E d \in Cleaners : FindDuplicates(d) \/ RemoveDuplicates(d)

Spec == Init /\ [][Next]_vars

------------------------------------------------------------------------------
\* Types of the variables; a fingerprint names the fill of its trade, and the
\* trades of a fill are in an order.
TypeOK ==
    /\ Ids \subseteq Hash \cup Own
    /\ trades \in [Ids -> [key : Key, older : SUBSET Ids]]
    /\ \A i \in Ids \ Own : trades[i].key.fill = i.key.fill
    /\ \A i, j \in Ids : i = j \/ trades[i].key.fill # trades[j].key.fill
                         \/ i \in trades[j].older \/ j \in trades[i].older
    /\ batch \in [Imports -> Batches \cup {<<>>}]
    /\ todo \in [Imports -> Seq(Hash)]
    /\ doomed \in [Cleaners -> SUBSET Ids]
    /\ short \in [Imports -> SUBSET Fills]
    /\ removed \in SUBSET Fills /\ blurred \in SUBSET Fills /\ acts \in 0..MaxActs

\* What an import alone creates of a key: what it asks for, less the fingerprints
\* that the unique index refuses because a trade has them.
Created(b, k) == {h \in Range(Missing(b)) : h.key = k} \ Ids

\* An import creates what the table lacks, and never more: whatever was imported
\* before, cut short, removed or edited, for each of its keys the trades that are
\* it in either dating are subtracted one for one (importTrades).  It creates less
\* only where the ranks of the fill have a gap: it then asks for ranks that are
\* taken, although "une répétition absente de la base est, elle, bien créée".
CreatesTheShortfall ==
    \A b \in Batches : \A k \in Range(b) :
        LET have == TradesAt([k EXCEPT !.dated = "local"]) + TradesAt([k EXCEPT !.dated = "utc"])
            want == RowsOf(b, k)
            lacks == IF want > have THEN want - have ELSE 0
        IN  /\ Cardinality(Created(b, k)) <= lacks
            /\ k.fill \notin Gapped => Cardinality(Created(b, k)) = lacks

\* When an import has no row left to create, every contract it brought is in
\* the table, whatever sister rows, the other source and other imports do, and
\* whatever failed before it began (comment of importTrades): unless one of its
\* own rows failed, a trade of the fill was removed meanwhile, or the ranks of
\* the fill had a gap when it began.
NothingLost ==
    \A p \in Imports : todo[p] = <<>> =>
        \A i \in DOMAIN batch[p] :
            batch[p][i].fill \notin short[p] =>
                Cardinality(IdsOf(batch[p][i].fill)) >= RowsOf(batch[p], batch[p][i])

\* No import adds a trade to a fill that has all its contracts, whatever was
\* imported before or is in progress: two imports of one source at once, the
\* file before or after the synchronisation, a retry after a crash.
NothingTwice ==
    [][\A f \in Fills \ blurred' :
        ~((IdsOf(f) \ Own)' \subseteq IdsOf(f)) => Cardinality(IdsOf(f)) < Contracts[f]]_vars

\* Removing duplicates never takes a repetition the import created on purpose,
\* nor the last trade of a fill of which the user removed none.
KeepsOneOfEach ==
    [][\A d \in Cleaners : RemoveDuplicates(d) =>
        /\ \A i \in Ids \ Ids' : i \in Own \/ i.n = 1
        /\ \A f \in Fills \ removed : IdsOf(f) # {} => IdsOf(f)' # {}]_vars

=============================================================================
