---------------------------- MODULE MCTradeImport ----------------------------
(* Instances of TradeImport for TLC.                                       *)
EXTENDS TradeImport, TLC

CONSTANTS b, p1, p2, o1, o2

\* Keys, fingerprints and the pool are by fill: one is enough, of two trades.
MCContracts == (b :> 2)

Rows(d, fills) == [i \in DOMAIN fills |-> [fill |-> fills[i], dated |-> d]]

\* The file; the synchronisation, between the two closings and after both.
MCBatches == {Rows("local", <<b, b>>), Rows("utc", <<b>>), Rows("utc", <<b, b>>)}

\* Two imports, or two trades without fingerprint, differ by nothing else.
Symmetry == Permutations(Imports) \cup Permutations(Own)
=============================================================================
