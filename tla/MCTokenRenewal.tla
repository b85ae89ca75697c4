--------------------------- MODULE MCTokenRenewal ---------------------------
(* Instances of TokenRenewal for TLC.                                      *)
EXTENDS TokenRenewal, TLC

CONSTANTS c1, c2, p1, p2, t1, t2, t3, t4

\* Tokens are only compared, connections and calls are alike.
Symmetry == Permutations(Tokens) \cup Permutations(Conns) \cup Permutations(Calls)
=============================================================================
