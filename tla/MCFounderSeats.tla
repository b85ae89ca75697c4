--------------------------- MODULE MCFounderSeats ---------------------------
(* Instances of FounderSeats for TLC: two accounts, the first of which     *)
(* opens two checkouts.                                                    *)
EXTENDS FounderSeats, TLC

CONSTANTS u1, u2, c1, c2, c3, p1, p2

MCCustomerOf == (c1 :> u1) @@ (c2 :> u1) @@ (c3 :> u2)

\* Where every process serves requests and runs jobs, they are interchangeable.
MCSymmetry == Permutations(Procs)
=============================================================================
