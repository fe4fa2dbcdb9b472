------------------------------- MODULE MCExec -------------------------------
(* Instantiates Exec for TLC: two prices, orders of one and two lots. *)
EXTENDS Exec, TLC

CONSTANTS t1, t2

MCTraders == {t1, t2}
MCTicks == {1, 2}
MCLots == {1, 2}
MCMinLots == {1, 2}

\* Traders are compared only for equality, so they are interchangeable.
Symmetry == Permutations(MCTraders)
=============================================================================
