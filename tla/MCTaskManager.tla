--------------------------- MODULE MCTaskManager ---------------------------
(***************************************************************************)
(* TaskManager on small instances: model values for the futures and the    *)
(* callers, which are interchangeable.                                     *)
(***************************************************************************)
EXTENDS TaskManager, TLC

CONSTANTS p1, p2, c1, c2

TwoPumps == {p1, p2}
OneClient == {c1}
TwoClients == {c1, c2}

Symmetry == Permutations(Pumps) \cup Permutations(Clients)
=============================================================================
