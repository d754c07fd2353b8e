--------------------------- MODULE MCScrobbleQueue ---------------------------
(***************************************************************************)
(* ScrobbleQueue on small instances: listens in the order they started and *)
(* accounts, which are interchangeable, as model values.                   *)
(***************************************************************************)
EXTENDS ScrobbleQueue, TLC

CONSTANTS a1, a2

OneListen == {1}
TwoListens == {1, 2}
OneAccount == {a1}
TwoAccounts == {a1, a2}

Symmetry == Permutations(Accounts)
=============================================================================
