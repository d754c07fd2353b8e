--------------------------- MODULE MCCronScheduler ---------------------------
(***************************************************************************)
(* CronScheduler over a few minutes: an expression that asks for every     *)
(* other minute and one whose minutes lie further apart than the window.   *)
(***************************************************************************)
EXTENDS CronScheduler

SmallAsks == [e \in Exprs |-> IF e = "often" THEN {s \in Slots : s % 2 = 1} ELSE {0, 2, 6}]
=============================================================================
