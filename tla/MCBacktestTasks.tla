-------------------------- MODULE MCBacktestTasks --------------------------
(***************************************************************************)
(* Instances of BacktestTasks for TLC.  The configurations give the        *)
(* constants sets of model values; s1 is in the registry, s2, where there  *)
(* is one, is not.                                                         *)
(***************************************************************************)
EXTENDS BacktestTasks
=============================================================================
