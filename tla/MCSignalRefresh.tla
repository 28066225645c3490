-------------------------- MODULE MCSignalRefresh --------------------------
(***************************************************************************)
(* Instances of SignalRefresh for TLC.  The configurations give the        *)
(* constants sets of model values.                                         *)
(***************************************************************************)
EXTENDS SignalRefresh, TLC

\* Nothing tells the processes apart, nor the pairs.
Symmetry == Permutations(Workers) \cup Permutations(Pairs)
=============================================================================
