------------------------------ MODULE MCTrials ------------------------------
(***************************************************************************)
(* Instances of Trials for TLC.  The configurations give the constants     *)
(* sets of model values and small numbers.                                 *)
(***************************************************************************)
EXTENDS Trials, TLC

\* Nothing tells the threads apart, nor the visitors, nor the addresses.
Symmetry == Permutations(Threads) \cup Permutations(Visitors) \cup Permutations(Addresses)
=============================================================================
