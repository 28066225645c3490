----------------------------- MODULE MCAlgorithms -----------------------------
(***************************************************************************)
(* Instances of StrategySignals and Figures for TLC.  The two share no     *)
(* variable: instead of every combination of their states, one of them,    *)
(* chosen at the start, moves.                                             *)
(***************************************************************************)
EXTENDS StrategySignals, Figures

VARIABLE focus

AlgorithmsInit ==
    /\ SignalsInit /\ FiguresInit
    /\ \/ focus = "signals" /\ ~live
       \/ focus = "figures" /\ ~flat

AlgorithmsNext ==
    /\ \/ focus = "signals" /\ SignalsNext /\ UNCHANGED figuresVars
       \/ focus = "figures" /\ FiguresNext /\ UNCHANGED signalsVars
    /\ UNCHANGED focus

AlgorithmsSpec ==
    AlgorithmsInit /\ [][AlgorithmsNext]_<<focus, signalsVars, figuresVars>>

(* Types of both modules: histories and columns stay within their bounds.  *)
AlgorithmsTypeOK == SignalsTypeOK /\ FiguresTypeOK
=============================================================================
