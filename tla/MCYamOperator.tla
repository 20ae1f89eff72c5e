--------------------------- MODULE MCYamOperator ---------------------------
(* Constants of the runs of YamOperator: panel requests are interchangeable,  *)
(* and so are runs.                                                           *)
EXTENDS YamOperator, TLC

Symmetry == Permutations(Panel) \cup Permutations(Watchdogs)
=============================================================================
