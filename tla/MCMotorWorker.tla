--------------------------- MODULE MCMotorWorker ---------------------------
(* MotorWorker for TLC.                                                    *)
EXTENDS MotorWorker, TLC

Symmetry == Permutations(Calls) \cup Permutations(Arms)
=============================================================================
