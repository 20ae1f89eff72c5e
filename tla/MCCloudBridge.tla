--------------------------- MODULE MCCloudBridge ---------------------------
(* Small instances of CloudBridge for TLC. *)
EXTENDS CloudBridge, TLC

\* Sessions and generations are only compared for equality.
Symmetry == Permutations(Sessions) \cup Permutations(Gens)
=============================================================================
