--------------------------- MODULE MCProvenance ----------------------------
(* An instance of Provenance for TLC.                                     *)
EXTENDS Provenance, TLC

CONSTANTS m1, m2, file1, file2

ModelSymmetry == Permutations(Models) \cup Permutations(LogFiles)
=============================================================================
