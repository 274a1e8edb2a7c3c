--------------------------- MODULE MCInputReader ---------------------------
(* Small instances of InputReader for TLC.                                 *)
EXTENDS InputReader, TLC

Symmetry == Permutations(Device)
=============================================================================
