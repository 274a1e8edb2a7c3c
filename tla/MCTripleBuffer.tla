--------------------------- MODULE MCTripleBuffer ---------------------------
(* Small instances of TripleBuffer for TLC.                                *)
EXTENDS TripleBuffer
=============================================================================
