--------------------------- MODULE MCMBufferOrder ---------------------------
(* A small instance of MBufferOrder for TLC.                               *)
EXTENDS MBufferOrder
=============================================================================
