----------------------------- MODULE MCMBuffer -----------------------------
(* A small instance of MBuffer for TLC.                                    *)
EXTENDS MBuffer
=============================================================================
