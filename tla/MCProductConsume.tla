-------------------------- MODULE MCProductConsume --------------------------
(* Small instances of ProductConsume for TLC.                              *)
EXTENDS ProductConsume
=============================================================================
