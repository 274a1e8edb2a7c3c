------------------------------- MODULE MCDemo -------------------------------
(* Demo with small words, positions and colours.                           *)
EXTENDS Demo

CONSTANT REL_X

MCMovement == {-4, -1, 2}
=============================================================================
