--------------------------- MODULE MCFlashBuffer ---------------------------
(* FlashBuffer with the constants given in the configurations.             *)
EXTENDS FlashBuffer
=============================================================================
