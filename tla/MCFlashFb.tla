----------------------------- MODULE MCFlashFb -----------------------------
(* FlashFb with the constants given in the configurations.                 *)
EXTENDS FlashFb
=============================================================================
