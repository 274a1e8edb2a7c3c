----------------------------- MODULE MCDrmMode -----------------------------
(* A small instance of DrmMode for TLC.                                    *)
EXTENDS DrmMode
=============================================================================
