----------------------------- MODULE MCRecovery -----------------------------
(* Model-checking instance of Recovery; the constants are in the .cfg.     *)
EXTENDS Recovery
=============================================================================
