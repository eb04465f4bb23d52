----------------------------- MODULE MCWrongSeq -----------------------------
(* Model-checking instance of WrongSeq; the constants are in the .cfg.     *)
EXTENDS WrongSeq
=============================================================================
