---------------------------- MODULE MCDecoyPool ----------------------------
(* Model-checking instance of DecoyPool.                                   *)
EXTENDS DecoyPool

CONSTANTS d1, d2

MCNames == <<d1, d2>>
=============================================================================
