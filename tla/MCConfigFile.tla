---------------------------- MODULE MCConfigFile ----------------------------
(* Model-checking instance of ConfigFile: a short configuration and a long  *)
(* one, so that one written over the other leaves a mixture.                *)
EXTENDS ConfigFile, TLC

CONSTANTS short, long

MCSize == short :> 1 @@ long :> 2
=============================================================================
