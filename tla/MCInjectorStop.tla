--------------------------- MODULE MCInjectorStop ---------------------------
(* Model-checking instance of InjectorStop.                                *)
EXTENDS InjectorStop
=============================================================================
