----------------------------- MODULE MCWanWatch -----------------------------
(* Model-checking instance of WanWatch: a mobile device whose address may  *)
(* rotate, and a Wi-Fi device that comes and goes.                         *)
EXTENDS WanWatch, TLC

CONSTANTS rmnet, wlan, a1, a2

MCLeases == rmnet :> {a1, a2} @@ wlan :> {a1}
=============================================================================
