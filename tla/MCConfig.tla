------------------------------ MODULE MCConfig ------------------------------
(* Model-checking instance of the two modules about config.json: how it is  *)
(* written (ConfigFile: a short configuration and a long one, so that one   *)
(* written over the other leaves a mixture) and what is written into it     *)
(* (EndpointConfig: the configuration the module ships with, one with a     *)
(* disabled endpoint, one with two, and one with listeners).  They share no *)
(* variable; each runs while the other is where it began.                   *)
EXTENDS ConfigFile, EndpointConfig, TLC

CONSTANTS short, long, name, ip1, ip2, sni1, sni2

MCSize == short :> 1 @@ long :> 2

MCResolve == name :> ip1 @@ ip1 :> ip1 @@ ip2 :> ip2

Plain ==
  [ip |-> name, sni |-> sni1, lis |-> <<>>, eps |-> <<>>, method |-> "wrong_seq", probe |-> FALSE,
   sound |-> TRUE]

FirstDisabled ==
  [Plain EXCEPT !.eps = <<[ip |-> ip2, sni |-> sni2, on |-> FALSE],
                          [ip |-> name, sni |-> Blank, on |-> TRUE]>>]

TwoProbed ==
  [Plain EXCEPT !.probe = TRUE,
                !.method = "fragment",
                !.eps = <<[ip |-> name, sni |-> Blank, on |-> TRUE],
                          [ip |-> ip2, sni |-> sni2, on |-> TRUE]>>]

TwoListeners ==
  [Plain EXCEPT !.lis = <<[ip |-> ip2, sni |-> sni2, method |-> "fragment"],
                          [ip |-> Blank, sni |-> Blank, method |-> Blank]>>]

MCOffered == [ip : {ip2}, sni : {sni2}, sound : BOOLEAN]

MCForms ==
  {[ip |-> ip2, sni |-> sni1, sound |-> TRUE], [ip |-> Blank, sni |-> sni1, sound |-> TRUE],
   [ip |-> name, sni |-> Blank, sound |-> TRUE], [ip |-> name, sni |-> sni1, sound |-> FALSE]}

MCInitial == {Plain, FirstDisabled, TwoProbed, TwoListeners}

MCInit == Init /\ EndpointInit

WritingStep  == Next /\ EndpointInit /\ file = Plain /\ UNCHANGED endpointVars
EndpointStep == EndpointNext /\ Init /\ UNCHANGED vars

MCSpec == MCInit /\ [][WritingStep \/ EndpointStep]_<<vars, endpointVars>>
=============================================================================
