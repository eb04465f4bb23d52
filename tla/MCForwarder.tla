---------------------------- MODULE MCForwarder -----------------------------
(* Model-checking instance of FirstWrite, and of the Forwarder in it: a     *)
(* server for each way to choose among the endpoints, the one wrong_seq     *)
(* needs, and for each way to write, reads that end before, at and after    *)
(* the end of the hello.                                                    *)
EXTENDS FirstWrite

Balanced ==
  [method |-> "fragment", endpoints |-> 3, loadBalance |-> "round_robin",
   retries |-> 4, raw |-> FALSE]

Random == [Balanced EXCEPT !.method = "combined", !.loadBalance = "random", !.retries = 0]

Failover == [Balanced EXCEPT !.endpoints = 2, !.loadBalance = "", !.retries = 1]

Single == [Balanced EXCEPT !.endpoints = 1]

WrongSeq ==
  [method |-> "wrong_seq", endpoints |-> 1, loadBalance |-> "failover",
   retries |-> 2, raw |-> TRUE]

\* A hello of one record, one followed by early data, and bytes that are not TLS.
Record == <<Header(4), Data(1), Data(2), Data(3), Data(4)>>
Early  == <<Header(3), Data(1), Data(2), Data(3), Header(1), Data(4)>>
Plain  == <<Data(1), Data(2), Data(3)>>

Case(setting, slicing, fake, stream, n) ==
  [server |-> setting, technique |-> [slicing |-> slicing, fake |-> fake],
   hello |-> stream, got |-> n]

MCCases ==
  {Case(Balanced, "half", FALSE, Record, 4),
   Case(Random, "none", TRUE, Record, 5),
   Case([Failover EXCEPT !.method = "fake_sni"], "none", TRUE, Record, 5),
   Case([Failover EXCEPT !.method = "fake_sni"], "sni_split", FALSE, Record, 5),
   Case([WrongSeq EXCEPT !.method = "combined"], "multi", FALSE, Record, 5),
   Case([WrongSeq EXCEPT !.method = "fake_sni"], "none", FALSE, Early, 6),
   Case(WrongSeq, "none", FALSE, Record, 3)}
  \cup {Case(Single, "tls_record_frag", FALSE, stream, n) :
          stream \in {Record, Early}, n \in 1 .. 5}
  \cup {Case(Single, slicing, FALSE, Plain, 2) : slicing \in Slicings}
  \cup {Case(Single, "multi", FALSE, Early, n) : n \in {5, 6}}

MCUnheardCases == {Case(WrongSeq, "none", FALSE, Record, 5)}

MCSettings == {case.server : case \in MCCases}
=============================================================================
