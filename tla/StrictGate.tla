----------------------------- MODULE StrictGate -----------------------------
(***************************************************************************)
(* What the wrong_seq strategy promises for every client connection        *)
(* (internal/bypass/wrong_seq.go:12-13, rawinjector_linux.go:739-747): the *)
(* connection's first payload, the real ClientHello, goes upstream only    *)
(* after a decoy went out and the server answered it; a connection that    *)
(* does not get that far is dropped without sending anything.              *)
(*                                                                         *)
(* Nothing is promised to a connection that is taken for an earlier one of *)
(* its local port before its own decoy goes out.                           *)
(***************************************************************************)
CONSTANT Conns

VARIABLE gate   \* how far each connection has got

States == {"closed", "decoyed", "answered", "open", "dropped", "mistaken"}

TypeOK == gate \in [Conns -> States]

Init == gate = [c \in Conns |-> "closed"]

Pass(c, from, to) ==
  /\ gate[c] = from
  /\ gate' = [gate EXCEPT ![c] = to]

Decoy(c)  == Pass(c, "closed", "decoyed")
Answer(c) == Pass(c, "decoyed", "answered")
Open(c)   == Pass(c, "answered", "open")

Mistake(c) == Pass(c, "closed", "mistaken")

Drop(c) ==
  /\ gate[c] \in {"closed", "decoyed", "answered", "mistaken"}
  /\ gate' = [gate EXCEPT ![c] = "dropped"]

Next == \E c \in Conns : Decoy(c) \/ Answer(c) \/ Open(c) \/ Mistake(c) \/ Drop(c)

Spec == Init /\ [][Next]_gate
=============================================================================
