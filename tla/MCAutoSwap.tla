----------------------------- MODULE MCAutoSwap -----------------------------
(* Model-checking instance of AutoSwap: the core and one other process,    *)
(* whose scans may overlap.  All addresses work at first.  The             *)
(* specification treats addresses alike, so of the initial states that     *)
(* differ by a permutation of them one is enough: the core is on the first *)
(* of them, and the hit-list has the second if it has the third.           *)
EXTENDS AutoSwap

CONSTANTS e1, e2, e3

MCInit ==
  /\ Init
  /\ \A ip \in IPs : status[ip] = "clean"
  /\ endpoint = e1
  /\ e3 \in DOMAIN file => e2 \in DOMAIN file

MCSpec == MCInit /\ [][Next]_vars /\ Fairness
=============================================================================
