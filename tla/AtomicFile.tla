----------------------------- MODULE AtomicFile -----------------------------
(***************************************************************************)
(* What config.Write promises its readers (internal/config/loader.go:      *)
(* 22-25): the file has one writer's value in whole, and passes from one   *)
(* to the next at once; and what a reader takes Load for.  Tear is what it *)
(* does not promise but does, when two writers overlap.                    *)
(***************************************************************************)
CONSTANTS Values, Default, Readers,
  Torn   \* not a value

VARIABLES
  value,  \* the configuration in the file
  got     \* what each reader read last

Init == value = Default /\ got = [r \in Readers |-> Default]

Write(v) == value' = v /\ UNCHANGED got

Tear == value' = Torn /\ UNCHANGED got

Read(r) == got' = [got EXCEPT ![r] = value] /\ UNCHANGED value

Next == (\E v \in Values : Write(v)) \/ Tear \/ (\E r \in Readers : Read(r))

Spec == Init /\ [][Next]_<<value, got>>
=============================================================================
