----------------------------- MODULE Forwarder ------------------------------
(***************************************************************************)
(* handleConn of one forwarder.Server (internal/forwarder/server.go): the  *)
(* choice of the endpoints a connection tries, the attempts on them, the   *)
(* report that ends them and the relay.  Many handlers run at once; they   *)
(* share the load balancer's counter and the failure accounting.           *)
(*                                                                         *)
(* What a strategy does on the wire is reduced to its verdict and to       *)
(* whether the upstream socket survived; WrongSeq has the rest of it.  The *)
(* main goroutine that receives restart requests is in Recovery.           *)
(***************************************************************************)
EXTENDS Integers, FiniteSets

CONSTANTS
  Conns,     \* the client connections
  Settings,  \* what the Server may have been built with
  Threshold  \* CriticalFailures

\* The strategy's name, the number of endpointsOrDefault(), LoadBalance ("" when
\* unset), FailoverRetries with AutoFailover (or 0), and whether there is a raw
\* injector, which main gives to a Server with a single endpoint only.
Setting ==
  {s \in [method : {"wrong_seq", "fake_sni", "combined", "fragment"},
          endpoints : 1 .. 8,
          loadBalance : {"", "failover", "round_robin", "random"},
          retries : 0 .. 8, raw : BOOLEAN] :
     /\ s.raw => s.endpoints = 1
     /\ s.method = "wrong_seq" => s.raw}

ASSUME ForwarderAssumption ==
  /\ Settings \subseteq Setting
  /\ Threshold \in Nat \ {0}

VARIABLES
  server,       \* what the Server was built with
  pc,           \* where each handler is
  base,         \* pickBaseIndex's result
  attempt,      \* the loop's index
  tried,        \* the endpoints the loop went through
  open,         \* the endpoints to which a connection has a socket open
  registered,   \* whether a port is registered with the injector
  applyFailed,  \* lastStrategyErr # nil
  copying,      \* the relay's directions that still copy
  lbCounter,    \* Server.lbCounter
  streak,       \* Server.failureStreak
  restartSent,  \* Server.restartSent
  reason,       \* the reason given to OnCriticalError last
  unconfirmed   \* how many connections in a row no endpoint confirmed

loopVars   == <<base, attempt, tried>>
sharedVars == <<lbCounter, streak, restartSent, reason>>
vars == <<server, pc, loopVars, open, registered, applyFailed, copying,
          sharedVars, unconfirmed>>

PCs == {"read", "pick", "attempt", "dial", "apply", "dropped",
        "claim", "served", "cleared", "relay", "done"}

NumEndpoints    == server.endpoints
FailoverRetries == server.retries
Endpoints       == 0 .. NumEndpoints - 1

TypeOK ==
  /\ server \in Settings
  /\ pc \in [Conns -> PCs]
  /\ base \in [Conns -> Endpoints]
  /\ attempt \in [Conns -> 0 .. NumEndpoints]
  /\ \A c \in Conns : pc[c] = "attempt" => attempt[c] \in Endpoints
  /\ tried \in [Conns -> SUBSET Endpoints]
  /\ open \in [Conns -> SUBSET Endpoints]
  /\ registered \in [Conns -> BOOLEAN]
  /\ applyFailed \in [Conns -> BOOLEAN]
  /\ copying \in [Conns -> SUBSET {"up", "down"}]
  /\ lbCounter \in Nat
  /\ streak \in Nat
  /\ restartSent \in BOOLEAN
  /\ reason \in {"none", "upstream_unreachable", "all_endpoints_failed_confirmation"}
  /\ unconfirmed \in Nat

Init ==
  /\ server \in Settings
  /\ pc = [c \in Conns |-> "read"]
  /\ base = [c \in Conns |-> 0]
  /\ attempt = [c \in Conns |-> 0]
  /\ tried = [c \in Conns |-> {}]
  /\ open = [c \in Conns |-> {}]
  /\ registered = [c \in Conns |-> FALSE]
  /\ applyFailed = [c \in Conns |-> FALSE]
  /\ copying = [c \in Conns |-> {}]
  /\ lbCounter = 0
  /\ streak = 0
  /\ restartSent = FALSE
  /\ reason = "none"
  /\ unconfirmed = 0

LesserOf(a, b) == IF a <= b THEN a ELSE b

\* With a load balancer every endpoint is tried once, otherwise as many as the
\* failover allows.
TotalAttempts ==
  IF NumEndpoints > 1 /\ server.loadBalance # ""
    THEN NumEndpoints
    ELSE LesserOf(FailoverRetries, NumEndpoints - 1) + 1

Goto(c, from, to) ==
  /\ pc[c] = from
  /\ pc' = [pc EXCEPT ![c] = to]

Selected(c) == (base[c] + attempt[c]) % NumEndpoints

-----------------------------------------------------------------------------
(* Before the loop.                                                        *)

\* The client sends its first bytes, or nothing for 30s.
Read(c) ==
  /\ Goto(c, "read", "pick") \/ Goto(c, "read", "done")
  /\ UNCHANGED <<server, loopVars, open, registered, applyFailed, copying,
                 sharedVars, unconfirmed>>

\* Mutant of Pick: the counter is not advanced.
PickWithoutAdd(c) ==
  /\ Goto(c, "pick", "attempt")
  /\ base' = [base EXCEPT ![c] = lbCounter % NumEndpoints]
  /\ UNCHANGED <<server, attempt, tried, open, registered, applyFailed,
                 copying, sharedVars, unconfirmed>>

\* pickBaseIndex.
Pick(c) ==
  /\ Goto(c, "pick", "attempt")
  /\ LET rotates == NumEndpoints > 1 /\ server.loadBalance = "round_robin"
         draws   == NumEndpoints > 1 /\ server.loadBalance = "random"
     IN /\ lbCounter' = IF rotates THEN lbCounter + 1 ELSE lbCounter
        /\ \E b \in IF rotates THEN {lbCounter % NumEndpoints}
                    ELSE IF draws THEN Endpoints ELSE {0} :
             base' = [base EXCEPT ![c] = b]
  /\ UNCHANGED <<server, attempt, tried, open, registered, applyFailed,
                 copying, streak, restartSent, reason, unconfirmed>>

-----------------------------------------------------------------------------
(* The loop over the endpoints.                                            *)

\* Mutant of Advance: the last endpoint is left out.
AdvanceStopsShort(c, from) ==
  /\ attempt' = [attempt EXCEPT ![c] = @ + 1]
  /\ Goto(c, from, IF attempt[c] + 2 < TotalAttempts THEN "attempt" ELSE "dropped")

\* Go on with the next endpoint, or leave the loop without an upstream.
Advance(c, from) ==
  /\ attempt' = [attempt EXCEPT ![c] = @ + 1]
  /\ Goto(c, from, IF attempt[c] + 1 < TotalAttempts THEN "attempt" ELSE "dropped")

\* Resolve the endpoint and, with an injector, reserve and register a port.
Begin(c) ==
  /\ Goto(c, "attempt", "dial")
  /\ tried' = [tried EXCEPT ![c] = @ \cup {Selected(c)}]
  /\ registered' = [registered EXCEPT ![c] = server.raw]
  /\ UNCHANGED <<server, base, attempt, open, applyFailed, copying,
                 sharedVars, unconfirmed>>

\* The name does not resolve, or no port could be reserved in three tries.
BeginFails(c) ==
  /\ Advance(c, "attempt")
  /\ tried' = [tried EXCEPT ![c] = @ \cup {Selected(c)}]
  /\ UNCHANGED <<server, base, open, registered, applyFailed, copying,
                 sharedVars, unconfirmed>>

Dial(c) ==
  /\ Goto(c, "dial", "apply")
  /\ open' = [open EXCEPT ![c] = @ \cup {Selected(c)}]
  /\ UNCHANGED <<server, loopVars, registered, applyFailed, copying,
                 sharedVars, unconfirmed>>

DialFails(c) ==
  /\ Advance(c, "dial")
  /\ registered' = [registered EXCEPT ![c] = FALSE]
  /\ UNCHANGED <<server, base, tried, open, applyFailed, copying, sharedVars,
                 unconfirmed>>

\* The strategy wrote the first bytes.
ApplyOK(c) ==
  /\ Goto(c, "apply", "served")
  /\ UNCHANGED <<server, loopVars, open, registered, applyFailed, copying,
                 sharedVars, unconfirmed>>

\* Mutant of ApplyFailsOver: the failed upstream stays open.
FailOverKeepsSocket(c) ==
  /\ attempt[c] + 1 < TotalAttempts
  /\ Advance(c, "apply")
  /\ registered' = [registered EXCEPT ![c] = FALSE]
  /\ applyFailed' = [applyFailed EXCEPT ![c] = TRUE]
  /\ UNCHANGED <<server, base, tried, open, copying, sharedVars, unconfirmed>>

\* Apply returned false and there is another endpoint.
ApplyFailsOver(c) ==
  /\ attempt[c] + 1 < TotalAttempts
  /\ Advance(c, "apply")
  /\ registered' = [registered EXCEPT ![c] = FALSE]
  /\ applyFailed' = [applyFailed EXCEPT ![c] = TRUE]
  /\ open' = [open EXCEPT ![c] = {}]
  /\ UNCHANGED <<server, base, tried, copying, sharedVars, unconfirmed>>

\* Apply returned false on the last endpoint: wrong_seq drops the connection,
\* and returns without a report; every other strategy writes the bytes as they
\* are, whether or not that write works.
ApplyFailsLast(c) ==
  /\ attempt[c] + 1 = TotalAttempts
  /\ registered' = [registered EXCEPT ![c] = FALSE]
  /\ applyFailed' = [applyFailed EXCEPT ![c] = TRUE]
  /\ IF server.method = "wrong_seq"
       THEN /\ Goto(c, "apply", "done")
            /\ open' = [open EXCEPT ![c] = {}]
            /\ unconfirmed' = unconfirmed + 1
       ELSE Goto(c, "apply", "served") /\ UNCHANGED <<open, unconfirmed>>
  /\ UNCHANGED <<server, loopVars, copying, sharedVars>>

-----------------------------------------------------------------------------
(* After the loop.                                                         *)

\* reportFailure: failureStreak.Add(1).
Failure(c) ==
  /\ Goto(c, "dropped", IF streak + 1 < Threshold THEN "done" ELSE "claim")
  /\ streak' = streak + 1
  /\ unconfirmed' = IF applyFailed[c] THEN unconfirmed + 1 ELSE unconfirmed
  /\ UNCHANGED <<server, loopVars, open, registered, applyFailed, copying,
                 lbCounter, restartSent, reason>>

\* Mutant of Claim: the latch is waited for.
ClaimWaits(c) ==
  /\ Goto(c, "claim", "done")
  /\ ~restartSent
  /\ restartSent' = TRUE
  /\ UNCHANGED <<server, loopVars, open, registered, applyFailed, copying,
                 lbCounter, streak, reason, unconfirmed>>

\* reportFailure: CompareAndSwap and OnCriticalError.
Claim(c) ==
  /\ Goto(c, "claim", "done")
  /\ restartSent' = TRUE
  /\ reason' = CASE restartSent -> reason
                 [] ~restartSent /\ applyFailed[c] -> "all_endpoints_failed_confirmation"
                 [] OTHER -> "upstream_unreachable"
  /\ UNCHANGED <<server, loopVars, open, registered, applyFailed, copying,
                 lbCounter, streak, unconfirmed>>

\* reportSuccess: two atomic stores.
SuccessReset(c) ==
  /\ Goto(c, "served", "cleared")
  /\ streak' = 0
  /\ unconfirmed' = 0
  /\ UNCHANGED <<server, loopVars, open, registered, applyFailed, copying,
                 lbCounter, restartSent, reason>>

SuccessClear(c) ==
  /\ Goto(c, "cleared", "relay")
  /\ restartSent' = FALSE
  /\ copying' = [copying EXCEPT ![c] = {"up", "down"}]
  /\ UNCHANGED <<server, loopVars, open, registered, applyFailed, lbCounter,
                 streak, reason, unconfirmed>>

\* One direction reads EOF or an error and half-closes the other socket.
CopyEnds(c, direction) ==
  /\ pc[c] = "relay"
  /\ direction \in copying[c]
  /\ copying' = [copying EXCEPT ![c] = @ \ {direction}]
  /\ UNCHANGED <<server, pc, loopVars, open, registered, applyFailed,
                 sharedVars, unconfirmed>>

\* Both directions are done: the deferred functions close and clean up.
Return(c) ==
  /\ Goto(c, "relay", "done")
  /\ copying[c] = {}
  /\ open' = [open EXCEPT ![c] = {}]
  /\ registered' = [registered EXCEPT ![c] = FALSE]
  /\ UNCHANGED <<server, loopVars, applyFailed, copying, sharedVars,
                 unconfirmed>>

-----------------------------------------------------------------------------

Try(c) ==
  \/ Begin(c)
  \/ BeginFails(c)
  \/ Dial(c)
  \/ DialFails(c)
  \/ ApplyOK(c)
  \/ ApplyFailsOver(c)
  \/ ApplyFailsLast(c)

Report(c) == Failure(c) \/ Claim(c) \/ SuccessReset(c) \/ SuccessClear(c)

Handler(c) ==
  \/ Read(c)
  \/ Pick(c)
  \/ Try(c)
  \/ Report(c)
  \/ \E direction \in {"up", "down"} : CopyEnds(c, direction)
  \/ Return(c)

Next == \E c \in Conns : Handler(c)

Spec == Init /\ [][Next]_vars

(***************************************************************************)
(* A handler runs: reads, dials and waits all have timers.  Nothing is     *)
(* assumed of the relay, which lasts as long as its peers talk.            *)
(***************************************************************************)
Fairness == \A c \in Conns : WF_vars(Read(c) \/ Pick(c) \/ Try(c) \/ Report(c))

FairSpec == Spec /\ Fairness

-----------------------------------------------------------------------------
(* Properties.                                                             *)

\* "When load balancing is configured ... attempt each endpoint once before
\* dropping this connection" (server.go:130-133), wherever the balancer began.
DroppedAfterEveryEndpoint ==
  \A c \in Conns :
    pc[c] \in {"dropped", "claim"} /\ server.loadBalance # "" => tried[c] = Endpoints

\* No endpoint is tried twice for one connection.
NoEndpointTwice ==
  \A c \in Conns :
    pc[c] = "attempt" => Selected(c) \notin tried[c]

\* A connection goes through every endpoint at most once, and through all of
\* them before it is dropped, whichever rule caps the attempts (server.go:129-160).
EachEndpointOnce == DroppedAfterEveryEndpoint /\ NoEndpointTwice

\* A connection never has two upstreams, has one whenever it is served, and
\* leaves neither a socket nor a registered port behind, whichever of the many
\* exits its handler takes.
UpstreamReleased ==
  \A c \in Conns :
    /\ Cardinality(open[c]) <= 1
    /\ pc[c] \in {"served", "cleared", "relay"} => open[c] = {Selected(c)}
    /\ pc[c] \in {"attempt", "dropped", "claim", "done"} => open[c] = {} /\ ~registered[c]

\* Round robin spreads concurrent connections evenly: of those that have picked,
\* no endpoint is the first choice of two more than another.
RoundRobinEven ==
  LET picked   == {c \in Conns : pc[c] = "attempt" \/ tried[c] # {}}
      share(e) == Cardinality({c \in picked : base[c] = e})
  IN server.loadBalance = "round_robin" =>
       \A e, f \in Endpoints : share(e) <= share(f) + 1

\* Every connection that sent something is soon relayed or dropped.
Decided == \A c \in Conns : pc[c] = "pick" ~> pc[c] \in {"relay", "done"}

\* "When the current endpoint keeps failing confirmation" the core re-scans and
\* swaps (config.go:22-24): a server that could not confirm Threshold
\* connections in a row has asked for it, or is about to.
ConfirmationFailuresHeard ==
  unconfirmed >= Threshold => restartSent \/ \E c \in Conns : pc[c] = "claim"
=============================================================================
