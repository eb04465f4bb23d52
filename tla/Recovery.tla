------------------------------ MODULE Recovery ------------------------------
(***************************************************************************)
(* The self-healing loop of the core process (cmd/snispf/main.go) with the *)
(* failure accounting of forwarder.Server (internal/forwarder/server.go).  *)
(*                                                                         *)
(* A build of the runtimes is a generation g: one Server and one raw       *)
(* injector per listener.  Each listener's accept loop dispatches a new    *)
(* connection to the Server its atomic pointer holds.  A Server counts     *)
(* consecutive failures; past a threshold it latches restartSent and asks  *)
(* the main goroutine, over a one-slot channel with a non-blocking send,   *)
(* to rebuild.  The main goroutine builds the next generation, stores it   *)
(* behind every pointer, and only then stops the old injectors.            *)
(*                                                                         *)
(* Which endpoint a build dials (auto-swap) and how long a backoff lasts   *)
(* are data this module does not tell apart.                               *)
(***************************************************************************)
EXTENDS Integers, Sequences

CONSTANTS
  NumListeners,      \* len(lives): the listeners bound for the core's life
  Conns,             \* the client connections that may arrive
  Threshold,         \* Server.CriticalFailures
  MaxGen,            \* bound: the last generation that may be built
  MaxWan,            \* bound: WAN changes the watcher reports
  MaxBuildFailures   \* bound: builds that fail

ASSUME RecoveryAssumption ==
  /\ NumListeners \in Nat \ {0}
  /\ Threshold \in Nat \ {0}
  /\ MaxGen \in Nat
  /\ MaxWan \in Nat
  /\ MaxBuildFailures \in Nat

Listeners == 1 .. NumListeners
Gens      == 0 .. MaxGen
Servers   == Gens \X Listeners

Reasons == {"wan_changed", "critical"}

VARIABLES
  pc,           \* where the main goroutine is
  chan,         \* restartReqCh, capacity 1
  runtimes,     \* the generation main holds as current
  fresh,        \* the last generation whose build began
  next,         \* main's index in the loop over the listeners
  live,         \* lives[l].srv: the generation listener l dispatches to
  running,      \* the injectors whose sockets and goroutines are up
  streak,       \* Server.failureStreak
  restartSent,  \* Server.restartSent
  cpc,          \* where each connection's handler is
  server,       \* the Server a connection was dispatched to
  wanChanges,   \* counts against MaxWan
  buildFailures, \* counts against MaxBuildFailures
  abandoned     \* history: the servers whose injectors a failed build left up

mainVars   == <<pc, runtimes, fresh, next, live, running>>
serverVars == <<streak, restartSent>>
connVars   == <<cpc, server>>
auxVars    == <<wanChanges, buildFailures, abandoned>>
vars       == <<mainVars, chan, serverVars, connVars, auxVars>>

MainPCs == {"select", "backoff", "build", "retry", "swap", "stop", "done"}
ConnPCs == {"new", "handling", "clearing", "claiming", "requesting", "done"}

TypeOK ==
  /\ pc \in MainPCs
  /\ chan \in {<<>>} \cup {<<r>> : r \in Reasons}
  /\ runtimes \in Gens
  /\ fresh \in Gens
  /\ next \in Listeners
  /\ live \in [Listeners -> Gens]
  /\ running \in SUBSET Servers
  /\ streak \in [Servers -> Nat]
  /\ restartSent \in [Servers -> BOOLEAN]
  /\ cpc \in [Conns -> ConnPCs]
  /\ server \in [Conns -> Servers]
  /\ wanChanges \in 0 .. MaxWan
  /\ buildFailures \in 0 .. MaxBuildFailures
  /\ abandoned \in SUBSET Servers

Init ==
  /\ pc = "select"
  /\ chan = <<>>
  /\ runtimes = 0
  /\ fresh = 0
  /\ next = 1
  /\ live = [l \in Listeners |-> 0]
  /\ running = {0} \X Listeners
  /\ streak = [s \in Servers |-> 0]
  /\ restartSent = [s \in Servers |-> FALSE]
  /\ cpc = [c \in Conns |-> "new"]
  /\ server = [c \in Conns |-> <<0, 1>>]
  /\ wanChanges = 0
  /\ buildFailures = 0
  /\ abandoned = {}

-----------------------------------------------------------------------------
(* The connections' handlers.                                              *)

Goto(c, from, to) ==
  /\ cpc[c] = from
  /\ cpc' = [cpc EXCEPT ![c] = to]

\* onCriticalRestart: a send that is dropped when the slot is taken.
Ask(reason) == chan' = IF chan = <<>> THEN <<reason>> ELSE chan

\* The accept loop: AcceptTCP, srv.Load, go srv.Handle.
Accept(c, l) ==
  /\ pc # "done"
  /\ Goto(c, "new", "handling")
  /\ server' = [server EXCEPT ![c] = <<live[l], l>>]
  /\ UNCHANGED <<mainVars, chan, serverVars, auxVars>>

\* handleConn returns without a report: the client sent nothing, or the last
\* endpoint's wrong_seq confirmation failed.
Drop(c) ==
  /\ pc # "done"
  /\ Goto(c, "handling", "done")
  /\ UNCHANGED <<mainVars, chan, serverVars, server, auxVars>>

\* reportSuccess is two atomic stores: first the streak ...
SuccessReset(c) ==
  /\ pc # "done"
  /\ Goto(c, "handling", "clearing")
  /\ streak' = [streak EXCEPT ![server[c]] = 0]
  /\ UNCHANGED <<mainVars, chan, restartSent, server, auxVars>>

\* ... then the latch.
SuccessClear(c) ==
  /\ pc # "done"
  /\ Goto(c, "clearing", "done")
  /\ restartSent' = [restartSent EXCEPT ![server[c]] = FALSE]
  /\ UNCHANGED <<mainVars, chan, streak, server, auxVars>>

\* Mutant of Failure: only a streak beyond the threshold is critical.
FailureOffByOne(c) ==
  /\ pc # "done"
  /\ Goto(c, "handling",
          IF streak[server[c]] + 1 <= Threshold THEN "done" ELSE "claiming")
  /\ streak' = [streak EXCEPT ![server[c]] = @ + 1]
  /\ UNCHANGED <<mainVars, chan, restartSent, server, auxVars>>

\* reportFailure: failureStreak.Add(1), and on to the latch at the threshold.
Failure(c) ==
  /\ pc # "done"
  /\ Goto(c, "handling",
          IF streak[server[c]] + 1 < Threshold THEN "done" ELSE "claiming")
  /\ streak' = [streak EXCEPT ![server[c]] = @ + 1]
  /\ UNCHANGED <<mainVars, chan, restartSent, server, auxVars>>

\* reportFailure: restartSent.CompareAndSwap(false, true).
Claim(c) ==
  /\ pc # "done"
  /\ Goto(c, "claiming", IF restartSent[server[c]] THEN "done" ELSE "requesting")
  /\ restartSent' = [restartSent EXCEPT ![server[c]] = TRUE]
  /\ UNCHANGED <<mainVars, chan, streak, server, auxVars>>

\* reportFailure: OnCriticalError(reason).
Request(c) ==
  /\ pc # "done"
  /\ Goto(c, "requesting", "done")
  /\ Ask("critical")
  /\ UNCHANGED <<mainVars, serverVars, server, auxVars>>

\* watchWAN saw a new interface or address for two ticks.
WanChanged ==
  /\ pc # "done"
  /\ wanChanges < MaxWan
  /\ wanChanges' = wanChanges + 1
  /\ Ask("wan_changed")
  /\ UNCHANGED <<mainVars, serverVars, connVars, buildFailures, abandoned>>

-----------------------------------------------------------------------------
(* The main goroutine.                                                     *)

\* One pass of a loop over the listeners: to the next one, or, after the
\* last, to the location that follows the loop.
Loop(here, after) ==
  /\ pc = here
  /\ IF next = NumListeners
       THEN next' = 1 /\ pc' = after
       ELSE next' = next + 1 /\ UNCHANGED pc

\* Take a request; only a reason other than a WAN change may have to back off.
Receive ==
  /\ pc = "select"
  /\ chan # <<>>
  /\ fresh < MaxGen
  /\ chan' = <<>>
  /\ fresh' = fresh + 1
  /\ pc' \in {"build"} \cup (IF Head(chan) = "wan_changed" THEN {} ELSE {"backoff"})
  /\ UNCHANGED <<runtimes, next, live, running, serverVars, connVars, auxVars>>

\* Mutant of Elapse: the wait is started anew whenever it is interrupted.
ElapseAfterFailure ==
  /\ pc = "retry"
  /\ pc' = "build"
  /\ UNCHANGED <<runtimes, fresh, next, live, running,
                 chan, serverVars, connVars, auxVars>>

\* time.After(backoff) or, after a failed build, time.After(5s).
Elapse ==
  /\ pc \in {"backoff", "retry"}
  /\ pc' = "build"
  /\ UNCHANGED <<runtimes, fresh, next, live, running,
                 chan, serverVars, connVars, auxVars>>

\* buildSingleRuntime for one listener: a new Server, its injector started.
BuildRuntime ==
  /\ Loop("build", "swap")
  /\ running' = running \cup {<<fresh, next>>}
  /\ UNCHANGED <<runtimes, fresh, live, chan, serverVars, connVars, auxVars>>

\* buildServerRuntimes returns the error: the runtimes it already built are
\* forgotten, their injectors still running.
BuildFails ==
  /\ pc = "build"
  /\ fresh < MaxGen
  /\ buildFailures < MaxBuildFailures
  /\ buildFailures' = buildFailures + 1
  /\ abandoned' = abandoned \cup ({fresh} \X (1 .. next - 1))
  /\ fresh' = fresh + 1
  /\ next' = 1
  /\ pc' = "retry"
  /\ UNCHANGED <<runtimes, live, running, chan, serverVars, connVars, wanChanges>>

\* Mutant of Swap: the loop ends one listener early.
SwapAllButLast ==
  /\ Loop("swap", "stop")
  /\ live' = IF next < NumListeners THEN [live EXCEPT ![next] = fresh] ELSE live
  /\ UNCHANGED <<runtimes, fresh, running, chan, serverVars, connVars, auxVars>>

\* lives[i].srv.Store(newRuntimes[i].server), one listener at a time.
Swap ==
  /\ Loop("swap", "stop")
  /\ live' = [live EXCEPT ![next] = fresh]
  /\ UNCHANGED <<runtimes, fresh, running, chan, serverVars, connVars, auxVars>>

\* Mutant of StopOld: requests that came during the rebuild are drained.
StopOldDrains ==
  /\ Loop("stop", "select")
  /\ running' = running \ {<<runtimes, next>>}
  /\ runtimes' = IF next = NumListeners THEN fresh ELSE runtimes
  /\ chan' = <<>>
  /\ UNCHANGED <<fresh, live, serverVars, connVars, auxVars>>

\* Mutant of StopOld: the old injectors are left running.
StopOldForgets ==
  /\ Loop("stop", "select")
  /\ runtimes' = IF next = NumListeners THEN fresh ELSE runtimes
  /\ UNCHANGED <<fresh, live, running, chan, serverVars, connVars, auxVars>>

\* stopInjectors(old), one injector at a time, then runtimes = newRuntimes.
StopOld ==
  /\ Loop("stop", "select")
  /\ running' = running \ {<<runtimes, next>>}
  /\ runtimes' = IF next = NumListeners THEN fresh ELSE runtimes
  /\ UNCHANGED <<fresh, live, chan, serverVars, connVars, auxVars>>

\* rootCtx is done: the current injectors are stopped and the process ends.
Shutdown ==
  /\ pc \in {"select", "backoff", "retry"}
  /\ pc' = "done"
  /\ running' = running \ ({runtimes} \X Listeners)
  /\ UNCHANGED <<runtimes, fresh, next, live, chan, serverVars, connVars, auxVars>>

-----------------------------------------------------------------------------

Report(c) == SuccessClear(c) \/ Claim(c) \/ Request(c)

Handler(c) ==
  \/ \E l \in Listeners : Accept(c, l)
  \/ Drop(c)
  \/ SuccessReset(c)
  \/ Failure(c)
  \/ Report(c)

Progress == Receive \/ Elapse \/ BuildRuntime \/ Swap \/ StopOld

Next ==
  \/ \E c \in Conns : Handler(c)
  \/ WanChanged
  \/ Progress
  \/ BuildFails
  \/ Shutdown

Spec == Init /\ [][Next]_vars

(***************************************************************************)
(* The Go scheduler runs every goroutine that can run, and timers fire:    *)
(* main keeps going and a handler that began a report finishes it.  That   *)
(* a build fails only finitely often is the bound MaxBuildFailures.        *)
(***************************************************************************)
Fairness ==
  /\ WF_vars(Progress)
  /\ \A c \in Conns : WF_vars(Report(c))

FairSpec == Spec /\ Fairness

-----------------------------------------------------------------------------
(* Properties.                                                             *)

\* Main took a request and has not yet replaced the server of listener l.
Rebuilding(l) ==
  \/ pc \in {"backoff", "build", "retry", "done"}
  \/ pc = "swap" /\ next <= l

\* A rebuild that replaces the current server of l is under way or will be:
\* a request waits in the channel, main is at work, or a handler of that very
\* server is about to send.
Pending(l) ==
  \/ chan # <<>>
  \/ Rebuilding(l)
  \/ \E c \in Conns : cpc[c] = "requesting" /\ server[c] = <<live[l], l>>

\* The latch never silences a server: while the current server of a listener
\* has restartSent set, so that CompareAndSwap turns its later failures away
\* (server.go:362), a rebuild that replaces it is pending, even though main.go
\* drops requests when the channel is full and successes clear the latch.
LatchImpliesPending ==
  \A l \in Listeners : restartSent[<<live[l], l>>] => Pending(l)

\* A critical streak is never lost: once the current server of a listener has
\* failed Threshold times in a row (server.go:355-358), a rebuild is pending or
\* a handler of it is about to claim the latch.
CriticalStreakHeard ==
  \A l \in Listeners :
    streak[<<live[l], l>>] >= Threshold =>
      \/ Pending(l)
      \/ \E c \in Conns : cpc[c] = "claiming" /\ server[c] = <<live[l], l>>

\* "Swap ... BEFORE stopping the old injectors, so new connections never hit a
\* stopped injector" (main.go:427-428): whatever a listener dispatches to has
\* its injector running, until the process ends.
DispatchesToRunning ==
  pc # "done" => \A l \in Listeners : <<live[l], l>> \in running

\* No injector outlives its runtime: a running one belongs to the current build,
\* until the process ends, or to the one in progress.  The only others are those
\* of the very builds that failed, of the listeners before the one that failed
\* there: buildServerRuntimes forgets them (main.go:664-667), and that leak is all.
NoOrphanInjector ==
  \A s \in running :
    \/ s[1] = runtimes /\ pc # "done"
    \/ s[1] = fresh /\ pc \in {"build", "swap", "stop"}
    \/ s \in abandoned

\* Self-healing: a server that reached the critical streak is replaced, or the
\* process ends (main.go:360-438 under FairSpec).
CriticalServerReplaced ==
  \A l \in Listeners, g \in Gens :
    (live[l] = g /\ streak[<<g, l>>] >= Threshold) ~> (live[l] # g \/ pc = "done")
=============================================================================
