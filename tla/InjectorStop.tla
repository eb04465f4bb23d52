---------------------------- MODULE InjectorStop ----------------------------
(***************************************************************************)
(* The raw injector's sockets and goroutines over their life, from Start   *)
(* to Stop (internal/rawinjector/rawinjector_linux.go, and over WinDivert  *)
(* handles rawinjector_windows.go), as the main goroutine's rebuilds use   *)
(* them (cmd/snispf/main.go).                                              *)
(*                                                                         *)
(* Stop closes the sockets and waits for the sniffer and a loop with a     *)
(* ticker.  The sniffer and an injection load a descriptor's number and    *)
(* use it in a second step; the kernel gives a closed number to the next   *)
(* socket, often a proxied connection's.  On Linux a receive that has      *)
(* begun keeps its socket and closing the number does not wake it; WinDivert *)
(* ends the receives of a handle that is closed.                           *)
(***************************************************************************)
EXTENDS Naturals, FiniteSets

CONSTANTS
  Platforms, \* those of "linux" and "windows" the program is built for
  MaxGen,    \* bound: the last generation of injectors
  NumFDs,    \* bound: the descriptor numbers
  MaxDeaths  \* bound: capture devices that go away

ASSUME StopAssumption ==
  /\ Platforms \subseteq {"linux", "windows"}
  /\ MaxGen \in Nat
  /\ NumFDs \in Nat \ {0, 1}
  /\ MaxDeaths \in Nat

Gens    == 0 .. MaxGen
FDs     == 1 .. NumFDs
NoFD    == 0
Sockets == Gens \X {"capture", "send"}

VARIABLES
  platform,
  pc,       \* main: in its select, or in a rebuild's Start or Stop
  cur,      \* the generation that main holds as current
  request,  \* a request waits in restartReqCh
  table,    \* the kernel: what each descriptor number stands for
  running,  \* injector.running
  fd,       \* injector.fd, winInjector.sniffHandle
  sendFd,   \* injector.sendFd, winInjector.sendHandle
  sniff,    \* sniffLoop: where it is and the number or the socket it has
  ticker,   \* whether statsLoop, or localIPRefreshLoop, still runs
  inject,   \* an injecting goroutine: where it is and the number it has
  dead      \* the generations whose capture device is gone

mainVars == <<pc, cur, request>>
sockVars == <<table, running, fd, sendFd>>
vars == <<platform, mainVars, sockVars, sniff, ticker, inject, dead>>

NoSocket == <<0, "none">>

Sniffer == [pc : {"off", "loop", "load", "recv", "blocked", "done"},
            fd : FDs \cup {NoFD}, socket : Sockets \cup {NoSocket}]

TypeOK ==
  /\ platform \in Platforms
  /\ pc \in {"select", "build", "opened", "stop", "closing", "wait"}
  /\ cur \in Gens
  /\ request \in BOOLEAN
  /\ table \in [FDs -> Sockets \cup {<<0, "free">>, <<0, "conn">>}]
  /\ running \in [Gens -> BOOLEAN]
  /\ fd \in [Gens -> FDs \cup {NoFD}]
  /\ sendFd \in [Gens -> FDs \cup {NoFD}]
  /\ sniff \in [Gens -> Sniffer]
  /\ \A g \in Gens : sniff[g].pc = "recv" => sniff[g].fd \in FDs
  /\ ticker \in [Gens -> BOOLEAN]
  /\ inject \in [Gens -> [pc : {"none", "load", "send", "done"}, fd : FDs \cup {NoFD}]]
  /\ dead \subseteq Gens

Free == <<0, "free">>
Conn == <<0, "conn">>

FreeFDs == {n \in FDs : table[n] = Free}

\* The numbers the kernel may hand out: on Linux the lowest free one.
Handed ==
  IF platform = "linux" THEN {n \in FreeFDs : \A m \in FreeFDs : n <= m} ELSE FreeFDs

\* The core comes up with the first generation started.
Init ==
  /\ platform \in Platforms
  /\ pc = "select"
  /\ cur = 0
  /\ request = FALSE
  /\ table = [n \in FDs |-> IF n = 1 THEN <<0, "capture">>
                            ELSE IF n = 2 THEN <<0, "send">> ELSE Free]
  /\ running = [g \in Gens |-> g = 0]
  /\ fd = [g \in Gens |-> IF g = 0 THEN 1 ELSE NoFD]
  /\ sendFd = [g \in Gens |-> IF g = 0 THEN 2 ELSE NoFD]
  /\ sniff = [g \in Gens |-> [pc |-> IF g = 0 THEN "loop" ELSE "off",
                              fd |-> NoFD, socket |-> NoSocket]]
  /\ ticker = [g \in Gens |-> g = 0]
  /\ inject = [g \in Gens |-> [pc |-> "none", fd |-> NoFD]]
  /\ dead = {}

-----------------------------------------------------------------------------
(* The main goroutine.                                                     *)

\* onCriticalRestart, by the WAN watcher or a failing server.
Request ==
  /\ ~request
  /\ request' = TRUE
  /\ UNCHANGED <<pc, cur, sockVars, sniff, ticker, inject, dead>>

Receive ==
  /\ pc = "select"
  /\ request
  /\ cur < MaxGen
  /\ pc' = "build"
  /\ request' = FALSE
  /\ UNCHANGED <<cur, sockVars, sniff, ticker, inject, dead>>

\* Start of the next generation: the capture socket ...
OpenCapture ==
  /\ pc = "build"
  /\ pc' = "opened"
  /\ \E n \in Handed : table' = [table EXCEPT ![n] = <<cur + 1, "capture">>]
  /\ UNCHANGED <<cur, request, running, fd, sendFd, sniff, ticker, inject, dead>>

Opened == CHOOSE n \in FDs : table[n] = <<cur + 1, "capture">>

\* Mutant of StartFails: the capture socket is not closed.
StartFailsLeaks ==
  /\ pc = "opened"
  /\ pc' = "build"
  /\ UNCHANGED <<cur, request, sockVars, sniff, ticker, inject, dead>>

\* ... which Start closes again when it cannot be bound, or, on Windows, when the
\* handle for sending cannot be opened; main tries again in 5s.
StartFails ==
  /\ pc = "opened"
  /\ pc' = "build"
  /\ table' = [table EXCEPT ![Opened] = Free]
  /\ UNCHANGED <<cur, request, running, fd, sendFd, sniff, ticker, inject, dead>>

\* Start stores both numbers and starts both goroutines; the servers are swapped.
Started ==
  /\ pc = "opened"
  /\ pc' = "stop"
  /\ fd' = [fd EXCEPT ![cur + 1] = Opened]
  /\ running' = [running EXCEPT ![cur + 1] = TRUE]
  /\ sniff' = [sniff EXCEPT ![cur + 1].pc = "loop"]
  /\ ticker' = [ticker EXCEPT ![cur + 1] = TRUE]
  /\ UNCHANGED <<cur, request, inject, dead>>

\* On Linux the raw socket for sending may be refused, and the injector does
\* without it.
StartWithoutSend ==
  /\ platform = "linux"
  /\ Started
  /\ UNCHANGED <<table, sendFd>>

Start ==
  /\ Started
  /\ \E n \in Handed :
       /\ table' = [table EXCEPT ![n] = <<cur + 1, "send">>]
       /\ sendFd' = [sendFd EXCEPT ![cur + 1] = n]

\* Mutant of CloseCapture: running stays set.
CloseCaptureRunning ==
  /\ pc = "stop"
  /\ pc' = "closing"
  /\ table' = [table EXCEPT ![fd[cur]] = Free]
  /\ fd' = [fd EXCEPT ![cur] = NoFD]
  /\ UNCHANGED <<cur, request, running, sendFd, ticker, inject, dead>>

\* Stop: running.Swap(false), fd.Swap(-1), close.
CloseCapture ==
  /\ pc = "stop"
  /\ pc' = "closing"
  /\ running' = [running EXCEPT ![cur] = FALSE]
  /\ table' = [table EXCEPT ![fd[cur]] = Free]
  /\ fd' = [fd EXCEPT ![cur] = NoFD]
  /\ UNCHANGED <<cur, request, sendFd, ticker, inject, dead>>

\* The sniffers, those that wait on g's capture socket with an error.
Woken(g) ==
  [h \in Gens |-> IF sniff[h].pc = "blocked" /\ sniff[h].socket[1] = g
                    THEN [sniff[h] EXCEPT !.pc = "loop", !.socket = NoSocket]
                    ELSE sniff[h]]

StopCapture ==
  /\ platform = "linux"
  /\ CloseCapture
  /\ UNCHANGED sniff

\* WinDivertClose ends a WinDivertRecv on the handle.
StopDivert ==
  /\ platform = "windows"
  /\ CloseCapture
  /\ sniff' = Woken(cur)

\* Stop: sendFd.Swap(-1), close.
StopSend ==
  /\ pc = "closing"
  /\ pc' = "wait"
  /\ table' = IF sendFd[cur] = NoFD THEN table ELSE [table EXCEPT ![sendFd[cur]] = Free]
  /\ sendFd' = [sendFd EXCEPT ![cur] = NoFD]
  /\ UNCHANGED <<cur, request, running, fd, sniff, ticker, inject, dead>>

\* Stop: wg.Wait returns.  runtimes = newRuntimes.
Stopped ==
  /\ pc = "wait"
  /\ sniff[cur].pc = "done"
  /\ ~ticker[cur]
  /\ pc' = "select"
  /\ cur' = cur + 1
  /\ UNCHANGED <<request, sockVars, sniff, ticker, inject, dead>>

-----------------------------------------------------------------------------
(* The injector's goroutines.                                              *)

\* sniffLoop's condition.
SniffLoop(g) ==
  /\ sniff[g].pc = "loop"
  /\ sniff' = [sniff EXCEPT ![g].pc = IF running[g] THEN "load" ELSE "done"]
  /\ UNCHANGED <<mainVars, sockVars, ticker, inject, dead>>

\* fd.Load: without a descriptor the loop ends.
SniffLoad(g) ==
  /\ sniff[g].pc = "load"
  /\ sniff' = [sniff EXCEPT ![g].pc = IF fd[g] = NoFD THEN "done" ELSE "recv",
                            ![g].fd = fd[g]]
  /\ UNCHANGED <<mainVars, sockVars, ticker, inject, dead>>

\* Recvfrom on the number: it waits on a packet socket, fails on a closed
\* number, and takes the bytes of a connection.
Recv(g) ==
  /\ sniff[g].pc = "recv"
  /\ LET entry == table[sniff[g].fd]
     IN sniff' = [sniff EXCEPT ![g] =
          [pc |-> IF entry \in {Free, Conn} THEN "loop" ELSE "blocked",
           fd |-> NoFD,
           socket |-> IF entry \in {Free, Conn} THEN NoSocket ELSE entry]]
  /\ UNCHANGED <<mainVars, sockVars, ticker, inject, dead>>

\* A packet arrives on the socket's device, and Recvfrom returns.
Received(g) ==
  /\ sniff[g].pc = "blocked"
  /\ sniff[g].socket[1] \notin dead
  /\ sniff' = [sniff EXCEPT ![g].pc = "loop", ![g].socket = NoSocket]
  /\ UNCHANGED <<mainVars, sockVars, ticker, dead>>

\* handlePacket.
Packet(g) == Received(g) /\ UNCHANGED inject

\* The capture device goes away: a receive that waits fails with ENETDOWN; a
\* later one waits.  WinDivert is bound to no device.
Die(g) ==
  /\ platform = "linux"
  /\ g \notin dead
  /\ running[g]
  /\ Cardinality(dead) < MaxDeaths
  /\ dead' = dead \cup {g}
  /\ sniff' = Woken(g)
  /\ UNCHANGED <<mainVars, sockVars, ticker, inject>>

\* Mutant of StatsTick: the loop does not look at running.
StatsTickOn(g) ==
  /\ ticker[g]
  /\ ~running[g]
  /\ UNCHANGED <<mainVars, sockVars, sniff, ticker, inject, dead>>

\* The ticker of the injector's second loop: every 30s for the statistics, on
\* Windows every 5s for the local address.
StatsTick(g) ==
  /\ ticker[g]
  /\ ~running[g]
  /\ ticker' = [ticker EXCEPT ![g] = FALSE]
  /\ UNCHANGED <<mainVars, sockVars, sniff, inject, dead>>

\* handlePacket starts the goroutine that injects, whether the injector still runs
\* or not; nobody waits for it.
InjectBegin(g) ==
  /\ Received(g)
  /\ inject[g].pc = "none"
  /\ inject' = [inject EXCEPT ![g].pc = "load"]

\* An injection uses the number it loaded; without any the flow is marked failed.
InjectOn(g, n) ==
  /\ inject[g].pc = "load"
  /\ inject' = [inject EXCEPT ![g] =
       IF n = NoFD THEN [pc |-> "done", fd |-> NoFD] ELSE [pc |-> "send", fd |-> n]]
  /\ UNCHANGED <<mainVars, sockVars, sniff, ticker, dead>>

\* injectFrame: sendFd.Load, or the capture socket's descriptor without one.
InjectLoad(g) ==
  platform = "linux" /\ InjectOn(g, IF sendFd[g] # NoFD THEN sendFd[g] ELSE fd[g])

\* injectPacket has the one handle.
InjectLoadDivert(g) == platform = "windows" /\ InjectOn(g, sendFd[g])

\* Sendto on the number; on Linux it may not be the last.
InjectSend(g) ==
  /\ inject[g].pc = "send"
  /\ \E next \in {"load", "done"} :
       /\ next = "load" => platform = "linux"
       /\ inject' = [inject EXCEPT ![g] = [pc |-> next, fd |-> NoFD]]
  /\ UNCHANGED <<mainVars, sockVars, sniff, ticker, dead>>

-----------------------------------------------------------------------------
(* Proxied connections open and close sockets.                             *)

\* NumFDs stands for a limit that the connections do not reach.
Open ==
  /\ Cardinality(FreeFDs) > 2
  /\ \E n \in Handed : table' = [table EXCEPT ![n] = Conn]
  /\ UNCHANGED <<mainVars, running, fd, sendFd, sniff, ticker, inject, dead>>

Close(n) ==
  /\ table[n] = Conn
  /\ table' = [table EXCEPT ![n] = Free]
  /\ UNCHANGED <<mainVars, running, fd, sendFd, sniff, ticker, inject, dead>>

-----------------------------------------------------------------------------

Main ==
  \/ Receive
  \/ OpenCapture \/ StartFails \/ StartWithoutSend \/ Start
  \/ StopCapture \/ StopDivert \/ StopSend \/ Stopped

Sniffs(g) == SniffLoop(g) \/ SniffLoad(g) \/ Recv(g)

Injects(g) == InjectBegin(g) \/ InjectLoad(g) \/ InjectLoadDivert(g) \/ InjectSend(g)

Next ==
  /\ \/ Request
     \/ Main
     \/ \E g \in Gens : Sniffs(g) \/ StatsTick(g) \/ Injects(g) \/ Packet(g) \/ Die(g)
     \/ Open
     \/ \E n \in FDs : Close(n)
  /\ UNCHANGED platform

Spec == Init /\ [][Next]_vars

Same(A) == A /\ UNCHANGED platform

\* Goroutines run and the ticker ticks.
Fairness ==
  /\ WF_vars(Same(Main))
  /\ \A g \in Gens : WF_vars(Same(Sniffs(g))) /\ WF_vars(Same(StatsTick(g)))

\* On Linux every device that is there sees a packet now and then.
TrafficSpec ==
  Spec /\ Fairness /\ (\A g \in Gens : WF_vars(Same(platform = "linux" /\ Packet(g))))

\* What makes a Start fail is transient (main.go:410-411).
FairSpec == Spec /\ Fairness /\ SF_vars(Same(Start \/ StartWithoutSend))

-----------------------------------------------------------------------------
(* Properties.                                                             *)

\* Nothing is left of an injector once Stop returned, nor of one that could not
\* be started: its loops have ended and both sockets are closed, whatever was in
\* flight (rawinjector_linux.go:437-454, rawinjector_windows.go:186-190, 225-238).
StoppedIsGone ==
  \A g \in Gens :
    g < cur \/ (g > cur /\ pc \in {"select", "build"}) =>
      /\ sniff[g].pc \in {"off", "done"} /\ ~ticker[g]
      /\ \A n \in FDs : table[n] \notin {<<g, "capture">>, <<g, "send">>}

\* "fd ... AF_PACKET socket for capture (sniffLoop)" and "sendFd ... AF_INET
\* SOCK_RAW for injection" (rawinjector_linux.go:78-79): until it is stopped, the
\* number an injector is about to read from or send on is a socket of its own,
\* however the connections and the other generations open and close theirs.
OwnWhileRunning ==
  \A g \in Gens : running[g] =>
    /\ sniff[g].pc = "recv" => table[sniff[g].fd] = <<g, "capture">>
    /\ inject[g].pc = "send" => table[inject[g].fd] \in {<<g, "capture">>, <<g, "send">>}

\* Stop returns and main is back at its select, unless a capture device went away
\* (main.go:436, rawinjector_linux.go:453); on Windows with no packet at all.
StopReturns == pc \in {"stop", "closing", "wait"} ~> (pc = "select" \/ dead # {})

\* "rebind automatically when the physical WAN changes ... The listener/daemon
\* stay up throughout" (main.go:290-292): main takes up every request, whatever
\* happened to the device of an earlier one.
RequestsTakenUp == (request /\ cur < MaxGen) ~> (~request \/ cur = MaxGen)
=============================================================================
