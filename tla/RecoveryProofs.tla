--------------------------- MODULE RecoveryProofs ---------------------------
(***************************************************************************)
(* Proofs about Recovery: for any number of listeners and connections, any *)
(* threshold and any number of rebuilds, a critical streak is never lost,  *)
(* every listener dispatches to a server whose injector runs, and no       *)
(* injector outlives its runtime.                                          *)
(***************************************************************************)
EXTENDS Recovery, TLAPS

\* What holds of the main goroutine's variables at each of its locations.
MainInv ==
  /\ runtimes <= fresh
  /\ pc \in {"backoff", "build", "retry", "swap", "stop"} => runtimes < fresh
  /\ pc \in {"select", "backoff", "retry"} => next = 1
  /\ pc \in {"select", "backoff", "build", "retry"} =>
       \A l \in Listeners : live[l] = runtimes
  /\ pc = "swap" => \A l \in Listeners : live[l] = IF l < next THEN fresh ELSE runtimes
  /\ pc = "stop" => \A l \in Listeners : live[l] = fresh

\* Which injectors run at each location.
RunInv ==
  /\ pc \in {"select", "backoff", "build", "retry", "swap"} =>
       \A l \in Listeners : <<runtimes, l>> \in running
  /\ pc = "build" => \A l \in Listeners : l < next => <<fresh, l>> \in running
  /\ pc \in {"swap", "stop"} => \A l \in Listeners : <<fresh, l>> \in running

\* A server no listener has dispatched to yet has counted nothing.
UnusedInv ==
  /\ \A c \in Conns : server[c][1] <= live[server[c][2]]
  /\ \A g \in Gens, l \in Listeners :
       live[l] < g => streak[<<g, l>>] = 0 /\ ~restartSent[<<g, l>>]

IInv ==
  /\ TypeOK
  /\ MainInv
  /\ RunInv
  /\ UnusedInv
  /\ LatchImpliesPending
  /\ CriticalStreakHeard

-----------------------------------------------------------------------------

LEMMA InitTypeOK == Init => TypeOK
  BY RecoveryAssumption
  DEF Init, TypeOK, Servers, Gens, Listeners, MainPCs, ConnPCs

LEMMA StepTypeOK == TypeOK /\ [Next]_vars => TypeOK'
<1> SUFFICES ASSUME TypeOK, [Next]_vars PROVE TypeOK'
  OBVIOUS
<1> USE RecoveryAssumption
    DEF TypeOK, Servers, Gens, Listeners, MainPCs, ConnPCs, Reasons
<1>1. CASE UNCHANGED vars
  BY <1>1 DEF vars, mainVars, serverVars, connVars, auxVars
<1>2. ASSUME NEW c \in Conns, NEW l \in Listeners, Accept(c, l) PROVE TypeOK'
  <2>1. <<live[l], l>> \in Servers
    OBVIOUS
  <2> QED BY <1>2, <2>1 DEF Accept, Goto, mainVars, serverVars, auxVars
<1>3. ASSUME NEW c \in Conns, Drop(c) PROVE TypeOK'
  BY <1>3 DEF Drop, Goto, mainVars, serverVars, auxVars
<1>4. ASSUME NEW c \in Conns, SuccessReset(c) PROVE TypeOK'
  BY <1>4 DEF SuccessReset, Goto, mainVars, auxVars
<1>5. ASSUME NEW c \in Conns, Failure(c) PROVE TypeOK'
  <2>1. streak' \in [Servers -> Nat]
    <3>1. server[c] \in Servers /\ streak[server[c]] + 1 \in Nat
      OBVIOUS
    <3> QED BY <1>5, <3>1 DEF Failure
  <2>2. cpc' \in [Conns -> ConnPCs]
    BY <1>5 DEF Failure, Goto
  <2> QED BY <1>5, <2>1, <2>2 DEF Failure, mainVars, auxVars
<1>6. ASSUME NEW c \in Conns, SuccessClear(c) PROVE TypeOK'
  BY <1>6 DEF SuccessClear, Goto, mainVars, auxVars
<1>7. ASSUME NEW c \in Conns, Claim(c) PROVE TypeOK'
  BY <1>7 DEF Claim, Goto, mainVars, auxVars
<1>8. ASSUME NEW c \in Conns, Request(c) PROVE TypeOK'
  BY <1>8 DEF Request, Ask, Goto, mainVars, serverVars, auxVars
<1>9. CASE WanChanged
  BY <1>9 DEF WanChanged, Ask, mainVars, serverVars, connVars
<1>10. CASE Receive
  BY <1>10 DEF Receive, serverVars, connVars, auxVars
<1>11. CASE Elapse
  BY <1>11 DEF Elapse, serverVars, connVars, auxVars
<1>12. CASE BuildRuntime
  <2>1. running' \in SUBSET Servers
    <3>1. <<fresh, next>> \in Servers
      OBVIOUS
    <3> QED BY <1>12, <3>1 DEF BuildRuntime
  <2>2. pc' \in MainPCs /\ next' \in Listeners
    BY <1>12 DEF BuildRuntime, Loop
  <2> QED BY <1>12, <2>1, <2>2 DEF BuildRuntime, serverVars, connVars, auxVars
<1>13. CASE BuildFails
  <2>1. {fresh} \X (1 .. next - 1) \in SUBSET Servers
    <3>1. \A l \in 1 .. next - 1 : l \in Listeners
      OBVIOUS
    <3> QED BY <3>1
  <2>2. abandoned' \in SUBSET Servers
    BY <1>13, <2>1 DEF BuildFails
  <2>3. /\ pc' \in MainPCs /\ next' \in Listeners /\ fresh' \in Gens
        /\ buildFailures' \in 0 .. MaxBuildFailures
    BY <1>13 DEF BuildFails
  <2> QED BY <1>13, <2>2, <2>3 DEF BuildFails, serverVars, connVars
<1>14. CASE Swap
  <2>1. pc' \in MainPCs /\ next' \in Listeners
    BY <1>14 DEF Swap, Loop
  <2>2. live' \in [Listeners -> Gens]
    BY <1>14 DEF Swap
  <2> QED BY <1>14, <2>1, <2>2 DEF Swap, serverVars, connVars, auxVars
<1>15. CASE StopOld
  <2>1. running' \in SUBSET Servers /\ runtimes' \in Gens
    BY <1>15 DEF StopOld
  <2>2. pc' \in MainPCs /\ next' \in Listeners
    BY <1>15 DEF StopOld, Loop
  <2> QED BY <1>15, <2>1, <2>2 DEF StopOld, serverVars, connVars, auxVars
<1>16. CASE Shutdown
  BY <1>16 DEF Shutdown, serverVars, connVars, auxVars
<1> QED
  BY <1>1, <1>2, <1>3, <1>4, <1>5, <1>6, <1>7, <1>8, <1>9, <1>10, <1>11,
     <1>12, <1>13, <1>14, <1>15, <1>16
  DEF Next, Handler, Report, Progress

\* Every variable keeps the type the Go declarations give it; in particular the
\* restart channel never holds more than its one slot (main.go:256-262).
THEOREM TypeCorrect == Spec => []TypeOK
<1>1. Init => TypeOK BY InitTypeOK
<1>2. TypeOK /\ [Next]_vars => TypeOK' BY StepTypeOK
<1> QED BY <1>1, <1>2, PTL DEF Spec

-----------------------------------------------------------------------------
(* The main goroutine's locations, generations and injectors.              *)

LEMMA StepMainInv == TypeOK /\ MainInv /\ [Next]_vars => MainInv'
<1> SUFFICES ASSUME TypeOK, MainInv, [Next]_vars PROVE MainInv'
  OBVIOUS
<1> USE RecoveryAssumption DEF MainInv, TypeOK, Gens, Listeners, MainPCs
<1>1. CASE UNCHANGED mainVars
  BY <1>1 DEF mainVars
<1>2. CASE Receive
  BY <1>2 DEF Receive
<1>3. CASE Elapse
  BY <1>3 DEF Elapse
<1>4. CASE BuildRuntime
  BY <1>4 DEF BuildRuntime, Loop
<1>5. CASE BuildFails
  BY <1>5 DEF BuildFails
<1>6. CASE Swap
  BY <1>6 DEF Swap, Loop
<1>7. CASE StopOld
  BY <1>7 DEF StopOld, Loop
<1>8. CASE Shutdown
  BY <1>8 DEF Shutdown
<1> QED
  BY <1>1, <1>2, <1>3, <1>4, <1>5, <1>6, <1>7, <1>8
  DEF Next, Handler, Report, Progress, Accept, Drop, SuccessReset, Failure,
      SuccessClear, Claim, Request, WanChanged, vars

LEMMA StepRunInv == TypeOK /\ MainInv /\ RunInv /\ [Next]_vars => RunInv'
<1> SUFFICES ASSUME TypeOK, MainInv, RunInv, [Next]_vars PROVE RunInv'
  OBVIOUS
<1> USE RecoveryAssumption DEF MainInv, RunInv, TypeOK, Gens, Listeners, MainPCs
<1>1. CASE UNCHANGED mainVars
  BY <1>1 DEF mainVars
<1>2. CASE Receive
  BY <1>2 DEF Receive
<1>3. CASE Elapse
  BY <1>3 DEF Elapse
<1>4. CASE BuildRuntime
  BY <1>4 DEF BuildRuntime, Loop
<1>5. CASE BuildFails
  BY <1>5 DEF BuildFails
<1>6. CASE Swap
  BY <1>6 DEF Swap, Loop
<1>7. CASE StopOld
  BY <1>7 DEF StopOld, Loop
<1>8. CASE Shutdown
  BY <1>8 DEF Shutdown
<1> QED
  BY <1>1, <1>2, <1>3, <1>4, <1>5, <1>6, <1>7, <1>8
  DEF Next, Handler, Report, Progress, Accept, Drop, SuccessReset, Failure,
      SuccessClear, Claim, Request, WanChanged, vars

\* Generations only ever replace older ones behind the listeners' pointers.
LEMMA LiveGrows ==
  TypeOK /\ MainInv /\ [Next]_vars => \A l \in Listeners : live[l] <= live'[l]
<1> SUFFICES ASSUME TypeOK, MainInv, [Next]_vars, NEW l \in Listeners
             PROVE  live[l] <= live'[l]
  OBVIOUS
<1> USE RecoveryAssumption DEF TypeOK, MainInv, Gens, Listeners
<1>1. CASE Swap
  BY <1>1 DEF Swap, Loop
<1>2. CASE UNCHANGED live
  BY <1>2
<1> QED
  BY <1>1, <1>2
  DEF Next, Handler, Report, Progress, Accept, Drop, SuccessReset, Failure,
      SuccessClear, Claim, Request, WanChanged, Receive, Elapse, BuildRuntime,
      BuildFails, StopOld, Shutdown, mainVars, vars

LEMMA StepUnusedInv == TypeOK /\ MainInv /\ UnusedInv /\ [Next]_vars => UnusedInv'
<1> SUFFICES ASSUME TypeOK, MainInv, UnusedInv, [Next]_vars PROVE UnusedInv'
  OBVIOUS
<1>grow. \A l \in Listeners : live[l] <= live'[l]
  BY LiveGrows
<1>type. TypeOK'
  BY StepTypeOK
<1>1. ASSUME NEW c \in Conns PROVE server'[c][1] <= live'[server'[c][2]]
  <2>1. server[c][2] \in Listeners /\ server[c][1] \in Gens
    BY DEF TypeOK, Servers
  <2>2. CASE server'[c] = server[c]
    <3>1. server[c][1] <= live[server[c][2]]
      BY DEF UnusedInv
    <3>2. live[server[c][2]] \in Nat /\ live'[server[c][2]] \in Nat
      <4>1. live \in [Listeners -> Gens] /\ live' \in [Listeners -> Gens]
        BY <1>type DEF TypeOK
      <4>2. Gens \subseteq Nat
        BY DEF Gens
      <4> QED BY <2>1, <4>1, <4>2
    <3> QED BY <2>1, <2>2, <3>1, <3>2, <1>grow DEF Gens
  <2>3. ASSUME NEW l \in Listeners, Accept(c, l) PROVE server'[c][1] <= live'[server'[c][2]]
    <3>1. server'[c] = <<live[l], l>> /\ live' = live
      BY <2>3 DEF Accept, TypeOK, mainVars
    <3> QED BY <3>1 DEF TypeOK, Gens
  <2>4. CASE \E d \in Conns, l \in Listeners : d # c /\ Accept(d, l)
    BY <2>2, <2>4 DEF Accept, TypeOK
  <2> QED
    BY <2>2, <2>3, <2>4
    DEF Next, Handler, Report, Progress, Drop, SuccessReset, Failure,
        SuccessClear, Claim, Request, WanChanged, Receive, Elapse, BuildRuntime,
        BuildFails, Swap, StopOld, Shutdown, connVars, vars
<1>2. ASSUME NEW g \in Gens, NEW l \in Listeners, live'[l] < g
      PROVE  streak'[<<g, l>>] = 0 /\ ~restartSent'[<<g, l>>]
  <2>1. live[l] < g
    BY <1>2, <1>grow, <1>type DEF TypeOK, Gens
  <2>2. streak[<<g, l>>] = 0 /\ ~restartSent[<<g, l>>]
    BY <2>1 DEF UnusedInv
  <2>3. \A c \in Conns : server[c] # <<g, l>>
    BY <2>1 DEF UnusedInv, TypeOK, Gens
  <2>4. ASSUME NEW c \in Conns, SuccessReset(c) \/ Failure(c) \/ SuccessClear(c) \/ Claim(c)
        PROVE  streak'[<<g, l>>] = 0 /\ ~restartSent'[<<g, l>>]
    <3>1. <<g, l>> \in Servers /\ server[c] \in Servers /\ server[c] # <<g, l>>
      BY <2>3 DEF TypeOK, Servers
    <3> QED
      BY <2>2, <2>4, <3>1 DEF SuccessReset, Failure, SuccessClear, Claim, TypeOK
  <2>5. CASE UNCHANGED serverVars
    BY <2>2, <2>5 DEF serverVars
  <2> QED
    BY <2>4, <2>5
    DEF Next, Handler, Report, Progress, Accept, Drop, Request, WanChanged,
        Receive, Elapse, BuildRuntime, BuildFails, Swap, StopOld, Shutdown, vars
<1> QED BY <1>1, <1>2 DEF UnusedInv

-----------------------------------------------------------------------------
(* A pending rebuild stays pending until it replaces the server.           *)

\* After a step, either the listener's server was just replaced by one that
\* has counted nothing, or its pending rebuild is still pending.
LEMMA PendingStable ==
  ASSUME TypeOK, MainInv, UnusedInv, [Next]_vars, NEW l \in Listeners, Pending(l)
  PROVE  \/ Pending(l)'
         \/ streak'[<<live'[l], l>>] = 0 /\ ~restartSent'[<<live'[l], l>>]
<1> USE RecoveryAssumption DEF Pending, Rebuilding
<1>1. ASSUME NEW c \in Conns, Request(c) PROVE Pending(l)'
  BY <1>1 DEF Request, Ask, TypeOK
<1>2. CASE WanChanged
  BY <1>2 DEF WanChanged, Ask, TypeOK
<1>3. CASE Receive
  BY <1>3 DEF Receive
<1>4. CASE Elapse \/ BuildFails \/ Shutdown
  BY <1>4 DEF Elapse, BuildFails, Shutdown
<1>5. CASE BuildRuntime
  BY <1>5 DEF BuildRuntime, Loop, Listeners
<1>6. CASE StopOld
  BY <1>6 DEF StopOld, Loop, MainInv, Listeners, connVars
<1>7. CASE Swap
  <2>1. CASE next = l
    <3>1. live' = [live EXCEPT ![l] = fresh] /\ live'[l] = fresh
      BY <1>7, <2>1 DEF Swap, TypeOK
    <3>2. live[l] < fresh
      BY <1>7, <2>1 DEF Swap, Loop, MainInv, TypeOK, Gens, Listeners
    <3>3. streak[<<fresh, l>>] = 0 /\ ~restartSent[<<fresh, l>>]
      BY <3>2 DEF UnusedInv, TypeOK
    <3> QED BY <1>7, <3>1, <3>3 DEF Swap, serverVars
  <2>2. CASE next # l
    BY <1>7, <2>2 DEF Swap, Loop, TypeOK, Listeners, Gens, connVars
  <2> QED BY <2>1, <2>2
<1>8. ASSUME NEW c \in Conns, NEW m \in Listeners, Accept(c, m) PROVE Pending(l)'
  BY <1>8 DEF Accept, Goto, TypeOK, mainVars
<1>9. ASSUME NEW c \in Conns,
             Drop(c) \/ SuccessReset(c) \/ Failure(c) \/ SuccessClear(c) \/ Claim(c)
      PROVE Pending(l)'
  BY <1>9 DEF Drop, SuccessReset, Failure, SuccessClear, Claim, Goto, TypeOK, mainVars
<1>10. CASE UNCHANGED vars
  BY <1>10 DEF vars, mainVars, connVars
<1> QED
  BY <1>1, <1>2, <1>3, <1>4, <1>5, <1>6, <1>7, <1>8, <1>9, <1>10
  DEF Next, Handler, Report, Progress

\* The server behind a listener changes only by a Swap, to an unused one.
LEMMA LiveChange ==
  ASSUME TypeOK, MainInv, UnusedInv, [Next]_vars, NEW l \in Listeners
  PROVE  \/ live'[l] = live[l]
         \/ /\ streak'[<<live'[l], l>>] = 0
            /\ ~restartSent'[<<live'[l], l>>]
<1> USE RecoveryAssumption
<1>1. CASE Swap
  <2>1. CASE next = l
    <3>1. live'[l] = fresh
      BY <1>1, <2>1 DEF Swap, TypeOK
    <3>2. live[l] < fresh
      BY <1>1, <2>1 DEF Swap, Loop, MainInv, TypeOK, Gens, Listeners
    <3>3. streak[<<fresh, l>>] = 0 /\ ~restartSent[<<fresh, l>>]
      BY <3>2 DEF UnusedInv, TypeOK
    <3> QED BY <1>1, <3>1, <3>3 DEF Swap, serverVars
  <2>2. CASE next # l
    BY <1>1, <2>2 DEF Swap, TypeOK
  <2> QED BY <2>1, <2>2
<1>2. CASE UNCHANGED live
  BY <1>2
<1> QED
  BY <1>1, <1>2
  DEF Next, Handler, Report, Progress, Accept, Drop, SuccessReset, Failure,
      SuccessClear, Claim, Request, WanChanged, Receive, Elapse, BuildRuntime,
      BuildFails, StopOld, Shutdown, mainVars, vars

\* Only the handler that wins the compare-and-swap sets a latch.
LEMMA LatchSetByClaim ==
  ASSUME TypeOK, [Next]_vars, NEW s \in Servers, ~restartSent[s], restartSent'[s]
  PROVE  \E c \in Conns : server[c] = s /\ Claim(c)
<1>1. ASSUME NEW c \in Conns, SuccessClear(c) PROVE FALSE
  BY <1>1 DEF SuccessClear, TypeOK
<1>2. ASSUME NEW c \in Conns, Claim(c), server[c] # s PROVE FALSE
  BY <1>2 DEF Claim, TypeOK
<1>3. CASE UNCHANGED restartSent
  BY <1>3
<1> QED
  BY <1>1, <1>2, <1>3
  DEF Next, Handler, Report, Progress, Accept, Drop, SuccessReset, Failure,
      Request, WanChanged, Receive, Elapse, BuildRuntime, BuildFails, Swap,
      StopOld, Shutdown, serverVars, vars

\* Only a failing handler of a server lengthens that server's streak.
LEMMA StreakGrowsByFailure ==
  ASSUME TypeOK, [Next]_vars, NEW s \in Servers, streak[s] < streak'[s]
  PROVE  \E c \in Conns : server[c] = s /\ Failure(c) /\ streak'[s] = streak[s] + 1
<1>1. ASSUME NEW c \in Conns, SuccessReset(c) PROVE FALSE
  BY <1>1 DEF SuccessReset, TypeOK
<1>2. ASSUME NEW c \in Conns, Failure(c)
      PROVE server[c] = s /\ streak'[s] = streak[s] + 1
  BY <1>2 DEF Failure, TypeOK
<1>3. CASE UNCHANGED streak
  BY <1>3 DEF TypeOK
<1> QED
  BY <1>1, <1>2, <1>3
  DEF Next, Handler, Report, Progress, Accept, Drop, SuccessClear, Claim,
      Request, WanChanged, Receive, Elapse, BuildRuntime, BuildFails, Swap,
      StopOld, Shutdown, serverVars, vars

\* A handler that wins the latch of a listener's current server is about to send.
LEMMA WonClaimPends ==
  ASSUME TypeOK, NEW c \in Conns, NEW l \in Listeners, Claim(c),
         server[c] = <<live[l], l>>, ~restartSent[server[c]]
  PROVE  Pending(l)'
  BY DEF Claim, Goto, TypeOK, Pending, mainVars

LEMMA StepLatch ==
  TypeOK /\ MainInv /\ UnusedInv /\ LatchImpliesPending /\ [Next]_vars
    => LatchImpliesPending'
<1> SUFFICES ASSUME TypeOK, MainInv, UnusedInv, LatchImpliesPending, [Next]_vars,
                    NEW l \in Listeners, restartSent'[<<live'[l], l>>]
             PROVE  Pending(l)'
  BY DEF LatchImpliesPending
<1>1. live'[l] = live[l]
  BY LiveChange
<1>2. CASE restartSent[<<live[l], l>>]
  BY <1>2, PendingStable DEF LatchImpliesPending
<1>3. CASE ~restartSent[<<live[l], l>>]
  <2>1. <<live[l], l>> \in Servers
    BY DEF TypeOK, Servers
  <2>2. PICK c \in Conns : server[c] = <<live[l], l>> /\ Claim(c)
    BY <1>1, <1>3, <2>1, LatchSetByClaim
  <2> QED BY <1>3, <2>2, WonClaimPends
<1> QED BY <1>2, <1>3

LEMMA StepStreak ==
  /\ TypeOK /\ MainInv /\ UnusedInv
  /\ LatchImpliesPending /\ CriticalStreakHeard
  /\ [Next]_vars
  => CriticalStreakHeard'
<1> DEFINE Claimant(c, l) == cpc[c] = "claiming" /\ server[c] = <<live[l], l>>
<1> SUFFICES ASSUME TypeOK, MainInv, UnusedInv, LatchImpliesPending,
                    CriticalStreakHeard, [Next]_vars,
                    NEW l \in Listeners, streak'[<<live'[l], l>>] >= Threshold
             PROVE  Pending(l)' \/ \E c \in Conns : Claimant(c, l)'
  BY DEF CriticalStreakHeard
<1> USE RecoveryAssumption
<1>1. live'[l] = live[l]
  BY LiveChange
<1>2. <<live[l], l>> \in Servers
  BY DEF TypeOK, Servers
<1>3. CASE Pending(l)
  BY <1>3, PendingStable
<1>4. CASE streak[<<live[l], l>>] >= Threshold /\ ~Pending(l)
  <2>1. PICK c \in Conns : Claimant(c, l)
    BY <1>4 DEF CriticalStreakHeard
  <2>2. CASE Claim(c)
    <3>1. ~restartSent[server[c]]
      BY <1>4, <2>1 DEF LatchImpliesPending
    <3> QED BY <2>1, <2>2, <3>1, WonClaimPends
  <2>3. CASE ~Claim(c)
    <3>1. cpc'[c] = cpc[c] /\ server'[c] = server[c]
      BY <2>1, <2>3
      DEF Next, Handler, Report, Progress, Accept, Drop, SuccessReset, Failure,
          SuccessClear, Claim, Request, WanChanged, Receive, Elapse, BuildRuntime,
          BuildFails, Swap, StopOld, Shutdown, Goto, connVars, vars, TypeOK
    <3>2. Claimant(c, l)'
      BY <1>1, <2>1, <3>1 DEF Claimant
    <3> QED BY <3>2
  <2> QED BY <2>2, <2>3
<1>5. CASE ~(streak[<<live[l], l>>] >= Threshold)
  <2>1. streak[<<live[l], l>>] < streak'[<<live[l], l>>]
    BY <1>1, <1>2, <1>5, StepTypeOK DEF TypeOK
  <2>2. PICK c \in Conns : /\ server[c] = <<live[l], l>>
                           /\ Failure(c)
                           /\ streak'[<<live[l], l>>] = streak[<<live[l], l>>] + 1
    BY <1>2, <2>1, StreakGrowsByFailure
  <2>3. cpc'[c] = "claiming" /\ server'[c] = server[c]
    BY <1>1, <2>2, StepTypeOK DEF Failure, Goto, TypeOK
  <2>4. Claimant(c, l)'
    BY <1>1, <2>2, <2>3 DEF Claimant
  <2> QED BY <2>4
<1> QED BY <1>3, <1>4, <1>5

-----------------------------------------------------------------------------

LEMMA InitIInv == Init => IInv
<1> SUFFICES ASSUME Init PROVE IInv
  OBVIOUS
<1> USE RecoveryAssumption DEF Init
<1>1. TypeOK
  BY InitTypeOK
<1>2. MainInv /\ RunInv
  BY DEF MainInv, RunInv, Gens, Listeners
<1>3. UnusedInv
  BY DEF UnusedInv, Servers, Gens, Listeners
<1>4. LatchImpliesPending /\ CriticalStreakHeard
  BY DEF LatchImpliesPending, CriticalStreakHeard, Servers, Gens, Listeners
<1> QED BY <1>1, <1>2, <1>3, <1>4 DEF IInv

THEOREM Invariance == Spec => []IInv
<1>1. Init => IInv
  BY InitIInv
<1>2. IInv /\ [Next]_vars => IInv'
  BY StepTypeOK, StepMainInv, StepRunInv, StepUnusedInv, StepLatch, StepStreak DEF IInv
<1> QED BY <1>1, <1>2, PTL DEF Spec

\* A set latch always has a rebuild of its server pending.
THEOREM LatchNeverSilences == Spec => []LatchImpliesPending
<1>1. IInv => LatchImpliesPending BY DEF IInv
<1> QED BY <1>1, Invariance, PTL

\* A streak at the threshold always has a rebuild pending or a claimant.
THEOREM StreakNeverLost == Spec => []CriticalStreakHeard
<1>1. IInv => CriticalStreakHeard BY DEF IInv
<1> QED BY <1>1, Invariance, PTL

\* No listener ever dispatches to a server whose injector was stopped.
THEOREM NeverDispatchesToStopped == Spec => []DispatchesToRunning
<1>1. IInv => DispatchesToRunning
  BY RecoveryAssumption
  DEF IInv, TypeOK, MainInv, RunInv, DispatchesToRunning, MainPCs, Gens, Listeners
<1> QED BY <1>1, Invariance, PTL
-----------------------------------------------------------------------------
(* Injectors and the runtimes they belong to.                              *)

\* An injector belongs to the current build, until the loop over the old ones
\* stops it, or to the one in progress, which has reached its listener; or the
\* build it belongs to failed.
Owned(s) ==
  \/ s[1] = runtimes /\ pc # "done" /\ (pc = "stop" => s[2] >= next)
  \/ s[1] = fresh /\ pc \in {"build", "swap", "stop"} /\ (pc = "build" => s[2] < next)
  \/ s \in abandoned

OwnerInv == \A s \in running : Owned(s)

LEMMA StepOwnerInv == TypeOK /\ MainInv /\ OwnerInv /\ [Next]_vars => OwnerInv'
<1> SUFFICES ASSUME TypeOK, MainInv, OwnerInv, [Next]_vars, NEW s \in running'
             PROVE  Owned(s)'
  BY DEF OwnerInv
<1> USE RecoveryAssumption DEF Owned, OwnerInv, MainInv, TypeOK, Servers, Gens, Listeners
<1>1. CASE UNCHANGED <<mainVars, abandoned>>
  BY <1>1 DEF mainVars
<1>2. CASE Receive
  BY <1>2 DEF Receive, auxVars
<1>3. CASE Elapse
  BY <1>3 DEF Elapse, auxVars
<1>4. CASE BuildRuntime
  <2>1. CASE s = <<fresh, next>>
    BY <1>4, <2>1 DEF BuildRuntime, Loop, auxVars
  <2>2. CASE s \in running
    BY <1>4, <2>2 DEF BuildRuntime, Loop, auxVars
  <2> QED BY <1>4, <2>1, <2>2 DEF BuildRuntime
<1>5. CASE BuildFails
  <2>1. CASE s[1] = fresh /\ s[2] < next
    <3>1. s[2] \in 1 .. next - 1 /\ s = <<s[1], s[2]>>
      BY <1>5, <2>1 DEF BuildFails
    <3>2. s \in abandoned'
      BY <1>5, <2>1, <3>1 DEF BuildFails
    <3> QED BY <3>2
  <2>2. CASE ~(s[1] = fresh /\ s[2] < next)
    BY <1>5, <2>2 DEF BuildFails
  <2> QED BY <2>1, <2>2
<1>6. CASE Swap
  BY <1>6 DEF Swap, Loop, auxVars
<1>7. CASE StopOld
  <2>1. s \in running /\ s # <<runtimes, next>> /\ s = <<s[1], s[2]>>
    BY <1>7 DEF StopOld
  <2>2. s[1] \in 0 .. MaxGen /\ s[2] \in 1 .. NumListeners
    BY <2>1
  <2>3. s[1] = runtimes => s[2] # next
    BY <2>1
  <2>4. Owned(s) /\ pc = "stop" /\ UNCHANGED <<fresh, abandoned>>
    BY <1>7, <2>1 DEF StopOld, Loop, auxVars
  <2>5. CASE next = NumListeners
    <3>1. runtimes' = fresh /\ pc' = "select"
      BY <1>7, <2>5 DEF StopOld, Loop
    <3> QED BY <2>2, <2>3, <2>4, <2>5, <3>1
  <2>6. CASE next # NumListeners
    <3>1. runtimes' = runtimes /\ pc' = pc /\ next' = next + 1
      BY <1>7, <2>6 DEF StopOld, Loop
    <3> QED BY <2>2, <2>3, <2>4, <3>1
  <2> QED BY <2>5, <2>6
<1>8. CASE Shutdown
  BY <1>8 DEF Shutdown, auxVars
<1>9. CASE WanChanged \/ \E c \in Conns : Handler(c)
  BY <1>1, <1>9
  DEF WanChanged, Handler, Accept, Drop, SuccessReset, Failure, Report, SuccessClear, Claim,
      Request, auxVars
<1>10. CASE UNCHANGED vars
  BY <1>1, <1>10 DEF vars, auxVars
<1> QED BY <1>2, <1>3, <1>4, <1>5, <1>6, <1>7, <1>8, <1>9, <1>10 DEF Next, Progress

\* No injector outlives its runtime, however rebuilds, failures of them and the end
\* of the process follow each other: whatever runs belongs to the current build or
\* the one in progress, or to the part of a failed build that main forgot
\* (main.go:413-438, 655-671).
THEOREM NoInjectorOutlives == Spec => []NoOrphanInjector
<1>1. Init => OwnerInv
  BY DEF Init, OwnerInv, Owned
<1>2. IInv /\ OwnerInv /\ [Next]_vars => OwnerInv'
  BY StepOwnerInv DEF IInv
<1>3. OwnerInv => NoOrphanInjector
  BY DEF OwnerInv, Owned, NoOrphanInjector
<1> QED BY <1>1, <1>2, <1>3, Invariance, PTL DEF Spec
=============================================================================
