------------------------ MODULE ControlServiceProofs ------------------------
(***************************************************************************)
(* Proofs about ControlService, for any requests and any number of cores:  *)
(* at most one core runs that nobody has killed, and the service has hold  *)
(* of it.  ServiceJobs implements ControlService, and when its parent ends *)
(* it leaves no core that it had hold of.  The status of its jobs is true, *)
(* and a method that its matrix passes has passed by its own core.         *)
(***************************************************************************)
EXTENDS ServiceJobs, TLAPS

\* A request between the two critical sections of startCore, or before its end.
Replacing(r) == pc[r] \in {"load", "spawn", "publish"}
InStart(r)   == Replacing(r) \/ pc[r] = "finish"

\* The starting flag is a lock: whoever is in startCore has it, alone.
StartLocked ==
  \A r \in Requests : InStart(r) => starting /\ \A s \in Requests : InStart(s) => s = r

\* A handler has a core in its hands from the spawn to the publication.
SpawningWhenPublishing ==
  \A r \in Requests : spawning[r] # None => pc[r] = "publish"

\* What a start is about to replace is not alive: the child was checked under
\* the mutex, it cannot come back, and nobody else can publish one.
NothingToLose ==
  \A r \in Requests : Replacing(r) /\ child # None => ~Alive(child)

\* Cores are numbered in the order of their births.
Born ==
  /\ child # None => child <= spawned
  /\ \A r \in Requests : spawning[r] # None => spawning[r] <= spawned

IInv ==
  /\ TypeOK
  /\ StartLocked
  /\ SpawningWhenPublishing
  /\ NothingToLose
  /\ Born
  /\ CoreInHand

LEMMA NoneIsNoCore == None \notin Cores
  BY ServiceAssumption DEF Cores

LEMMA InitIInv == Init => IInv
<1> SUFFICES ASSUME Init PROVE IInv
  OBVIOUS
<1>1. MaxCores \in Nat /\ 1 \in Cores /\ None \notin Cores
  BY ServiceAssumption DEF Cores
<1>2. TypeOK
  <2>1. child \in Cores \cup {None} /\ spawned \in 0 .. MaxCores
    BY <1>1, ServiceAssumption DEF Init
  <2>2. /\ pc \in [Requests -> PCs]
        /\ spawning \in [Requests -> Cores \cup {None}]
    BY DEF Init, PCs
  <2>3. /\ core \in [Cores -> CoreStates]
        /\ loaded \in [Cores -> Applies \cup {None}]
    BY DEF Init, CoreStates
  <2>4. /\ starting \in BOOLEAN /\ signalled \in SUBSET Cores
        /\ file \in Applies \cup {None} /\ raced \in BOOLEAN
    BY DEF Init
  <2> QED BY <2>1, <2>2, <2>3, <2>4 DEF TypeOK
<1>3. StartLocked /\ SpawningWhenPublishing /\ NothingToLose
  BY DEF Init, StartLocked, SpawningWhenPublishing, NothingToLose, InStart, Replacing
<1>4. Born
  BY <1>1 DEF Init, Born
<1>5. CoreInHand
  BY <1>1 DEF Init, CoreInHand, Wanted, Alive
<1> QED BY <1>2, <1>3, <1>4, <1>5 DEF IInv

\* A handler that moves outside startCore keeps what IInv says of handlers.
LEMMA OutsideStart ==
  ASSUME IInv, NEW r \in Requests, NEW from, NEW to \in {"check", "kill", "begin", "done"},
         Goto(r, from, to), UNCHANGED <<starting, spawning, spawned, core>>,
         from # "publish",
         child' = child \/ child' = None
  PROVE  /\ pc' \in [Requests -> PCs]
         /\ StartLocked'
         /\ SpawningWhenPublishing'
         /\ NothingToLose'
         /\ Born'
<1>1. pc' = [pc EXCEPT ![r] = to] /\ pc[r] = from
  BY DEF Goto
<1>2. pc' \in [Requests -> PCs]
  BY <1>1 DEF IInv, TypeOK, PCs
<1>3. \A s \in Requests : /\ InStart(s)' => InStart(s)
                          /\ Replacing(s)' => Replacing(s)
  BY <1>1 DEF IInv, TypeOK, InStart, Replacing
<1>4. StartLocked'
  BY <1>3 DEF IInv, StartLocked
<1>5. SpawningWhenPublishing'
  BY <1>1 DEF IInv, TypeOK, SpawningWhenPublishing
<1>6. NothingToLose'
  BY <1>3 DEF IInv, NothingToLose, Alive
<1> QED BY <1>2, <1>4, <1>5, <1>6 DEF IInv, Born

LEMMA AcceptCheckIInv ==
  ASSUME IInv, NEW r \in Requests, Accept(r) \/ Check(r)
  PROVE  IInv'
<1>1. /\ UNCHANGED <<starting, child, spawning, spawned, core, signalled, loaded>>
      /\ file' \in Applies \cup {None} /\ raced' \in BOOLEAN
  BY DEF Accept, Check, serviceVars, coreVars, IInv, TypeOK
<1>2. \E from \in {"new", "check"}, to \in {"check", "kill", "begin", "done"} : Goto(r, from, to)
  BY DEF Accept, Check
<1>3. /\ pc' \in [Requests -> PCs]
      /\ StartLocked' /\ SpawningWhenPublishing' /\ NothingToLose' /\ Born'
  BY <1>1, <1>2, OutsideStart
<1>4. CoreInHand'
  BY <1>1 DEF IInv, CoreInHand, Wanted, Alive
<1> QED BY <1>1, <1>3, <1>4 DEF IInv, TypeOK

LEMMA KillIInv ==
  ASSUME IInv, NEW r \in Requests, Kill(r)
  PROVE  IInv'
<1>1. /\ UNCHANGED <<starting, spawning, spawned, core, loaded, file, raced>>
      /\ signalled' = signalled \cup ({child} \ {None})
      /\ child' = None
  BY DEF Kill
<1>2. \E to \in {"begin", "done"} : Goto(r, "kill", to)
  BY DEF Kill
<1>3. /\ pc' \in [Requests -> PCs]
      /\ StartLocked' /\ SpawningWhenPublishing' /\ NothingToLose' /\ Born'
  BY <1>1, <1>2, OutsideStart
<1>4. CoreInHand'
  BY <1>1, NoneIsNoCore DEF IInv, CoreInHand, Wanted, Alive
<1>5. signalled' \in SUBSET Cores
  BY <1>1 DEF IInv, TypeOK
<1> QED BY <1>1, <1>3, <1>4, <1>5 DEF IInv, TypeOK

LEMMA BeginIInv ==
  ASSUME IInv, NEW r \in Requests, Begin(r)
  PROVE  IInv'
<1>1. /\ UNCHANGED <<child, spawning, spawned, core, signalled, loaded, file, raced>>
      /\ starting' = (starting \/ ~Running)
  BY DEF Begin, coreVars
<1>2. CASE starting \/ Running
  <2>1. Goto(r, "begin", "done") /\ starting' = starting
    BY <1>1, <1>2 DEF Begin, IInv, TypeOK
  <2>2. /\ pc' \in [Requests -> PCs]
        /\ StartLocked' /\ SpawningWhenPublishing' /\ NothingToLose' /\ Born'
    BY <1>1, <2>1, OutsideStart
  <2>3. CoreInHand'
    BY <1>1 DEF IInv, CoreInHand, Wanted, Alive
  <2> QED BY <1>1, <2>1, <2>2, <2>3 DEF IInv, TypeOK
<1>3. CASE ~starting /\ ~Running
  <2>1. pc' = [pc EXCEPT ![r] = "load"] /\ pc[r] = "begin" /\ starting'
    BY <1>1, <1>3 DEF Begin, Goto
  <2>2. \A s \in Requests : ~InStart(s)
    BY <1>3 DEF IInv, StartLocked
  <2>3. TypeOK'
    BY <1>1, <2>1 DEF IInv, TypeOK, PCs
  <2>4. StartLocked'
    BY <2>1, <2>2 DEF IInv, TypeOK, StartLocked, InStart, Replacing
  <2>5. SpawningWhenPublishing'
    BY <1>1, <2>1 DEF IInv, TypeOK, SpawningWhenPublishing
  <2>6. NothingToLose'
    BY <1>1, <1>3 DEF Running, NothingToLose, Alive
  <2>7. Born' /\ CoreInHand'
    BY <1>1 DEF IInv, Born, CoreInHand, Wanted, Alive
  <2> QED BY <2>3, <2>4, <2>5, <2>6, <2>7 DEF IInv
<1> QED BY <1>2, <1>3

\* Steps inside startCore that leave the core processes and the child alone.
LEMMA InsideIInv ==
  ASSUME IInv, NEW r \in Requests, Load(r) \/ SpawnFails(r)
  PROVE  IInv'
<1>1. UNCHANGED <<starting, child, spawning, spawned, core, signalled, loaded, file, raced>>
  BY DEF Load, SpawnFails, serviceVars, coreVars
<1>2. PICK to \in {"spawn", "finish"} : pc' = [pc EXCEPT ![r] = to] /\ Replacing(r) /\ pc[r] # "publish"
  BY DEF Load, SpawnFails, Goto, Replacing
<1>3. TypeOK'
  BY <1>1, <1>2 DEF IInv, TypeOK, PCs
<1>4. \A s \in Requests : /\ InStart(s)' <=> InStart(s)
                          /\ Replacing(s)' => Replacing(s)
  BY <1>2 DEF IInv, TypeOK, InStart, Replacing
<1>5. StartLocked' /\ NothingToLose'
  BY <1>1, <1>4 DEF IInv, StartLocked, NothingToLose, Alive
<1>6. SpawningWhenPublishing'
  BY <1>1, <1>2 DEF IInv, TypeOK, SpawningWhenPublishing
<1>7. Born' /\ CoreInHand'
  BY <1>1 DEF IInv, Born, CoreInHand, Wanted, Alive
<1> QED BY <1>3, <1>5, <1>6, <1>7 DEF IInv

LEMMA SpawnIInv ==
  ASSUME IInv, NEW r \in Requests, Spawn(r)
  PROVE  IInv'
<1> DEFINE new == spawned + 1
<1>1. /\ UNCHANGED <<starting, child, signalled, loaded, file, raced>>
      /\ spawned' = new
      /\ spawning' = [spawning EXCEPT ![r] = new]
      /\ core' = [core EXCEPT ![new] = "up"]
      /\ pc' = [pc EXCEPT ![r] = "publish"]
      /\ pc[r] = "spawn"
  BY DEF Spawn, Goto, serviceVars
<1>2. new \in Cores /\ new \in 0 .. MaxCores /\ spawned \in Nat
  BY ServiceAssumption DEF Spawn, IInv, TypeOK, Cores
<1>3. TypeOK'
  BY <1>1, <1>2 DEF IInv, TypeOK, PCs, CoreStates
<1>4. \A s \in Requests : /\ InStart(s)' <=> InStart(s)
                          /\ Replacing(s)' <=> Replacing(s)
  BY <1>1 DEF IInv, TypeOK, InStart, Replacing
<1>5. StartLocked'
  BY <1>1, <1>4 DEF IInv, StartLocked
<1>6. SpawningWhenPublishing'
  BY <1>1 DEF IInv, TypeOK, SpawningWhenPublishing
<1>7. Replacing(r)
  BY <1>1 DEF Replacing
<1>8. \A k \in Cores : ~Wanted(k)
  <2> SUFFICES ASSUME NEW k \in Cores, Wanted(k) PROVE FALSE
    OBVIOUS
  <2>1. child # k
    BY <1>7, NoneIsNoCore DEF IInv, NothingToLose, Wanted
  <2>2. PICK s \in Requests : spawning[s] = k
    BY <2>1 DEF IInv, CoreInHand
  <2>3. pc[s] = "publish"
    BY <2>2, NoneIsNoCore DEF IInv, SpawningWhenPublishing
  <2>4. s = r
    BY <1>7, <2>3 DEF IInv, StartLocked, InStart, Replacing
  <2> QED BY <1>1, <2>3, <2>4
<1>9. NothingToLose'
  <2> SUFFICES ASSUME child # None PROVE ~Alive(child)'
    BY <1>1 DEF NothingToLose
  <2>1. ~Alive(child) /\ child \in Cores
    BY <1>7 DEF IInv, NothingToLose, TypeOK
  <2>2. child # new
    BY <2>1, <1>2 DEF IInv, Born
  <2> QED BY <1>1, <1>2, <2>1, <2>2 DEF Alive, IInv, TypeOK
<1>10. Born'
  BY <1>1, <1>2 DEF IInv, TypeOK, Born, Cores
<1>11. CoreInHand'
  BY <1>1, <1>2, <1>8 DEF IInv, TypeOK, CoreInHand, Wanted, Alive
<1> QED BY <1>3, <1>5, <1>6, <1>9, <1>10, <1>11 DEF IInv

LEMMA PublishIInv ==
  ASSUME IInv, NEW r \in Requests, Publish(r)
  PROVE  IInv'
<1>1. /\ UNCHANGED <<starting, spawned, core, signalled, loaded, file, raced>>
      /\ spawning' = [spawning EXCEPT ![r] = None]
      /\ child' = spawning[r]
      /\ pc' = [pc EXCEPT ![r] = "finish"]
      /\ pc[r] = "publish"
  BY DEF Publish, Goto, coreVars
<1>2. TypeOK'
  BY <1>1 DEF IInv, TypeOK, PCs
<1>3. Replacing(r) /\ InStart(r)
  BY <1>1 DEF Replacing, InStart
<1>4. \A s \in Requests : /\ InStart(s)' <=> InStart(s)
                          /\ ~Replacing(s)'
  BY <1>1, <1>3 DEF IInv, TypeOK, StartLocked, InStart, Replacing
<1>5. StartLocked' /\ NothingToLose'
  BY <1>1, <1>4 DEF IInv, StartLocked, NothingToLose
<1>6. SpawningWhenPublishing'
  BY <1>1 DEF IInv, TypeOK, SpawningWhenPublishing
<1>7. CoreInHand'
  <2> SUFFICES ASSUME NEW k \in Cores, Wanted(k) PROVE child' = k
    BY <1>1 DEF CoreInHand, Wanted, Alive
  <2>1. child # k
    BY <1>3, NoneIsNoCore DEF IInv, NothingToLose, Wanted
  <2>2. PICK s \in Requests : spawning[s] = k
    BY <2>1 DEF IInv, CoreInHand
  <2>3. pc[s] = "publish"
    BY <2>2, NoneIsNoCore DEF IInv, SpawningWhenPublishing
  <2>4. s = r
    BY <1>3, <2>3 DEF IInv, StartLocked, InStart, Replacing
  <2> QED BY <1>1, <2>2, <2>4
<1>8. Born'
  BY <1>1 DEF IInv, Born
<1> QED BY <1>2, <1>5, <1>6, <1>7, <1>8 DEF IInv

LEMMA FinishIInv ==
  ASSUME IInv, NEW r \in Requests, Finish(r)
  PROVE  IInv'
<1>1. /\ UNCHANGED <<child, spawning, spawned, core, signalled, loaded, file, raced>>
      /\ starting' = FALSE
      /\ pc' = [pc EXCEPT ![r] = "done"]
      /\ pc[r] = "finish"
  BY DEF Finish, Goto, coreVars
<1>2. TypeOK'
  BY <1>1 DEF IInv, TypeOK, PCs
<1>3. \A s \in Requests : ~InStart(s)'
  BY <1>1 DEF IInv, TypeOK, StartLocked, InStart, Replacing
<1>4. StartLocked' /\ NothingToLose'
  BY <1>3 DEF StartLocked, NothingToLose, InStart
<1>5. SpawningWhenPublishing'
  BY <1>1 DEF IInv, TypeOK, SpawningWhenPublishing
<1>6. Born' /\ CoreInHand'
  BY <1>1 DEF IInv, Born, CoreInHand, Wanted, Alive
<1> QED BY <1>2, <1>4, <1>5, <1>6 DEF IInv

\* A core never comes back to life, and only a dead one is forgotten.
LEMMA ProcessIInv ==
  ASSUME IInv, NEW k \in Cores, Core(k) \/ Reap(k) \/ Collect(k)
  PROVE  IInv'
<1>1. PICK state \in CoreStates :
        /\ core' = [core EXCEPT ![k] = state]
        /\ state \in {"up", "serving"} => Alive(k)
        /\ child' = child \/ (child' = None /\ child = k /\ ~Alive(k))
        /\ loaded' \in [Cores -> Applies \cup {None}]
        /\ signalled' = signalled \/ (signalled' = signalled \ {k} /\ state \notin {"up", "serving"})
        /\ UNCHANGED <<pc, starting, spawning, spawned, file, raced>>
  <2>1. CASE Serve(k)
    BY <2>1 DEF Serve, Become, Alive, CoreStates, IInv, TypeOK
  <2>2. CASE Exit(k) \/ Crash(k)
    BY <2>2 DEF Exit, Crash, End, Become, Alive, CoreStates, IInv, TypeOK
  <2>3. CASE Reap(k)
    BY <2>3 DEF Reap, Become, Alive, CoreStates, IInv, TypeOK
  <2>4. CASE Collect(k)
    BY <2>4 DEF Collect, Become, Alive, CoreStates, IInv, TypeOK
  <2> QED BY <2>1, <2>2, <2>3, <2>4 DEF Core
<1>2. \A j \in Cores : Alive(j)' => Alive(j)
  BY <1>1 DEF Alive, IInv, TypeOK
<1>3. TypeOK'
  BY <1>1 DEF IInv, TypeOK
<1>4. StartLocked' /\ SpawningWhenPublishing'
  BY <1>1 DEF IInv, StartLocked, SpawningWhenPublishing, InStart, Replacing
<1>5. NothingToLose'
  <2> SUFFICES ASSUME NEW r \in Requests, Replacing(r), child' # None
               PROVE  ~Alive(child)'
    BY <1>1 DEF NothingToLose, Replacing
  <2>1. child' = child /\ child \in Cores
    BY <1>1 DEF IInv, TypeOK
  <2>2. ~Alive(child)
    BY <2>1 DEF IInv, NothingToLose
  <2> QED BY <1>1, <2>1, <2>2 DEF Alive, IInv, TypeOK
<1>6. Born'
  BY <1>1 DEF IInv, Born
<1>7. CoreInHand'
  <2> SUFFICES ASSUME NEW j \in Cores, Wanted(j)'
               PROVE  child' = j \/ \E r \in Requests : spawning[r] = j
    BY <1>1 DEF CoreInHand
  <2>1. Wanted(j)
    <3>1. Alive(j)
      BY <1>2 DEF Wanted
    <3>2. j \notin signalled
      BY <1>1 DEF Wanted, Alive, IInv, TypeOK
    <3> QED BY <3>1, <3>2 DEF Wanted
  <2>2. ~Alive(k) => k # j
    BY <2>1 DEF Wanted
  <2>3. child = j => child' = j
    BY <1>1, <2>2
  <2>4. child = j \/ \E r \in Requests : spawning[r] = j
    BY <2>1 DEF IInv, CoreInHand
  <2> QED BY <2>3, <2>4
<1> QED BY <1>3, <1>4, <1>5, <1>6, <1>7 DEF IInv

LEMMA StepIInv == IInv /\ [Next]_vars => IInv'
<1> SUFFICES ASSUME IInv, [Next]_vars PROVE IInv'
  OBVIOUS
<1>1. ASSUME NEW r \in Requests, Accept(r) \/ Handler(r) PROVE IInv'
  BY <1>1, AcceptCheckIInv, KillIInv, BeginIInv, InsideIInv, SpawnIInv, PublishIInv, FinishIInv
  DEF Handler
<1>2. ASSUME NEW k \in Cores, Core(k) \/ Reap(k) \/ Collect(k) PROVE IInv'
  BY <1>2, ProcessIInv
<1>3. CASE UNCHANGED vars
  BY <1>3
  DEF vars, serviceVars, coreVars, IInv, TypeOK, StartLocked, SpawningWhenPublishing,
      NothingToLose, Born, CoreInHand, InStart, Replacing, Wanted, Alive
<1> QED BY <1>1, <1>2, <1>3 DEF Next

\* The child and a spawned core are not both alive and unkilled, and two cores
\* are not spawned at once.
LEMMA IInvOneCore == IInv => OneCore
<1> SUFFICES ASSUME IInv, NEW j \in Cores, NEW k \in Cores, Wanted(j), Wanted(k)
             PROVE  j = k
  BY DEF OneCore
<1>1. ASSUME NEW r \in Requests, NEW c \in Cores, spawning[r] = c
      PROVE  pc[r] = "publish" /\ InStart(r) /\ (child # None => ~Alive(child))
  BY <1>1, NoneIsNoCore
  DEF IInv, SpawningWhenPublishing, NothingToLose, Replacing, InStart
<1>2. CASE child = j
  <2>1. child = k
    BY <1>1, <1>2, NoneIsNoCore DEF IInv, CoreInHand, Wanted
  <2> QED BY <1>2, <2>1
<1>3. CASE child # j
  <2>1. PICK r \in Requests : spawning[r] = j
    BY <1>3 DEF IInv, CoreInHand
  <2>2. child # k
    BY <1>1, <2>1, NoneIsNoCore DEF Wanted
  <2>3. PICK s \in Requests : spawning[s] = k
    BY <2>2 DEF IInv, CoreInHand
  <2>4. r = s
    BY <1>1, <2>1, <2>3 DEF IInv, StartLocked
  <2> QED BY <2>1, <2>3, <2>4
<1> QED BY <1>2, <1>3

\* Every variable keeps its type: a kill is of a core, never of no core
\* (service.go:1129-1147).
THEOREM ServiceTypeCorrect == Spec => []TypeOK
<1>1. IInv => TypeOK
  BY DEF IInv
<1> QED BY <1>1, InitIInv, StepIInv, PTL DEF Spec

\* However many starts, stops and applies overlap, and whenever cores exit or
\* crash, at most one core runs that nobody has killed (service.go:1049-1147).
THEOREM AtMostOneCore == Spec => []OneCore
<1> QED BY InitIInv, StepIInv, IInvOneCore, PTL DEF Spec

\* Such a core is the child or about to be: a stop reaches it, and the goroutine
\* of an earlier core never makes the service forget it (service.go:1103-1124).
THEOREM CoreStaysInHand == Spec => []CoreInHand
<1>1. IInv => CoreInHand
  BY DEF IInv
<1> QED BY <1>1, InitIInv, StepIInv, PTL DEF Spec

-----------------------------------------------------------------------------
(* What an apply wrote takes effect.                                       *)

\* A stop never enters startCore.
StopsOnlyStop == \A r \in Stops : pc[r] \in {"new", "check", "kill", "done"}

\* While nothing raced, an apply is the only start or apply at work.
Alone ==
  \A r \in Applies, s \in Requests \ Stops : Busy(r) /\ Busy(s) => r = s

InHand(k) == child = k \/ \E r \in Requests : spawning[r] = k

\* The core that serves has the configuration on disk, or an apply is yet to
\* kill it.
Fresh ==
  \A k \in Cores :
    core[k] = "serving" /\ InHand(k) =>
      loaded[k] = file \/ \E r \in Applies : pc[r] \in {"check", "kill"}

FreshInv == StopsOnlyStop /\ (~raced => Alone /\ Fresh)

LEMMA InitFreshInv == Init => FreshInv
  BY ServiceAssumption
  DEF Init, FreshInv, StopsOnlyStop, Alone, Fresh, Busy, Requests

\* A handler moves alone, and one that is at work was before or is accepted.
LEMMA MovesAlone ==
  ASSUME IInv, NEW r \in Requests, NEW from \in PCs, NEW to \in PCs, Goto(r, from, to)
  PROVE  /\ pc' = [pc EXCEPT ![r] = to]
         /\ pc[r] = from /\ pc'[r] = to
         /\ \A s \in Requests : s # r => pc'[s] = pc[s]
  BY DEF Goto, IInv, TypeOK

LEMMA HandlerStopsOnlyStop ==
  ASSUME IInv, StopsOnlyStop, NEW r \in Requests, Accept(r) \/ Handler(r)
  PROVE  StopsOnlyStop'
<1>1. pc \in [Requests -> PCs] /\ Stops \subseteq Requests /\ Stops \cap Applies = {}
      /\ Stops \cap Starts = {}
  BY ServiceAssumption DEF IInv, TypeOK, Requests
<1>2. PICK to \in PCs : /\ pc' = [pc EXCEPT ![r] = to]
                        /\ r \in Stops => to \in {"check", "kill", "done"}
  BY <1>1, ServiceAssumption
  DEF StopsOnlyStop, Accept, Handler, Check, Kill, Begin, Load, Spawn, SpawnFails,
      Publish, Finish, Goto, PCs
<1>3. pc'[r] = to /\ \A s \in Requests : s # r => pc'[s] = pc[s]
  BY <1>1, <1>2
<1> QED BY <1>1, <1>2, <1>3 DEF StopsOnlyStop

\* A handler after its acceptance keeps the applies alone.
LEMMA HandlerAlone ==
  ASSUME IInv, Alone, NEW r \in Requests, Handler(r)
  PROVE  Alone'
<1>1. pc \in [Requests -> PCs] /\ Applies \subseteq Requests
  BY DEF IInv, TypeOK, Requests
<1>2. Busy(r) /\ \E to \in PCs : pc' = [pc EXCEPT ![r] = to]
  BY <1>1 DEF Handler, Check, Kill, Begin, Load, Spawn, SpawnFails, Publish, Finish, Goto,
              Busy, PCs
<1>3. \A s \in Requests : Busy(s)' => Busy(s)
  BY <1>1, <1>2 DEF Busy
<1> QED BY <1>1, <1>3 DEF Alone

LEMMA AcceptFreshInv ==
  ASSUME IInv, FreshInv, NEW r \in Requests, Accept(r)
  PROVE  FreshInv'
<1>1. StopsOnlyStop'
  BY HandlerStopsOnlyStop DEF FreshInv
<1> SUFFICES ASSUME ~raced' PROVE Alone' /\ Fresh'
  BY <1>1 DEF FreshInv
<1>2. /\ ~raced /\ Alone /\ Fresh
      /\ \A s \in Requests \ Stops : Busy(s) => ~Races(r, s)
  BY DEF Accept, FreshInv
<1>3. /\ pc' = [pc EXCEPT ![r] = IF r \in Ends THEN "kill" ELSE "check"]
      /\ pc[r] = "new"
      /\ file' = IF r \in Applies THEN r ELSE file
      /\ UNCHANGED <<child, spawning, core, loaded>>
      /\ pc \in [Requests -> PCs]
  BY DEF Accept, Goto, serviceVars, coreVars, IInv, TypeOK
<1>4. /\ Applies \subseteq Requests /\ Applies \cap Stops = {} /\ Ends \subseteq Stops
      /\ \A s \in Requests : s # r => (Busy(s)' <=> Busy(s))
  BY <1>3, ServiceAssumption DEF Requests, Busy
<1>5. Alone'
  <2> SUFFICES ASSUME NEW a \in Applies, NEW s \in Requests \ Stops, Busy(a)', Busy(s)', a # s
               PROVE  FALSE
    BY DEF Alone
  <2>1. CASE a = r
    BY <1>2, <1>4, <2>1 DEF Races
  <2>2. CASE s = r
    BY <1>2, <1>4, <2>2 DEF Races
  <2>3. CASE a # r /\ s # r
    BY <1>2, <1>4, <2>3 DEF Alone
  <2> QED BY <2>1, <2>2, <2>3
<1>6. Fresh'
  <2>1. CASE r \in Applies
    <3>1. pc'[r] = "check"
      BY <1>3, <1>4, <2>1
    <3> QED BY <2>1, <3>1 DEF Fresh
  <2>2. CASE r \notin Applies
    BY <1>2, <1>3, <2>2 DEF Fresh, InHand
  <2> QED BY <2>1, <2>2
<1> QED BY <1>5, <1>6

\* An apply that finds no core running leaves none that serves: while it is
\* alone, nobody else has a core in his hands.
LEMMA CheckFresh ==
  ASSUME IInv, StopsOnlyStop, Alone, Fresh, NEW r \in Requests, Check(r)
  PROVE  Fresh'
<1>1. /\ pc[r] = "check" /\ pc \in [Requests -> PCs]
      /\ \A s \in Requests : s # r => pc'[s] = pc[s]
      /\ UNCHANGED <<child, spawning, core, loaded, file>>
  BY DEF Check, Goto, serviceVars, coreVars, IInv, TypeOK
<1>2. CASE r \notin Applies \/ Running
  <2>1. r \in Applies => pc'[r] = "kill"
    BY <1>1, <1>2, ServiceAssumption DEF Check, Goto
  <2> QED BY <1>1, <2>1 DEF Fresh, InHand, Requests
<1>3. CASE r \in Applies /\ ~Running
  <2>1. \A s \in Requests : spawning[s] = None
    <3> SUFFICES ASSUME NEW s \in Requests, spawning[s] # None PROVE FALSE
      OBVIOUS
    <3>1. pc[s] = "publish" /\ s \notin Stops
      BY DEF IInv, SpawningWhenPublishing, StopsOnlyStop
    <3> QED BY <1>1, <1>3, <3>1 DEF Alone, Busy
  <2>2. \A k \in Cores : core[k] = "serving" => ~InHand(k)
    BY <1>3, <2>1, NoneIsNoCore DEF InHand, Running
  <2> QED BY <1>1, <2>2 DEF Fresh, InHand
<1> QED BY <1>2, <1>3

LEMMA KillFresh ==
  ASSUME IInv, StopsOnlyStop, Alone, Fresh, NEW r \in Requests, Kill(r)
  PROVE  Fresh'
<1>1. /\ pc[r] = "kill" /\ pc \in [Requests -> PCs]
      /\ \A s \in Requests : s # r => pc'[s] = pc[s]
      /\ child' = None
      /\ UNCHANGED <<spawning, core, loaded, file>>
  BY DEF Kill, Goto, IInv, TypeOK
<1>2. CASE r \notin Applies
  BY <1>1, <1>2, NoneIsNoCore DEF Fresh, InHand, Requests
<1>3. CASE r \in Applies
  <2>1. \A s \in Requests : spawning[s] = None
    <3> SUFFICES ASSUME NEW s \in Requests, spawning[s] # None PROVE FALSE
      OBVIOUS
    <3>1. pc[s] = "publish" /\ s \notin Stops
      BY DEF IInv, SpawningWhenPublishing, StopsOnlyStop
    <3> QED BY <1>1, <1>3, <3>1 DEF Alone, Busy
  <2> QED BY <1>1, <2>1, NoneIsNoCore DEF Fresh, InHand
<1> QED BY <1>2, <1>3

\* Within startCore no core in hand begins to serve, and no apply is yet to kill.
LEMMA StartFresh ==
  ASSUME IInv, Fresh, NEW r \in Requests,
         Begin(r) \/ Load(r) \/ Spawn(r) \/ SpawnFails(r) \/ Publish(r) \/ Finish(r)
  PROVE  Fresh'
<1>1. /\ UNCHANGED <<loaded, file>> /\ pc \in [Requests -> PCs]
      /\ pc[r] \in {"begin", "load", "spawn", "publish", "finish"}
      /\ \A s \in Requests : s # r => pc'[s] = pc[s]
  BY DEF Begin, Load, Spawn, SpawnFails, Publish, Finish, Goto, serviceVars, coreVars,
         IInv, TypeOK
<1>2. \A k \in Cores : core'[k] = "serving" => core[k] = "serving"
  BY DEF Begin, Load, Spawn, SpawnFails, Publish, Finish, coreVars, IInv, TypeOK
<1>3. \A k \in Cores : InHand(k)' => InHand(k) \/ core'[k] # "serving"
  <2>1. CASE Begin(r) \/ Load(r) \/ SpawnFails(r) \/ Finish(r)
    BY <2>1 DEF Begin, Load, SpawnFails, Finish, serviceVars, InHand
  <2>2. CASE Spawn(r)
    <3>1. /\ child' = child /\ spawning' = [spawning EXCEPT ![r] = spawned']
          /\ core' = [core EXCEPT ![spawned'] = "up"]
      BY <2>2 DEF Spawn, serviceVars
    <3>2. spawning \in [Requests -> Cores \cup {None}] /\ core \in [Cores -> CoreStates]
      BY DEF IInv, TypeOK
    <3> QED BY <3>1, <3>2 DEF InHand
  <2>3. CASE Publish(r)
    <3>1. child' = spawning[r] /\ spawning' = [spawning EXCEPT ![r] = None]
      BY <2>3 DEF Publish
    <3>2. spawning \in [Requests -> Cores \cup {None}]
      BY DEF IInv, TypeOK
    <3> QED BY <3>1, <3>2, NoneIsNoCore DEF InHand
  <2> QED BY <2>1, <2>2, <2>3
<1>4. \A s \in Applies : pc[s] \in {"check", "kill"} => pc'[s] = pc[s]
  BY <1>1 DEF Requests
<1> QED BY <1>1, <1>2, <1>3, <1>4 DEF Fresh

LEMMA ProcessFreshInv ==
  ASSUME IInv, FreshInv, NEW k \in Cores, Core(k) \/ Reap(k) \/ Collect(k)
  PROVE  FreshInv'
<1>1. /\ UNCHANGED <<pc, spawning, file, raced>>
      /\ child' = child \/ child' = None
  BY DEF Core, Serve, Exit, Crash, End, Reap, Collect, Become
<1>2. \A j \in Cores : core'[j] = "serving" =>
        loaded'[j] = file \/ (core[j] = "serving" /\ loaded'[j] = loaded[j])
  <2>1. core \in [Cores -> CoreStates] /\ loaded \in [Cores -> Applies \cup {None}]
    BY DEF IInv, TypeOK
  <2>2. CASE Serve(k)
    BY <2>1, <2>2 DEF Serve, Become
  <2>3. CASE ~Serve(k)
    BY <2>1, <2>3 DEF Core, Exit, Crash, End, Reap, Collect, Become
  <2> QED BY <2>2, <2>3
<1>3. StopsOnlyStop' /\ (Alone => Alone')
  BY <1>1 DEF FreshInv, StopsOnlyStop, Alone, Busy
<1>4. \A j \in Cores : InHand(j)' => InHand(j)
  BY <1>1, NoneIsNoCore DEF InHand
<1>5. Fresh => Fresh'
  BY <1>1, <1>2, <1>4 DEF Fresh
<1> QED BY <1>1, <1>3, <1>5 DEF FreshInv

LEMMA StepFreshInv == IInv /\ FreshInv /\ [Next]_vars => FreshInv'
<1> SUFFICES ASSUME IInv, FreshInv, [Next]_vars PROVE FreshInv'
  OBVIOUS
<1>1. ASSUME NEW r \in Requests, Handler(r) PROVE FreshInv'
  <2>1. raced' = raced
    BY <1>1 DEF Handler, Check, Kill, Begin, Load, Spawn, SpawnFails, Publish, Finish
  <2>2. StopsOnlyStop'
    BY <1>1, HandlerStopsOnlyStop DEF FreshInv
  <2>3. ~raced => Alone' /\ Fresh'
    BY <1>1, HandlerAlone, CheckFresh, KillFresh, StartFresh DEF FreshInv, Handler
  <2> QED BY <2>1, <2>2, <2>3 DEF FreshInv
<1>2. CASE UNCHANGED vars
  BY <1>2
  DEF vars, serviceVars, coreVars, FreshInv, StopsOnlyStop, Alone, Fresh, InHand, Busy
<1> QED BY <1>1, <1>2, AcceptFreshInv, ProcessFreshInv DEF Next

\* What an apply wrote is what the core serves, whatever was stopped or crashed
\* meanwhile, unless the apply overlapped a start or another apply
\* (service.go:948-1001).
THEOREM AppliesTakeEffect == Spec => []AppliedTakesEffect
<1>1. IInv /\ FreshInv => AppliedTakesEffect
  <2> SUFFICES ASSUME IInv, Alone, Fresh, \A r \in Requests : ~Busy(r), child # None,
                      core[child] = "serving"
               PROVE  loaded[child] = file
    BY DEF FreshInv, AppliedTakesEffect
  <2>1. child \in Cores /\ InHand(child)
    BY DEF IInv, TypeOK, InHand
  <2> QED BY <2>1 DEF Fresh, Busy, Requests
<1> QED BY <1>1, InitIInv, StepIInv, InitFreshInv, StepFreshInv, PTL DEF Spec

-----------------------------------------------------------------------------
(* The jobs and the ends of the service.                                   *)

\* Jobs and ends leave the main core's handlers as they are, or take one of
\* their steps.
LEMMA JobsStep == [JNext]_jvars => [Next]_vars
<1> SUFFICES ASSUME [JNext]_jvars PROVE [Next]_vars
  OBVIOUS
<1>1. CASE UNCHANGED jvars
  BY <1>1 DEF jvars
<1>2. CASE Inside
  <2>1. ASSUME NEW r \in Requests, OnCore(r) PROVE Next
    BY <2>1 DEF OnCore, Next
  <2>2. ASSUME NEW k \in Cores, Forget(k) PROVE Next
    BY <2>2 DEF Forget, Next
  <2>3. ASSUME NEW r \in Runners, Matrix(r) PROVE UNCHANGED vars
    BY <2>3 DEF Matrix, NextCase, CaseFails, LastCase, Listens, Probe, Terminate
  <2>4. ASSUME NEW r \in Kicks, JobEnds(r) PROVE UNCHANGED vars
    BY <2>4 DEF JobEnds
  <2>5. ASSUME NEW t \in Tests, TestEnds(t) PROVE Next \/ UNCHANGED vars
    BY <2>5, JobsAssumption DEF TestEnds, Next, Requests
  <2>6. ASSUME ShutDown PROVE Next
    BY <2>6, JobsAssumption, ServiceAssumption DEF ShutDown, Next, Requests
  <2>7. ASSUME WatcherShutsDown \/ Leave PROVE UNCHANGED vars
    BY <2>7 DEF WatcherShutsDown, Leave
  <2> QED BY <1>2, <2>1, <2>2, <2>3, <2>4, <2>5, <2>6, <2>7 DEF Inside
<1>3. CASE Outside
  <2>1. ASSUME NEW r \in Requests \cup Kicks, Request(r) PROVE Next \/ UNCHANGED vars
    BY <2>1 DEF Request, TestBegins, Kick, Next
  <2>2. ASSUME NEW k \in Cores, Core(k) PROVE Next
    BY <2>2 DEF Next
  <2>3. ASSUME NEW r \in Runners, TestCore(r) PROVE UNCHANGED vars
    BY <2>3 DEF TestCore
  <2>4. ASSUME Interrupted PROVE UNCHANGED vars
    BY <2>4 DEF Interrupted
  <2>5. ASSUME ParentGone PROVE Next
    BY <2>5, JobsAssumption, ServiceAssumption DEF ParentGone, Next, Requests
  <2> QED BY <1>3, <2>1, <2>2, <2>3, <2>4, <2>5 DEF Outside
<1> QED BY <1>1, <1>2, <1>3 DEF JNext

\* Background jobs, tests and the service's end change nothing of what is proved
\* of its hold on the core (service.go:144-171, 489-619).
THEOREM JobsImplementService == JSpec => Spec
<1>1. JInit => Init
  BY DEF JInit
<1> QED BY <1>1, JobsStep, PTL DEF JSpec, Spec

\* The service closes for SIGINT or after the watcher's stopCore, and what the
\* watcher did not see cannot be a core it had.
EndInv ==
  /\ pc[Watcher] \in {"new", "kill", "done"}
  /\ service # "up" => Interrupt \in invited \/ pc[Watcher] = "done"
  /\ pc[Watcher] = "done" =>
       \A k \in Cores : k > spawned \/ Wanted(k) => k \in unseen

LEMMA EndsAreRequests == Watcher \in Requests /\ Watcher \in Ends /\ Watcher \notin Applies /\ Watcher \notin Starts
  BY JobsAssumption, ServiceAssumption DEF Requests

LEMMA InitEndInv == JInit => EndInv
  BY EndsAreRequests DEF JInit, Init, EndInv

\* Only a spawned core comes to life.
LEMMA WantedBefore ==
  ASSUME IInv, [Next]_vars, NEW k \in Cores
  PROVE  /\ k > spawned' => k > spawned
         /\ Wanted(k)' => Wanted(k) \/ k > spawned
<1>1. MaxCores \in Nat /\ spawned \in Nat /\ Cores \subseteq Nat
  BY ServiceAssumption DEF IInv, TypeOK, Cores
<1>2. CASE UNCHANGED vars
  BY <1>2 DEF vars, coreVars, Wanted, Alive
<1>3. ASSUME NEW r \in Requests, Accept(r) \/ Handler(r)
      PROVE  /\ k > spawned' => k > spawned
             /\ Wanted(k)' => Wanted(k) \/ k > spawned
  <2>1. CASE Spawn(r)
    BY <1>1, <2>1 DEF Spawn, IInv, TypeOK, Wanted, Alive
  <2>2. CASE Kill(r)
    BY <2>2 DEF Kill, Wanted, Alive
  <2>3. CASE UNCHANGED coreVars
    BY <2>3 DEF coreVars, Wanted, Alive
  <2>4. Spawn(r) \/ Kill(r) \/ UNCHANGED coreVars
    BY <1>3 DEF Handler, Accept, Check, Begin, Load, SpawnFails, Publish, Finish
  <2> QED BY <2>1, <2>2, <2>3, <2>4
<1>4. ASSUME NEW j \in Cores, Core(j) \/ Reap(j) \/ Collect(j)
      PROVE  spawned' = spawned /\ (Wanted(k)' => Wanted(k))
  BY <1>4 DEF Core, Serve, Exit, Crash, End, Reap, Collect, Become, Wanted, Alive, IInv, TypeOK
<1> QED BY <1>2, <1>3, <1>4 DEF Next

\* The watcher's kill takes the child; every other core it did not see.
LEMMA KillSeesAll ==
  ASSUME IInv, EndInv, OnCore(Watcher), pc[Watcher] = "kill", NEW k \in Cores,
         k > spawned' \/ Wanted(k)'
  PROVE  k \in unseen'
<1>1. Kill(Watcher) /\ unseen' = Unseen
  BY DEF OnCore, Handler, Check, Begin, Load, Spawn, SpawnFails, Publish, Finish, Goto
<1>2. CASE k > spawned
  BY <1>1, <1>2 DEF Unseen
<1>3. CASE Wanted(k)'
  <2>1. Wanted(k) /\ k # child
    BY <1>1, <1>3, NoneIsNoCore DEF Kill, Wanted, Alive
  <2> QED BY <1>1, <2>1 DEF IInv, CoreInHand, Unseen
<1> QED BY <1>1, <1>2, <1>3 DEF Kill

\* What a step may do to the watcher, the service's end and the history.
LEMMA EndStep ==
  ASSUME IInv, EndInv, [JNext]_jvars
  PROVE  \/ OnCore(Watcher) /\ pc[Watcher] = "kill" /\ pc'[Watcher] = "done"
            /\ UNCHANGED <<service, invited>>
         \/ /\ UNCHANGED <<unseen, invited>>
            /\ pc'[Watcher] = pc[Watcher] \/ (pc[Watcher] = "new" /\ pc'[Watcher] = "kill")
            /\ \/ service' = service \/ service # "up"
               \/ Interrupt \in invited \/ pc[Watcher] = "done"
<1> DEFINE Quiet == /\ UNCHANGED <<unseen, invited>>
                    /\ pc'[Watcher] = pc[Watcher] \/ (pc[Watcher] = "new" /\ pc'[Watcher] = "kill")
                    /\ \/ service' = service \/ service # "up"
                       \/ Interrupt \in invited \/ pc[Watcher] = "done"
<1>1. CASE UNCHANGED jvars
  BY <1>1 DEF jvars, vars
<1>2. ASSUME NEW r \in Requests, Accept(r), UNCHANGED <<service, unseen, invited>>
      PROVE  Quiet
  BY <1>2, EndsAreRequests DEF Accept, Goto, IInv, TypeOK
<1>3. ASSUME UNCHANGED <<vars, unseen, invited>>, 
             service' = service \/ service # "up" \/ Interrupt \in invited \/ pc[Watcher] = "done"
      PROVE  Quiet
  BY <1>3 DEF vars
<1>4. CASE Inside /\ UNCHANGED invited
  <2>1. ASSUME NEW r \in Requests, OnCore(r), r # Watcher PROVE Quiet
    <3>1. pc'[Watcher] = pc[Watcher]
      BY <2>1, EndsAreRequests
      DEF OnCore, Handler, Check, Kill, Begin, Load, Spawn, SpawnFails, Publish, Finish,
          Goto, IInv, TypeOK
    <3> QED BY <1>4, <2>1, <3>1 DEF OnCore
  <2>2. ASSUME OnCore(Watcher)
        PROVE  pc[Watcher] = "kill" /\ pc'[Watcher] = "done" /\ UNCHANGED <<service, invited>>
    <3>1. Kill(Watcher)
      BY <2>2 DEF OnCore, Handler, Check, Begin, Load, Spawn, SpawnFails, Publish, Finish,
                  Goto, EndInv
    <3> QED BY <1>4, <2>2, <3>1, EndsAreRequests DEF Kill, Goto, OnCore, IInv, TypeOK
  <2>3. ASSUME NEW k \in Cores, Forget(k) PROVE Quiet
    BY <1>4, <2>3 DEF Forget, Reap, Collect, Become
  <2>4. ASSUME NEW r \in Runners, Matrix(r) PROVE Quiet
    BY <1>3, <1>4, <2>4 DEF Matrix, NextCase, CaseFails, LastCase, Listens, Probe, Terminate
  <2>5. ASSUME NEW r \in Kicks, JobEnds(r) PROVE Quiet
    BY <1>3, <1>4, <2>5 DEF JobEnds
  <2>6. ASSUME NEW t \in Tests, TestEnds(t) PROVE Quiet
    <3>1. t \in Requests
      BY JobsAssumption DEF Requests
    <3> QED BY <1>2, <1>3, <1>4, <2>6, <3>1 DEF TestEnds
  <2>7. ASSUME ShutDown PROVE Quiet
    <3>1. Interrupt \in Requests
      BY JobsAssumption, ServiceAssumption DEF Requests
    <3> QED BY <1>2, <1>4, <2>7, <3>1 DEF ShutDown
  <2>8. ASSUME WatcherShutsDown \/ Leave PROVE Quiet
    BY <1>3, <1>4, <2>8 DEF WatcherShutsDown, Leave
  <2> QED BY <1>4, <2>1, <2>2, <2>3, <2>4, <2>5, <2>6, <2>7, <2>8 DEF Inside
<1>5. CASE Outside /\ UNCHANGED invited
  <2>1. ASSUME NEW r \in Requests \cup Kicks, Request(r) PROVE Quiet
    <3>1. CASE r \in Requests \ (Ends \cup Tests) /\ Accept(r) /\ UNCHANGED <<service, unseen, jobVars>>
      BY <1>2, <1>5, <3>1
    <3>2. CASE TestBegins(r) \/ Kick(r)
      BY <1>3, <1>5, <3>2 DEF TestBegins, Kick
    <3> QED BY <2>1, <3>1, <3>2 DEF Request
  <2>2. ASSUME NEW k \in Cores, Core(k), UNCHANGED <<service, unseen, jobVars>> PROVE Quiet
    BY <1>5, <2>2 DEF Core, Serve, Exit, Crash, End, Become
  <2>3. ASSUME NEW r \in Runners, TestCore(r) PROVE Quiet
    BY <1>3, <1>5, <2>3 DEF TestCore
  <2>4. ASSUME Interrupted, Interrupt \in invited PROVE Quiet
    BY <1>3, <1>5, <2>4 DEF Interrupted
  <2>5. ASSUME ParentGone PROVE Quiet
    BY <1>2, <1>5, <2>5, EndsAreRequests DEF ParentGone
  <2> QED BY <1>5, <2>1, <2>2, <2>3, <2>4, <2>5 DEF Outside
<1> QED BY <1>1, <1>4, <1>5 DEF JNext

LEMMA StepEndInv ==
  ASSUME IInv, EndInv, [JNext]_jvars
  PROVE  EndInv'
<1>1. [Next]_vars
  BY JobsStep
<1>2. CASE OnCore(Watcher) /\ pc[Watcher] = "kill" /\ pc'[Watcher] = "done" /\ UNCHANGED <<service, invited>>
  BY <1>2, KillSeesAll DEF EndInv
<1>3. CASE /\ UNCHANGED <<unseen, invited>>
           /\ pc'[Watcher] = pc[Watcher] \/ (pc[Watcher] = "new" /\ pc'[Watcher] = "kill")
           /\ \/ service' = service \/ service # "up"
              \/ Interrupt \in invited \/ pc[Watcher] = "done"
  <2>1. pc'[Watcher] = "done" => \A k \in Cores : k > spawned' \/ Wanted(k)' => k \in unseen'
    BY <1>1, <1>3, WantedBefore DEF EndInv
  <2> QED BY <1>3, <2>1 DEF EndInv
<1> QED BY <1>2, <1>3, EndStep

\* A service that ends with its parent leaves no core it had hold of, whatever
\* requests come in the meantime (service.go:152-163).
THEOREM LeavesNoCoreBehind == JSpec => []LeavesNoCore
<1>1. JInit => IInv /\ EndInv
  BY InitIInv, InitEndInv DEF JInit
<1>2. IInv /\ EndInv /\ [JNext]_jvars => (IInv /\ EndInv)'
  BY StepIInv, JobsStep, StepEndInv
<1>3. EndInv => LeavesNoCore
  BY DEF EndInv, LeavesNoCore
<1> QED BY <1>1, <1>2, <1>3, PTL DEF JSpec


(***************************************************************************)
(* The jobs.  A kick that is under way has the flag of its kind, and is    *)
(* the last that was started: so it is alone.                              *)
(***************************************************************************)
JobStates == {"new", "scan", "case", "listen", "probe", "terminate", "end", "over"}

FlagTypes ==
  /\ job \in [Jobs -> JobStates]
  /\ running \in [Kinds -> BOOLEAN]
  /\ shown \in [Kinds -> Kicks \cup {None}]
  /\ last \in [Kinds -> Kicks \cup {None}]

LastKick(k) == last[k] \in Kicks /\ Kind(last[k]) = k

FlagInv ==
  /\ \A r \in Kicks : InProgress(r) => running[Kind(r)] /\ last[Kind(r)] = r
  /\ \A k \in Kinds : running[k] => LastKick(k) /\ InProgress(last[k])
  /\ \A k \in Kinds : shown[k] # None => shown[k] = last[k] /\ ~running[k]

JobInv == FlagTypes /\ FlagInv

\* Where a matrix has a port, and may have a core.
AtCase == {"listen", "probe", "terminate"}

MatrixTypes ==
  /\ case \in [Runners -> Nat]
  /\ port \in [Runners -> Ports \cup {None}]
  /\ testCore \in [Runners -> {"none", "up", "listening", "dead"}]
  /\ bound \in [Ports -> Runners \cup {None}]
  /\ passed \in [Runners -> SUBSET (Nat \X Runners)]

\* A port is bound by the core of the matrix that has it, in one of its cases.
BoundInv ==
  /\ \A r \in Runners : port[r] # None <=> job[r] \in AtCase
  /\ \A r \in Runners : testCore[r] # "none" => job[r] \in AtCase
  /\ \A p \in Ports, r \in Runners : bound[p] = r => port[r] = p /\ testCore[r] = "listening"

MatrixInv == MatrixTypes /\ BoundInv /\ VerdictIsOwn


LEMMA WhoIsWho ==
  /\ Tests \cap Kicks = {} /\ ScanKicks \cap Runners = {} /\ ScanKicks \cap TestKicks = {}
  /\ None \notin Kicks /\ None \notin Runners /\ None \notin Ports
  /\ Runners \subseteq Jobs /\ Kicks \subseteq Jobs
  /\ \A r \in Kicks : Kind(r) \in Kinds
  /\ \A r \in Kicks \cap Runners : Kind(r) = "test"
  BY JobsAssumption DEF Jobs, Kicks, Runners, Requests, Kind, Kinds

\* What a step of the service can mean to the jobs.
LEMMA JobSteps ==
  ASSUME [JNext]_jvars
  PROVE  \/ UNCHANGED jobVars
         \/ \E r \in Runners : Matrix(r) \/ TestCore(r)
         \/ \E r \in Kicks : Kick(r) \/ JobEnds(r)
         \/ \E t \in Tests : TestBegins(t) \/ TestEnds(t)
<1>1. CASE UNCHANGED jvars
  BY <1>1 DEF jvars
<1>2. CASE Inside
  BY <1>2 DEF Inside, OnCore, Forget, ShutDown, WatcherShutsDown, Leave, jobVars
<1>3. CASE Outside
  <2>1. CASE \E r \in Requests \cup Kicks : Request(r)
    BY <2>1 DEF Request
  <2>2. CASE Interrupted \/ ParentGone
    BY <2>2 DEF Interrupted, ParentGone
  <2> QED BY <1>3, <2>1, <2>2 DEF Outside
<1> QED BY <1>1, <1>2, <1>3 DEF JNext

LEMMA InitJobInv == JInit => JobInv
<1> SUFFICES ASSUME JInit PROVE JobInv
  OBVIOUS
<1>1. FlagTypes
  BY DEF JInit, FlagTypes, JobStates
<1>2. \A r \in Kicks : ~InProgress(r)
  BY WhoIsWho DEF JInit, InProgress
<1>3. \A k \in Kinds : ~running[k] /\ shown[k] = None
  BY DEF JInit
<1> QED BY <1>1, <1>2, <1>3 DEF JobInv, FlagInv

\* Of the jobs, what a matrix or a test in a request does only moves its own.
LEMMA MatrixMoves ==
  ASSUME NEW r \in Runners, Matrix(r)
  PROVE  /\ \E to \in JobStates \ {"new", "scan", "over"} : job' = [job EXCEPT ![r] = to]
         /\ job[r] \in AtCase \cup {"case"}
         /\ UNCHANGED flagVars
  BY DEF Matrix, NextCase, CaseFails, LastCase, Listens, Probe, Terminate, Step, JobStates, AtCase

\* A step that moves a job and leaves the flags alone keeps the invariant if it
\* is not a kick's, or does not end one.
LEMMA MoveKeepsJobInv ==
  ASSUME JobInv, NEW r \in Jobs, NEW to \in JobStates,
         job' = [job EXCEPT ![r] = to], UNCHANGED flagVars,
         r \in Kicks => (InProgress(r) <=> to \notin {"new", "over"})
  PROVE  JobInv'
<1>1. FlagTypes'
  BY DEF JobInv, FlagTypes, flagVars
<1>2. \A s \in Kicks : InProgress(s)' <=> InProgress(s)
  BY WhoIsWho DEF JobInv, FlagTypes, InProgress
<1>3. FlagInv'
  BY <1>2 DEF JobInv, FlagInv, LastKick, flagVars
<1> QED BY <1>1, <1>3 DEF JobInv

LEMMA KickKeepsJobInv ==
  ASSUME JobInv, NEW r \in Kicks, Kick(r)
  PROVE  JobInv'
<1>1. r \in Jobs /\ Kind(r) \in Kinds /\ r # None
  BY WhoIsWho
<1>2. CASE running[Kind(r)]
  <2>1. job' = [job EXCEPT ![r] = "over"] /\ job[r] = "new" /\ UNCHANGED flagVars
    BY <1>2 DEF Kick, Step
  <2> QED BY <1>1, <2>1, MoveKeepsJobInv DEF JobStates, InProgress
<1>3. CASE ~running[Kind(r)]
  <2>1. /\ First(r) \in {"scan", "case"}
        /\ job' = [job EXCEPT ![r] = First(r)]
        /\ running' = [running EXCEPT ![Kind(r)] = TRUE]
        /\ shown' = [shown EXCEPT ![Kind(r)] = None]
        /\ last' = [last EXCEPT ![Kind(r)] = r]
    BY <1>3 DEF Kick, Step, First
  <2>2. FlagTypes'
    BY <1>1, <2>1 DEF JobInv, FlagTypes, JobStates
  <2>3. InProgress(r)' /\ \A s \in Kicks \ {r} : InProgress(s)' <=> InProgress(s)
    BY <1>1, <2>1, WhoIsWho DEF JobInv, FlagTypes, InProgress
  <2>4. /\ running'[Kind(r)] /\ shown'[Kind(r)] = None /\ last'[Kind(r)] = r
        /\ \A k \in Kinds \ {Kind(r)} :
             running'[k] = running[k] /\ shown'[k] = shown[k] /\ last'[k] = last[k]
    BY <1>1, <2>1 DEF JobInv, FlagTypes
  <2>5. ASSUME NEW s \in Kicks, InProgress(s)'
        PROVE  running'[Kind(s)] /\ last'[Kind(s)] = s
    <3>1. CASE s = r
      BY <2>4, <3>1
    <3>2. CASE s # r
      <4>1. running[Kind(s)] /\ last[Kind(s)] = s /\ Kind(s) \in Kinds
        BY <2>3, <2>5, <3>2, WhoIsWho DEF JobInv, FlagInv
      <4>2. Kind(s) # Kind(r)
        BY <1>3, <4>1
      <4> QED BY <2>4, <4>1, <4>2
    <3> QED BY <3>1, <3>2
  <2>6. ASSUME NEW k \in Kinds, running'[k]
        PROVE  LastKick(k)' /\ InProgress(last[k])'
    <3>1. CASE k = Kind(r)
      BY <2>3, <2>4, <3>1 DEF LastKick
    <3>2. CASE k # Kind(r)
      <4>1. LastKick(k) /\ InProgress(last[k])
        BY <2>4, <2>6, <3>2 DEF JobInv, FlagInv
      <4>2. last[k] # r /\ last'[k] = last[k]
        BY <2>4, <3>2, <4>1 DEF LastKick
      <4> QED BY <2>1, <2>3, <4>1, <4>2 DEF LastKick, InProgress
    <3> QED BY <3>1, <3>2
  <2>7. \A k \in Kinds : shown'[k] # None => shown'[k] = last'[k] /\ ~running'[k]
    BY <2>4 DEF JobInv, FlagInv
  <2>8. FlagInv'
    BY <2>5, <2>6, <2>7 DEF FlagInv
  <2> QED BY <2>2, <2>8 DEF JobInv
<1> QED BY <1>2, <1>3

LEMMA EndKeepsJobInv ==
  ASSUME JobInv, NEW r \in Kicks, JobEnds(r)
  PROVE  JobInv'
<1>1. r \in Jobs /\ Kind(r) \in Kinds /\ r # None
  BY WhoIsWho
<1>2. /\ job[r] \in {"scan", "end"}
      /\ job' = [job EXCEPT ![r] = "over"]
      /\ running' = [running EXCEPT ![Kind(r)] = FALSE]
      /\ shown' = [shown EXCEPT ![Kind(r)] = r]
      /\ last' = last
  BY DEF JobEnds, Step
<1>3. FlagTypes'
  BY <1>1, <1>2 DEF JobInv, FlagTypes, JobStates
<1>4. running[Kind(r)] /\ last[Kind(r)] = r
  BY <1>2 DEF JobInv, FlagInv, InProgress
<1>5. ~InProgress(r)' /\ \A s \in Kicks \ {r} : InProgress(s)' <=> InProgress(s)
  BY <1>1, <1>2, WhoIsWho DEF JobInv, FlagTypes, InProgress
<1>6. /\ ~running'[Kind(r)] /\ shown'[Kind(r)] = r
      /\ \A k \in Kinds \ {Kind(r)} : running'[k] = running[k] /\ shown'[k] = shown[k]
  BY <1>1, <1>2 DEF JobInv, FlagTypes
<1>7. ASSUME NEW s \in Kicks, InProgress(s)'
      PROVE  running'[Kind(s)] /\ last'[Kind(s)] = s
  <2>1. s # r /\ InProgress(s)
    BY <1>5, <1>7
  <2>2. running[Kind(s)] /\ last[Kind(s)] = s /\ Kind(s) \in Kinds
    BY <2>1, WhoIsWho DEF JobInv, FlagInv
  <2>3. Kind(s) # Kind(r)
    BY <1>4, <2>1, <2>2
  <2> QED BY <1>2, <1>6, <2>2, <2>3
<1>8. ASSUME NEW k \in Kinds, running'[k]
      PROVE  LastKick(k)' /\ InProgress(last[k])'
  <2>1. k # Kind(r)
    BY <1>6, <1>8
  <2>2. LastKick(k) /\ InProgress(last[k])
    BY <1>6, <1>8, <2>1 DEF JobInv, FlagInv
  <2>3. last[k] # r
    BY <2>1, <2>2 DEF LastKick
  <2> QED BY <1>2, <1>5, <2>2, <2>3 DEF LastKick, InProgress
<1>9. \A k \in Kinds : shown'[k] # None => shown'[k] = last'[k] /\ ~running'[k]
  BY <1>2, <1>4, <1>6 DEF JobInv, FlagInv
<1>10. FlagInv'
  BY <1>7, <1>8, <1>9 DEF FlagInv
<1> QED BY <1>3, <1>10 DEF JobInv

LEMMA StepJobInv ==
  ASSUME JobInv, [JNext]_jvars
  PROVE  JobInv'
<1>1. CASE UNCHANGED jobVars
  BY <1>1 DEF JobInv, FlagTypes, FlagInv, LastKick, InProgress, jobVars, flagVars
<1>2. CASE \E r \in Runners : Matrix(r)
  <2> PICK r \in Runners : Matrix(r)
    BY <1>2
  <2>1. InProgress(r) /\ r \in Jobs
    BY MatrixMoves, WhoIsWho DEF InProgress, AtCase
  <2> QED BY <2>1, MatrixMoves, MoveKeepsJobInv
<1>3. CASE \E r \in Runners : TestCore(r)
  BY <1>3 DEF TestCore, JobInv, FlagTypes, FlagInv, LastKick, InProgress, flagVars
<1>4. CASE \E r \in Kicks : Kick(r) \/ JobEnds(r)
  BY <1>4, KickKeepsJobInv, EndKeepsJobInv
<1>5. CASE \E t \in Tests : TestBegins(t) \/ TestEnds(t)
  <2> PICK t \in Tests : TestBegins(t) \/ TestEnds(t)
    BY <1>5
  <2>1. /\ \E to \in JobStates : job' = [job EXCEPT ![t] = to]
        /\ UNCHANGED flagVars
    BY DEF TestBegins, TestEnds, Step, JobStates
  <2>2. t \in Jobs /\ t \notin Kicks
    BY WhoIsWho DEF Jobs
  <2> QED BY <2>1, <2>2, MoveKeepsJobInv
<1> QED BY <1>1, <1>2, <1>3, <1>4, <1>5, JobSteps

\* The status of scans and tests that the UI polls is true, however requests to
\* start them overlap (service.go:505-583, 587-645).
THEOREM StatusIsTrue == JSpec => []JobStatusTrue
<1>1. JobInv /\ [JNext]_jvars => JobInv'
  BY StepJobInv
<1>2. JobInv => JobStatusTrue
  BY DEF JobInv, FlagTypes, FlagInv, LastKick, JobStatusTrue
<1> QED BY <1>1, <1>2, InitJobInv, PTL DEF JSpec


LEMMA InitMatrixInv == JInit => MatrixInv
<1> SUFFICES ASSUME JInit PROVE MatrixInv
  OBVIOUS
<1>1. MatrixTypes
  BY DEF JInit, MatrixTypes
<1>2. /\ \A r \in Runners : port[r] = None /\ testCore[r] = "none" /\ job[r] = "new" /\ passed[r] = {}
      /\ \A p \in Ports : bound[p] = None
  BY WhoIsWho DEF JInit
<1>3. BoundInv
  BY <1>2, WhoIsWho DEF BoundInv, AtCase
<1>4. VerdictIsOwn
  BY <1>2 DEF VerdictIsOwn
<1> QED BY <1>1, <1>3, <1>4 DEF MatrixInv

\* While no test came in a request, only one matrix can have a core listening.
LEMMA MatrixIsAlone ==
  ASSUME JobInv, BoundInv, \A t \in Tests : job[t] = "new",
         NEW q \in Runners, testCore[q] = "listening", NEW r \in Runners, job[r] \in AtCase
  PROVE  q = r
<1>1. job[q] \in AtCase
  BY DEF BoundInv
<1>2. q \in Kicks /\ r \in Kicks /\ InProgress(q) /\ InProgress(r)
  BY <1>1 DEF Runners, Kicks, AtCase, InProgress
<1>3. last[Kind(q)] = q /\ last[Kind(r)] = r /\ Kind(q) = Kind(r)
  BY <1>2, WhoIsWho DEF JobInv, FlagInv
<1> QED BY <1>3

LEMMA MatrixTypesStep ==
  ASSUME MatrixTypes, BoundInv, NEW r \in Runners, Matrix(r) \/ TestCore(r)
  PROVE  MatrixTypes'
<1> USE DEF MatrixTypes
<1>1. CASE NextCase(r)
  BY <1>1 DEF NextCase
<1>2. CASE CaseFails(r) \/ LastCase(r) \/ Listens(r)
  BY <1>2 DEF CaseFails, LastCase, Listens, matrixVars
<1>3. CASE Probe(r)
  <2>1. UNCHANGED <<case, port, testCore, bound>>
    BY <1>3 DEF Probe
  <2>2. CASE UNCHANGED passed
    BY <2>1, <2>2
  <2>3. CASE /\ bound[port[r]] # None
             /\ passed' = [passed EXCEPT ![r] = @ \cup {<<case[r], bound[port[r]]>>}]
    <3>1. port[r] \in Ports
      BY <1>3 DEF Probe, Step, BoundInv, AtCase
    <3>2. <<case[r], bound[port[r]]>> \in Nat \X Runners
      BY <2>3, <3>1
    <3> QED BY <2>1, <2>3, <3>2
  <2> QED BY <1>3, <2>2, <2>3 DEF Probe
<1>4. CASE Terminate(r)
  <2>1. /\ case' = [case EXCEPT ![r] = @ + 1]
        /\ port' = [port EXCEPT ![r] = None]
        /\ testCore' = [testCore EXCEPT ![r] = "none"]
        /\ bound' = bound \/ bound' = [bound EXCEPT ![port[r]] = None]
        /\ passed' = passed
    BY <1>4 DEF Terminate
  <2>2. case' \in [Runners -> Nat]
    BY <2>1
  <2>3. bound' \in [Ports -> Runners \cup {None}]
    BY <2>1
  <2> QED BY <2>1, <2>2, <2>3
<1>5. CASE TestCore(r)
  <2>1. UNCHANGED <<case, port, passed>>
    BY <1>5 DEF TestCore
  <2>2. testCore' \in [Runners -> {"none", "up", "listening", "dead"}]
    BY <1>5 DEF TestCore
  <2>3. bound' \in [Ports -> Runners \cup {None}]
    <3>1. \/ bound' = bound
          \/ \E s \in Runners \cup {None} : bound' = [bound EXCEPT ![port[r]] = s]
      BY <1>5 DEF TestCore
    <3> QED BY <3>1
  <2> QED BY <2>1, <2>2, <2>3
<1> QED BY <1>1, <1>2, <1>3, <1>4, <1>5 DEF Matrix

LEMMA BoundStep ==
  ASSUME JobInv, MatrixTypes, BoundInv, NEW r \in Runners, Matrix(r) \/ TestCore(r)
  PROVE  BoundInv'
<1>1. \A s \in Runners \ {r} : job'[s] = job[s]
  BY WhoIsWho DEF Matrix, NextCase, CaseFails, LastCase, Listens, Probe, Terminate, TestCore,
                  Step, JobInv, FlagTypes
<1>2. r \in Jobs /\ None \notin Runners /\ None \notin Ports
  BY WhoIsWho
<1> USE DEF MatrixTypes, BoundInv, AtCase, JobInv, FlagTypes
<1>3. CASE NextCase(r)
  <2>1. /\ job[r] = "case" /\ job' = [job EXCEPT ![r] = "listen"]
        /\ testCore' = [testCore EXCEPT ![r] = "up"]
        /\ bound' = bound
    BY <1>3 DEF NextCase, Step
  <2>2. PICK p \in Ports : bound[p] = None /\ port' = [port EXCEPT ![r] = p]
    BY <1>3 DEF NextCase
  <2>3. \A q \in Ports : bound[q] # r
    BY <2>1
  <2> QED BY <1>1, <1>2, <2>1, <2>2, <2>3
<1>4. CASE CaseFails(r) \/ LastCase(r) \/ Listens(r) \/ Probe(r)
  <2>1. /\ UNCHANGED <<port, testCore, bound>>
        /\ job'[r] \in AtCase <=> job[r] \in AtCase
    BY <1>2, <1>4 DEF CaseFails, LastCase, Listens, Probe, Step, matrixVars
  <2> QED BY <1>1, <2>1
<1>5. CASE Terminate(r)
  <2>1. /\ job' = [job EXCEPT ![r] = "case"]
        /\ port' = [port EXCEPT ![r] = None]
        /\ testCore' = [testCore EXCEPT ![r] = "none"]
        /\ bound' = IF Owns(r) THEN [bound EXCEPT ![port[r]] = None] ELSE bound
    BY <1>5 DEF Terminate, Step
  <2>2. \A p \in Ports : bound'[p] # r /\ (bound'[p] # None => bound'[p] = bound[p])
    BY <1>2, <2>1 DEF Owns
  <2> QED BY <1>1, <1>2, <2>1, <2>2
<1>6. CASE TestCore(r)
  <2>1. UNCHANGED <<job, port>>
    BY <1>6 DEF TestCore
  <2>2. CASE /\ testCore[r] = "up"
             /\ bound[port[r]] = None
             /\ testCore' = [testCore EXCEPT ![r] = "listening"]
             /\ bound' = [bound EXCEPT ![port[r]] = r]
    <3>1. port[r] \in Ports
      BY <2>2
    <3> QED BY <1>2, <2>1, <2>2, <3>1
  <2>3. CASE /\ testCore[r] \in {"up", "listening"}
             /\ testCore' = [testCore EXCEPT ![r] = "dead"]
             /\ bound' = IF Owns(r) THEN [bound EXCEPT ![port[r]] = None] ELSE bound
    <3>1. \A p \in Ports : bound'[p] # r /\ (bound'[p] # None => bound'[p] = bound[p])
      BY <1>2, <2>3 DEF Owns
    <3> QED BY <1>2, <2>1, <2>3, <3>1
  <2> QED BY <1>6, <2>2, <2>3 DEF TestCore
<1> QED BY <1>3, <1>4, <1>5, <1>6 DEF Matrix

LEMMA VerdictStep ==
  ASSUME JobInv, MatrixInv, NEW r \in Runners, Matrix(r) \/ TestCore(r)
  PROVE  VerdictIsOwn'
<1> SUFFICES ASSUME \A t \in Tests : job'[t] = "new",
                    NEW s \in Runners, NEW verdict \in passed'[s]
             PROVE  verdict[2] = s
  BY DEF VerdictIsOwn
<1>1. \A t \in Tests : job[t] = "new"
  <2>1. CASE TestCore(r)
    BY <2>1 DEF TestCore
  <2>2. CASE Matrix(r)
    <3>1. PICK to \in JobStates \ {"new", "scan", "over"} : job' = [job EXCEPT ![r] = to]
      BY <2>2, MatrixMoves
    <3>2. r \notin Tests
      BY <3>1, WhoIsWho DEF JobInv, FlagTypes
    <3> QED BY <3>1, <3>2, WhoIsWho DEF Jobs, JobInv, FlagTypes
  <2> QED BY <2>1, <2>2
<1>2. \A q \in Runners : \A v \in passed[q] : v[2] = q
  BY <1>1 DEF MatrixInv, VerdictIsOwn
<1>3. CASE passed' = passed
  BY <1>2, <1>3
<1>4. CASE /\ Probe(r) /\ bound[port[r]] # None
           /\ passed' = [passed EXCEPT ![r] = @ \cup {<<case[r], bound[port[r]]>>}]
  <2>1. job[r] \in AtCase
    BY <1>4 DEF Probe, Step, AtCase
  <2>2. port[r] \in Ports /\ bound[port[r]] \in Runners
    BY <1>4, <2>1 DEF MatrixInv, MatrixTypes, BoundInv
  <2>3. testCore[bound[port[r]]] = "listening"
    BY <2>2 DEF MatrixInv, BoundInv
  <2>4. bound[port[r]] = r
    BY <1>1, <2>1, <2>2, <2>3, MatrixIsAlone DEF MatrixInv
  <2> QED BY <1>2, <1>4, <2>4 DEF MatrixInv, MatrixTypes
<1> QED
  BY <1>3, <1>4 DEF Matrix, NextCase, CaseFails, LastCase, Listens, Probe, Terminate, TestCore,
                    matrixVars

LEMMA StepMatrixInv ==
  ASSUME JobInv, MatrixInv, [JNext]_jvars
  PROVE  MatrixInv'
<1>1. CASE UNCHANGED jobVars
  BY <1>1 DEF MatrixInv, MatrixTypes, BoundInv, VerdictIsOwn, jobVars, matrixVars
<1>2. CASE \E r \in Runners : Matrix(r) \/ TestCore(r)
  BY <1>2, MatrixTypesStep, BoundStep, VerdictStep DEF MatrixInv
<1>3. CASE \/ \E r \in Kicks : Kick(r) \/ JobEnds(r)
           \/ \E t \in Tests : TestBegins(t) \/ TestEnds(t)
  <2>1. /\ UNCHANGED matrixVars
        /\ \E r \in Jobs, to \in JobStates \ ({"new"} \cup AtCase) :
             job[r] \notin AtCase /\ job' = [job EXCEPT ![r] = to]
    BY <1>3, WhoIsWho DEF Kick, JobEnds, TestBegins, TestEnds, Step, First, Jobs, JobStates, AtCase
  <2>2. /\ \A r \in Runners : job'[r] \in AtCase <=> job[r] \in AtCase
        /\ \A t \in Tests : job'[t] = "new" => job[t] = "new"
    BY <2>1, WhoIsWho DEF JobInv, FlagTypes, Jobs
  <2> QED BY <2>1, <2>2 DEF MatrixInv, MatrixTypes, BoundInv, VerdictIsOwn, matrixVars
<1> QED BY <1>1, <1>2, <1>3, JobSteps

\* A method of the matrix passes because of its own core: no two tests in the
\* background run at once, and a port listens by a core whose matrix is at that
\* case (matrix.go:98-160, service.go:587-645).
THEOREM VerdictsAreOwn == JSpec => []VerdictIsOwn
<1>1. JobInv /\ [JNext]_jvars => JobInv'
  BY StepJobInv
<1>2. JobInv /\ MatrixInv /\ [JNext]_jvars => MatrixInv'
  BY StepMatrixInv
<1>3. MatrixInv => VerdictIsOwn
  BY DEF MatrixInv
<1> QED BY <1>1, <1>2, <1>3, InitJobInv, InitMatrixInv, PTL DEF JSpec
=============================================================================
