--------------------------- MODULE ControlService ---------------------------
(***************************************************************************)
(* The control service's hold on the core process                          *)
(* (internal/service/service.go): HTTP handlers start, stop and restart    *)
(* it concurrently, each core loads the configuration by itself when it    *)
(* comes up, and a goroutine per core waits for its exit.                  *)
(*                                                                         *)
(* A handler is a request; those that write the configuration and restart  *)
(* a running core (POST /v1/config, /v1/apply, /v1/test with apply=1) are  *)
(* applies, and the configuration goes by the name of the apply that wrote *)
(* it.  ConfigFile has the steps of that write.                            *)
(***************************************************************************)
EXTENDS Integers

CONSTANTS
  Starts,    \* the POST /v1/start requests
  Stops,     \* the POST /v1/stop requests, and the ends of the service
  Ends,      \* the goroutines that end the service
  Applies,   \* the requests that write the configuration
  None,      \* no process, no request
  MaxCores   \* bound: core processes spawned

Requests == Starts \cup Stops \cup Applies

ASSUME ServiceAssumption ==
  /\ Ends \subseteq Stops
  /\ None \notin Requests
  /\ MaxCores \in Nat \ {0}
  /\ None \notin 1 .. MaxCores
  /\ Starts \cap Stops = {} /\ Starts \cap Applies = {} /\ Stops \cap Applies = {}

Cores == 1 .. MaxCores

VARIABLES
  pc,        \* where each request's handler is
  starting,  \* controlService.starting
  child,     \* controlService.child
  spawning,  \* the core a handler has spawned and not yet published
  spawned,   \* how many cores were spawned
  core,      \* each core process
  signalled, \* the cores that stopCore killed and that have not died yet
  loaded,    \* the configuration each core came up with
  file,      \* the configuration on disk, by the apply that wrote it
  raced      \* history: an apply has overlapped a start or an apply

serviceVars == <<starting, child>>
coreVars    == <<spawned, core, signalled, loaded>>
vars        == <<pc, serviceVars, spawning, coreVars, file, raced>>

PCs == {"new", "check", "kill", "begin", "load", "spawn", "publish", "finish", "done"}

\* "exited" and "crashed" tell a normal exit from one by a signal; "reaped":
\* Wait has set ProcessState; "collected": its goroutine has ended.
CoreStates == {"unborn", "up", "serving", "exited", "crashed", "reaped",
               "reaped_crashed", "collected"}

TypeOK ==
  /\ pc \in [Requests -> PCs]
  /\ starting \in BOOLEAN
  /\ child \in Cores \cup {None}
  /\ spawning \in [Requests -> Cores \cup {None}]
  /\ spawned \in 0 .. MaxCores
  /\ core \in [Cores -> CoreStates]
  /\ signalled \in SUBSET Cores
  /\ loaded \in [Cores -> Applies \cup {None}]
  /\ file \in Applies \cup {None}
  /\ raced \in BOOLEAN

\* The service is up; its first core runs already, or does not.
Init ==
  /\ pc = [r \in Requests |-> "new"]
  /\ starting = FALSE
  /\ child \in {None, 1}
  /\ spawning = [r \in Requests |-> None]
  /\ spawned = IF child = None THEN 0 ELSE 1
  /\ core = [k \in Cores |-> IF k = child THEN "serving" ELSE "unborn"]
  /\ signalled = {}
  /\ loaded = [k \in Cores |-> None]
  /\ file = None
  /\ raced = FALSE

Goto(r, from, to) ==
  /\ pc[r] = from
  /\ pc' = [pc EXCEPT ![r] = to]

\* status().Running, and startCore's check: there is a child, and Wait has not
\* said that it exited (of a crash, Exited() says no).
Running == child # None /\ core[child] # "reaped"

-----------------------------------------------------------------------------
(* The handlers.                                                           *)

Busy(r) == pc[r] \notin {"new", "done"}

\* Of two requests that may start a core one is an apply.
Races(r, s) == r \in Applies \/ (s \in Applies /\ r \notin Stops)

\* A request is accepted; an apply writes the configuration first.  The ends of
\* the service call stopCore without asking for the status.
Accept(r) ==
  /\ Goto(r, "new", IF r \in Ends THEN "kill" ELSE "check")
  /\ file' = IF r \in Applies THEN r ELSE file
  /\ raced' = (raced \/ \E s \in Requests \ Stops : Busy(s) /\ Races(r, s))
  /\ UNCHANGED <<serviceVars, spawning, coreVars>>

\* Mutant of Check: an apply starts without having stopped.
CheckStartsOnly(r) ==
  /\ Goto(r, "check", CASE r \in Starts -> IF Running THEN "done" ELSE "begin"
                        [] r \in Stops  -> IF Running THEN "kill" ELSE "done"
                        [] OTHER        -> IF Running THEN "begin" ELSE "done")
  /\ UNCHANGED <<serviceVars, spawning, coreVars, file, raced>>

\* Starting a running core and stopping a stopped one are successes; an apply
\* restarts a running core only.
Check(r) ==
  /\ Goto(r, "check", CASE r \in Starts -> IF Running THEN "done" ELSE "begin"
                        [] OTHER        -> IF Running THEN "kill" ELSE "done")
  /\ UNCHANGED <<serviceVars, spawning, coreVars, file, raced>>

\* stopCore, under the mutex.  To kill a process of its own fails only when it has
\* finished already, which stopCore takes for success; of any other error it would
\* keep the text and forget the child all the same (service.go:1136-1145), which is
\* assumed not to happen.
Kill(r) ==
  /\ Goto(r, "kill", IF r \in Applies THEN "begin" ELSE "done")
  /\ signalled' = signalled \cup ({child} \ {None})
  /\ child' = None
  /\ UNCHANGED <<starting, spawning, spawned, core, loaded, file, raced>>

\* Mutant of Begin: a start in progress is not noticed.
BeginUnguarded(r) ==
  /\ Goto(r, "begin", IF Running THEN "done" ELSE "load")
  /\ starting' = (~Running \/ starting)
  /\ UNCHANGED <<child, spawning, coreVars, file, raced>>

\* startCore, first critical section: one start at a time, and none while the
\* child runs.
Begin(r) ==
  /\ Goto(r, "begin", IF starting \/ Running THEN "done" ELSE "load")
  /\ starting' = (starting \/ ~Running)
  /\ UNCHANGED <<child, spawning, coreVars, file, raced>>

\* The configuration does not load, or the doctor finds an issue.
Load(r) ==
  /\ Goto(r, "load", "spawn") \/ Goto(r, "load", "finish")
  /\ UNCHANGED <<serviceVars, spawning, coreVars, file, raced>>

\* exec.Cmd.Start.
Spawn(r) ==
  /\ Goto(r, "spawn", "publish")
  /\ spawned < MaxCores
  /\ spawned' = spawned + 1
  /\ spawning' = [spawning EXCEPT ![r] = spawned']
  /\ core' = [core EXCEPT ![spawned'] = "up"]
  /\ UNCHANGED <<serviceVars, signalled, loaded, file, raced>>

SpawnFails(r) ==
  /\ Goto(r, "spawn", "finish")
  /\ UNCHANGED <<serviceVars, spawning, coreVars, file, raced>>

\* startCore, second critical section: s.child = cmd.
Publish(r) ==
  /\ Goto(r, "publish", "finish")
  /\ child' = spawning[r]
  /\ spawning' = [spawning EXCEPT ![r] = None]
  /\ UNCHANGED <<starting, coreVars, file, raced>>

\* Mutant of Finish: only a start that worked ends.
FinishOnSuccess(r) ==
  /\ Goto(r, "finish", "done")
  /\ starting' = (child = None)
  /\ UNCHANGED <<child, spawning, coreVars, file, raced>>

\* The deferred function of startCore.
Finish(r) ==
  /\ Goto(r, "finish", "done")
  /\ starting' = FALSE
  /\ UNCHANGED <<child, spawning, coreVars, file, raced>>

-----------------------------------------------------------------------------
(* The core processes.                                                     *)

Alive(k) == core[k] \in {"up", "serving"}

Become(k, state) ==
  /\ core' = [core EXCEPT ![k] = state]
  /\ UNCHANGED <<pc, starting, spawning, spawned, file, raced>>

\* The core process loads the configuration and serves.
Serve(k) ==
  /\ core[k] = "up"
  /\ Become(k, "serving")
  /\ loaded' = [loaded EXCEPT ![k] = file]
  /\ UNCHANGED <<child, signalled>>

\* The process and what it had loaded are gone.
End(k, state) ==
  /\ Alive(k)
  /\ Become(k, state)
  /\ loaded' = [loaded EXCEPT ![k] = None]
  /\ signalled' = signalled \ {k}
  /\ UNCHANGED child

\* It ends by itself (log.Fatal), or dies of a signal.
Exit(k) == End(k, "exited")

Crash(k) == End(k, "crashed")

\* Wait returns and has set ProcessState, without the mutex.  The goroutine
\* that waits is started after the core is published.
Reap(k) ==
  /\ \A r \in Requests : spawning[r] # k
  /\ \/ core[k] = "exited" /\ Become(k, "reaped")
     \/ core[k] = "crashed" /\ Become(k, "reaped_crashed")
  /\ UNCHANGED <<loaded, signalled, child>>

\* Mutant of Collect: whichever core is current is forgotten.
CollectAny(k) ==
  /\ core[k] \in {"reaped", "reaped_crashed"}
  /\ Become(k, "collected")
  /\ child' = None
  /\ UNCHANGED <<loaded, signalled>>

\* The goroutine takes the mutex: the child is forgotten if it is this core.
Collect(k) ==
  /\ core[k] \in {"reaped", "reaped_crashed"}
  /\ Become(k, "collected")
  /\ child' = IF child = k THEN None ELSE child
  /\ UNCHANGED <<loaded, signalled>>

-----------------------------------------------------------------------------

Handler(r) ==
  \/ Check(r)
  \/ Kill(r)
  \/ Begin(r)
  \/ Load(r)
  \/ Spawn(r)
  \/ SpawnFails(r)
  \/ Publish(r)
  \/ Finish(r)

Core(k) == Serve(k) \/ Exit(k) \/ Crash(k)

Next ==
  \/ \E r \in Requests : Accept(r) \/ Handler(r)
  \/ \E k \in Cores : Core(k) \/ Reap(k) \/ Collect(k)

Spec == Init /\ [][Next]_vars

(***************************************************************************)
(* Handlers and the waiting goroutines run, and a killed process dies; a   *)
(* request need not come and a core need not end by itself.                *)
(***************************************************************************)
Fairness ==
  /\ \A r \in Requests : WF_vars(Handler(r))
  /\ \A k \in Cores : WF_vars(Reap(k) \/ Collect(k)) /\ WF_vars(k \in signalled /\ Crash(k))

FairSpec == Spec /\ Fairness

-----------------------------------------------------------------------------
(* Properties.                                                             *)

Wanted(k) == Alive(k) /\ k \notin signalled

\* However starts, stops and restarts overlap, at most one core is alive that
\* nobody has killed: two would fight over the listeners (service.go:1051-1061).
OneCore == \A j, k \in Cores : Wanted(j) /\ Wanted(k) => j = k

\* Such a core is in the service's hands: it is the child, or about to be, so
\* a stop can reach it (service.go:1103-1124).
CoreInHand ==
  \A k \in Cores : Wanted(k) => child = k \/ \E r \in Requests : spawning[r] = k

\* applyEndpoint "restarts the core if it is currently running so the new
\* endpoint takes effect" (service.go:960-961): unless it overlapped a start or
\* another apply, a core that serves while no handler is at work has the
\* configuration on disk, whatever was stopped or crashed meanwhile.
AppliedTakesEffect ==
  /\ ~raced
  /\ \A r \in Requests : ~Busy(r)
  /\ child # None
  /\ core[child] = "serving"
  => loaded[child] = file
=============================================================================
