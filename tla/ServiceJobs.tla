---------------------------- MODULE ServiceJobs ----------------------------
(***************************************************************************)
(* The rest of the control service's life (internal/service/service.go):   *)
(* the scans and tests it runs in the background, one of each kind at a     *)
(* time, the test of the matrix (internal/matrix/matrix.go) that tries one  *)
(* method after the other through a core of its own, and its two ends.     *)
(*                                                                         *)
(* Built over ControlService, whose requests and cores are the service's   *)
(* hold on the main core.  A test that is asked for with apply=1 in one     *)
(* request is an apply whose write comes at the end of its matrix.          *)
(***************************************************************************)
EXTENDS ControlService, FiniteSets

CONSTANTS
  Tests,      \* the /v1/test requests with apply=1
  TestKicks,  \* the /v1/test/start requests
  ScanKicks,  \* the /v1/scan/start requests
  Interrupt,  \* the goroutine that waits for SIGINT
  Watcher,    \* the goroutine that watches the parent process
  Ports,      \* the loopback ports the kernel hands out
  NumCases,   \* the methods a matrix tries
  Scenarios   \* bound: which of all these come in one behaviour

Kicks   == TestKicks \cup ScanKicks
Runners == Tests \cup TestKicks
Jobs    == Tests \cup Kicks

ASSUME JobsAssumption ==
  /\ Tests \subseteq Applies
  /\ Kicks \cap Requests = {} /\ TestKicks \cap ScanKicks = {}
  /\ Ends = {Interrupt, Watcher} /\ Interrupt # Watcher
  /\ None \notin Jobs \cup Ports
  /\ NumCases \in Nat \ {0}
  /\ Scenarios \subseteq SUBSET (Requests \cup Kicks)

VARIABLES
  invited,   \* the requests and ends that come
  service,   \* "up", "closing" once Shutdown was called, "gone" once main returned
  unseen,    \* history: the cores the watcher's stopCore could not see
  job,       \* where each background job or test is
  case,      \* the cases each matrix is through with
  port,      \* the port of a matrix's case
  testCore,  \* the core process of a matrix's case
  bound,     \* which matrix's core listens on each port
  passed,    \* the cases that passed, and whose core answered
  running,   \* scanRun and testRun
  shown,     \* the job whose outcome the status shows once it is done
  last       \* history: the job of each kind that was started last

matrixVars == <<case, port, testCore, bound, passed>>
flagVars   == <<running, shown, last>>
jobVars    == <<job, matrixVars, flagVars>>
jvars      == <<vars, invited, service, unseen, jobVars>>

Kinds == {"scan", "test"}
Kind(r) == IF r \in ScanKicks THEN "scan" ELSE "test"

JInit ==
  /\ Init
  /\ invited \in Scenarios
  /\ service = "up"
  /\ unseen = {}
  /\ job = [r \in Jobs |-> "new"]
  /\ case = [r \in Runners |-> 0]
  /\ port = [r \in Runners |-> None]
  /\ testCore = [r \in Runners |-> "none"]
  /\ bound = [p \in Ports |-> None]
  /\ passed = [r \in Runners |-> {}]
  /\ running = [k \in Kinds |-> FALSE]
  /\ shown = [k \in Kinds |-> None]
  /\ last = [k \in Kinds |-> None]

-----------------------------------------------------------------------------
(* Background jobs.                                                        *)

Step(r, from, to) ==
  /\ job[r] = from
  /\ job' = [job EXCEPT ![r] = to]

First(r) == IF r \in ScanKicks THEN "scan" ELSE "case"

\* Mutant of Kick: a job that runs already is not noticed.
KickAgain(r) ==
  /\ Step(r, "new", First(r))
  /\ running' = [running EXCEPT ![Kind(r)] = TRUE]
  /\ shown' = [shown EXCEPT ![Kind(r)] = None]
  /\ last' = [last EXCEPT ![Kind(r)] = r]
  /\ UNCHANGED <<vars, service, unseen, matrixVars>>

\* handleScanStart and handleTestStart: under the mutex, unless one runs, the
\* outcome of the one before is dropped and a goroutine is started.
Kick(r) ==
  /\ IF running[Kind(r)]
       THEN Step(r, "new", "over") /\ UNCHANGED flagVars
       ELSE /\ Step(r, "new", First(r))
            /\ running' = [running EXCEPT ![Kind(r)] = TRUE]
            /\ shown' = [shown EXCEPT ![Kind(r)] = None]
            /\ last' = [last EXCEPT ![Kind(r)] = r]
  /\ UNCHANGED <<vars, service, unseen, matrixVars>>

\* The goroutine has its outcome, or its error, and takes the mutex.
JobEnds(r) ==
  /\ Step(r, IF r \in ScanKicks THEN "scan" ELSE "end", "over")
  /\ running' = [running EXCEPT ![Kind(r)] = FALSE]
  /\ shown' = [shown EXCEPT ![Kind(r)] = r]
  /\ UNCHANGED <<vars, service, unseen, matrixVars, last>>

\* handleTest runs the matrix in the request.
TestBegins(t) ==
  /\ Step(t, "new", "case")
  /\ UNCHANGED <<vars, service, unseen, matrixVars, flagVars>>

\* Nothing passed, or handleTest applies the best of what did.
TestEnds(t) ==
  /\ Step(t, "end", "over")
  /\ IF passed[t] = {} THEN UNCHANGED vars ELSE Accept(t)
  /\ UNCHANGED <<service, unseen, matrixVars, flagVars>>

-----------------------------------------------------------------------------
(* matrix.Run and runOne.                                                  *)

Owns(r) == port[r] # None /\ bound[port[r]] = r

\* The next case takes a port on which nobody listens, and closes it again
\* before its core is spawned.
NextCase(r) ==
  /\ Step(r, "case", "listen")
  /\ case[r] < NumCases
  /\ \E p \in Ports :
       /\ bound[p] = None
       /\ port' = [port EXCEPT ![r] = p]
  /\ testCore' = [testCore EXCEPT ![r] = "up"]
  /\ UNCHANGED <<vars, service, unseen, case, bound, passed, flagVars>>

\* No port, no file for the configuration, or no process.
CaseFails(r) ==
  /\ Step(r, "case", "case")
  /\ case[r] < NumCases
  /\ case' = [case EXCEPT ![r] = @ + 1]
  /\ UNCHANGED <<vars, service, unseen, port, testCore, bound, passed, flagVars>>

\* All cases are done, or the context has expired: what there is is sorted.
LastCase(r) ==
  /\ Step(r, "case", "end")
  /\ UNCHANGED <<vars, service, unseen, matrixVars, flagVars>>

\* waitListening: somebody listens, or the case's time is over.
Listens(r) ==
  /\ \/ Step(r, "listen", "probe") /\ bound[port[r]] # None
     \/ Step(r, "listen", "terminate")
  /\ UNCHANGED <<vars, service, unseen, matrixVars, flagVars>>

\* probeThrough: the request goes to whoever listens.
Probe(r) ==
  /\ Step(r, "probe", "terminate")
  /\ \/ /\ bound[port[r]] # None
        /\ passed' = [passed EXCEPT ![r] = @ \cup {<<case[r], bound[port[r]]>>}]
     \/ UNCHANGED passed
  /\ UNCHANGED <<vars, service, unseen, case, port, testCore, bound, flagVars>>

\* The deferred terminate returns when the core is dead.
Terminate(r) ==
  /\ Step(r, "terminate", "case")
  /\ case' = [case EXCEPT ![r] = @ + 1]
  /\ bound' = IF Owns(r) THEN [bound EXCEPT ![port[r]] = None] ELSE bound
  /\ port' = [port EXCEPT ![r] = None]
  /\ testCore' = [testCore EXCEPT ![r] = "none"]
  /\ UNCHANGED <<vars, service, unseen, passed, flagVars>>

\* The case's core listens on its port; one whose port is taken ends, as it does
\* where its method cannot work.
TestCore(r) ==
  /\ \/ /\ testCore[r] = "up"
        /\ bound[port[r]] = None
        /\ testCore' = [testCore EXCEPT ![r] = "listening"]
        /\ bound' = [bound EXCEPT ![port[r]] = r]
     \/ /\ testCore[r] \in {"up", "listening"}
        /\ testCore' = [testCore EXCEPT ![r] = "dead"]
        /\ bound' = IF Owns(r) THEN [bound EXCEPT ![port[r]] = None] ELSE bound
  /\ UNCHANGED <<vars, service, unseen, job, case, port, passed, flagVars>>

-----------------------------------------------------------------------------
(* The ends of the service.                                                *)

\* SIGINT: srv.Shutdown closes the listener and waits for the handlers.
Interrupted ==
  /\ service = "up"
  /\ service' = "closing"
  /\ UNCHANGED <<vars, unseen, jobVars>>

\* It returns after 3s at most, and stopCore is called, if there is time.
ShutDown ==
  /\ service = "closing"
  /\ Accept(Interrupt)
  /\ UNCHANGED <<service, unseen, jobVars>>

\* Mutant of WatcherShutsDown: the order of the two calls is that of SIGINT.
WatcherShutsDownFirst ==
  /\ service = "up"
  /\ service' = "closing"
  /\ UNCHANGED <<vars, unseen, jobVars>>

\* The parent is gone: stopCore, with the requests still coming in, ...
ParentGone ==
  /\ service = "up"
  /\ Accept(Watcher)
  /\ UNCHANGED <<service, unseen, jobVars>>

\* ... and then srv.Shutdown.
WatcherShutsDown ==
  /\ service = "up"
  /\ pc[Watcher] = "done"
  /\ service' = "closing"
  /\ UNCHANGED <<vars, unseen, jobVars>>

\* ListenAndServe has returned as soon as Shutdown was called: Run and main
\* return, and every handler and goroutine ends where it is.
Leave ==
  /\ service = "closing"
  /\ service' = "gone"
  /\ UNCHANGED <<vars, unseen, jobVars>>

\* The cores a stopCore cannot see: to be spawned, or not yet published.
Unseen == {k \in Cores : k > spawned \/ \E r \in Requests : spawning[r] = k}

-----------------------------------------------------------------------------

\* A handler's or a goroutine's step on the main core.
OnCore(r) ==
  /\ Handler(r)
  /\ unseen' = IF r = Watcher /\ pc[r] = "kill" THEN Unseen ELSE unseen
  /\ UNCHANGED <<service, jobVars>>

Forget(k) ==
  /\ Reap(k) \/ Collect(k)
  /\ UNCHANGED <<service, unseen, jobVars>>

Matrix(r) ==
  \/ NextCase(r) \/ CaseFails(r) \/ LastCase(r) \/ Listens(r) \/ Probe(r) \/ Terminate(r)

\* A request comes while the listener is open.
Request(r) ==
  /\ service = "up"
  /\ r \in invited
  /\ \/ r \in Requests \ (Ends \cup Tests) /\ Accept(r) /\ UNCHANGED <<service, unseen, jobVars>>
     \/ r \in Tests /\ TestBegins(r)
     \/ r \in Kicks /\ Kick(r)

\* What runs in the service's process.
Inside ==
  \/ \E r \in Requests : OnCore(r)
  \/ \E k \in Cores : Forget(k)
  \/ \E r \in Runners : Matrix(r)
  \/ \E r \in Kicks : JobEnds(r)
  \/ \E t \in Tests : TestEnds(t)
  \/ ShutDown /\ Interrupt \in invited
  \/ WatcherShutsDown /\ Watcher \in invited
  \/ Leave

\* What comes from outside.
Outside ==
  \/ \E r \in Requests \cup Kicks : Request(r)
  \/ \E k \in Cores : Core(k) /\ UNCHANGED <<service, unseen, jobVars>>
  \/ \E r \in Runners : TestCore(r)
  \/ Interrupted /\ Interrupt \in invited
  \/ ParentGone /\ Watcher \in invited

JNext ==
  /\ (service # "gone" /\ Inside) \/ Outside
  /\ UNCHANGED invited

JSpec == JInit /\ [][JNext]_jvars

InService(A) == service # "gone" /\ A /\ UNCHANGED invited

(***************************************************************************)
(* As in ControlService, for as long as the service's process exists; the  *)
(* matrix has a timeout for each of its waits.                             *)
(***************************************************************************)
JFairness ==
  /\ \A r \in Requests : WF_jvars(InService(OnCore(r)))
  /\ \A k \in Cores :
       /\ WF_jvars(InService(Forget(k)))
       /\ WF_jvars(k \in signalled /\ Crash(k) /\ UNCHANGED <<invited, service, unseen, jobVars>>)
  /\ \A r \in Runners : WF_jvars(InService(Matrix(r)))
  /\ \A r \in Kicks : WF_jvars(InService(JobEnds(r)))

JFairSpec == JSpec /\ JFairness

-----------------------------------------------------------------------------
(* Properties.                                                             *)

InProgress(r) == job[r] \notin {"new", "over"}

\* The status polled by the UI is true: "running" exactly while a job of the kind
\* runs, and the outcome shown after it is that of the job started last
\* (service.go:505-583, 587-645).
JobStatusTrue ==
  \A k \in Kinds :
    /\ running[k] <=> \E r \in Kicks : Kind(r) = k /\ InProgress(r)
    /\ shown[k] # None => shown[k] = last[k] /\ ~running[k]

\* A case passes because of its own core, and never because the core of another
\* matrix got its port: tests in the background run one at a time.  (A /v1/test
\* request does not take part in that.)
VerdictIsOwn ==
  (\A t \in Tests : job[t] = "new")
    => \A r \in Runners : \A verdict \in passed[r] : verdict[2] = r

\* A service that ends because its parent is gone takes its core with it; only
\* one that was still being started, or was started afterwards, is left.  (One
\* that ends by SIGINT may be gone before it gets to stopCore.)
LeavesNoCore ==
  service = "gone" /\ Interrupt \notin invited
    => \A k \in Cores : Wanted(k) => k \in unseen

\* While it lives, the service gets over a core that ends, a start that fails and
\* a job that hangs, however they overlap: the dead core is forgotten, and the
\* flags that turn later starts and jobs away are released.
ServiceRecovers ==
  /\ \A k \in Cores : (child = k /\ ~Alive(k)) ~> (child # k \/ service = "gone")
  /\ starting ~> (~starting \/ service = "gone")
  /\ \A k \in Kinds : running[k] ~> (~running[k] \/ service = "gone")
=============================================================================
