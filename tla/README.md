# A TLA+ verification of snispf

snispf is a local TCP forwarder that hides the server name of outgoing TLS
connections from middleboxes. A client connects to a local listener; the core
reads its ClientHello, dials an upstream edge (normally a Cloudflare address),
confuses the middlebox with a decoy ClientHello or with fragments, and then
relays bytes. On rooted Android phones, its main target, it runs as a daemon
under a control service with an HTTP interface and a web page, and has to
survive changes of the mobile network.

This directory models the Go core (`src/engine`, about 7400 lines) in TLA+,
checks the models with TLC and proves their central invariants with TLAPS. All
paths below are relative to `src/engine`; `RAW` is
`internal/rawinjector/rawinjector_linux.go`, `main.go` is `cmd/snispf/main.go`,
`server.go` is `internal/forwarder/server.go`, and `service.go` is
`internal/service/service.go`.

## 1. The system

### Components, their state and their operations

| component | state | operations |
|---|---|---|
| core main loop (`main.go`) | listeners with an atomic `*Server` each, the current runtimes, the one-slot `restartReqCh`, backoff, `lastSwapAt`, `cfg` | build the runtimes, serve, take a restart request, auto-swap the endpoint, rebuild, swap the servers, stop the old injectors, shut down |
| connection handler (`server.go`) | per connection: reserved port, upstream, attempt; per server: `failureStreak`, `restartSent`, `lbCounter` | read the first bytes, choose endpoints, reserve and register a port, dial, apply the strategy, report, relay, clean up |
| raw injector, Linux (`RAW`) | `ports` (local port to `portState`), capture and send descriptors, `running`, a wait group | Start, Stop, register and clean up a port, sniff, inject, wait for a confirmation, statistics |
| raw injector, Windows | the same registry, a handle each for capture and for sending | the same |
| strategies (`internal/bypass`) | none between calls | `wrong_seq` (wait for the confirmation, then write), `fake_sni`, `fragment`, `combined` |
| decoy pool (`internal/forwarder/decoypool.go`) | per decoy: attempts, confirmations, cooldown, backoff | pick, record, score |
| configuration (`internal/config`) | `config.json` and its temporary file | load, normalise, validate, write |
| control service (`service.go`) | the child process, the `starting` flag, the scan and test jobs, tokens | start, stop, restart, apply, configure, scan, test, status, logs |
| scanner (`internal/scan/scan.go`) | `cf_hits.json`, the hit-list of edges that were clean before | load, probe in parallel, update, prune, save |
| WAN detection (`internal/netutil`, `watchWAN` in `main.go`) | the WAN seen last and the candidate to replace it | resolve the interface and its address, debounce, ask for a rebuild |
| matrix tester (`internal/matrix`) | none between runs | run the core once for each method |
| ClientHello builder, fragmenter (`internal/tlsutil`) | none | build, split |
| shell scripts and web page (`src/module`, `src/webroot`) | the page's copy of the configuration | call the HTTP interface |

### Interactions

* A **handler** and the **sniffer** share a `portState`: the handler registers it
  by local port before it dials; the sniffer finds it by the port of a captured
  packet, releases the registry's lock, and only then updates it; a goroutine of
  its own injects the decoys; the handler waits on a channel of it.
* Between a handler's dial and its report a **strategy** writes to the upstream,
  in pieces or behind a fake hello; when it fails the handler may write itself.
* Handlers share with each other the failure accounting of their `Server` (three
  separate atomic steps), the balancer's counter and the decoy pool.
* Servers and the WAN watcher ask the **main goroutine** for a rebuild with a
  non-blocking send into a channel of one slot. Main swaps the `Server` behind
  every listener before it stops the old injectors.
* **Stop** of an injector closes descriptors whose numbers the sniffer and the
  injecting goroutines load in one step and use in the next, and waits for both loops.
* The **control service** spawns, kills and waits for core processes. Its HTTP
  handlers run concurrently and share `child` and `starting` under a mutex that
  `startCore` gives up half-way. A **test** runs one core after the other beside
  the main one; the service ends by a signal or because its parent is gone.
* The service, the core's auto-swap and the command line write the same
  `config.json` and `cf_hits.json` from different processes, without a lock; the writes
  of one file also share the name of a temporary one.

### What is hard in it

Interleavings of handlers, sniffer and injecting goroutines on one `portState`;
reuse of local port numbers and of descriptor numbers; packets that are lost,
late or belong to the flow before; requests that a full channel drops; rebuilds
beside live traffic; builds that fail half-way; processes killed while they
write; requests that overlap; health statistics with a window and a backoff; a
network that changes between two reads of it. `PROJECT.json` lists these hazards
at their lines with the properties that cover them.

### What makes each component correct

* main loop: a failing server is never silenced, is replaced in the end, and no
  listener ever dispatches to a stopped injector;
* handler with injector: the real ClientHello leaves only behind an answered
  decoy; a flow is confirmed and failed by its own packets, although the sniffer
  goes by port numbers and may be behind; ports and goroutines are given back;
* Start and Stop: Stop returns, and neither leaves anything behind; descriptors are
  an injector's own;
* strategies: the upstream reads the client's bytes in order and once;
* handler's loop: every endpoint once before a drop, no leak on any exit,
  an even balance, failures heard;
* decoy pool: cooldowns are earned, nobody is starved, a blocked decoy cools;
* configuration: a reader never sees half a file (writers that overlap break this),
  what the core serves is what the file leads to, normalising is idempotent, and a
  request that stops the core brings one back;
* control service: one core, in hand, and a start never blocks later ones; jobs one
  at a time, with a true status; no core left behind by an orphaned service;
* WAN watcher: debounced, never deaf, and followed by the runtimes;
* auto-swap: swaps only for a cause and only to what works; the list forgets
  only for a cause.

## 2. The modules

| module | models | composed with |
|---|---|---|
| `Recovery` | main loop, listeners, failure accounting, restart channel | |
| `WrongSeq` | handler of a `wrong_seq` connection with sniffer, injecting goroutine, kernel and server | implements `StrictGate` |
| `StrictGate` | what `wrong_seq` promises, per connection | |
| `InjectorStop` | Start and Stop of injectors on Linux and Windows, their goroutines and descriptors | |
| `Forwarder` | `handleConn` for every method and balancer | |
| `FirstWrite` | what the strategies and the handler write to an upstream, and what the server reads | extends `Forwarder`, implements it |
| `ControlService` | the service's hold on core processes | |
| `ServiceJobs` | background scans and tests, the matrix of a test, the service's ends | extends `ControlService`, implements it |
| `ConfigFile` | writing through a temporary file, with readers and kills | implements `AtomicFile` |
| `AtomicFile` | an atomic write and read | |
| `DecoyPool` | rotation of decoys | |
| `EndpointConfig` | the fields that select upstream and method, through UI, service, file and core | |
| `WanWatch` | the watcher and the rebuilds against the kernel's interfaces | |
| `AutoSwap` | the hit-list, its scans and the core's auto-swap | |
| `MC*` | the instances that TLC checks | extend the module of that name; `MCConfig` extends `ConfigFile` and `EndpointConfig`, which share no variable: the one runs where the other is in its initial state |
| `*Proofs` | theorems and their proofs | extend the module of that name; `NetworkProofs` extends `AutoSwap` and `WanWatch`, `ConfigProofs` extends `ConfigFile` and `EndpointConfig` |

How state and actions correspond to the code:

* **Recovery.** `live[l]` is the server behind listener *l*'s atomic pointer, by
  the generation of its build; `running` the injectors that are up; `chan` the
  channel; `streak` and `restartSent` the counters of each server. A handler is
  `Accept` (`main.go:339-350`) and then one action per atomic operation of
  `reportSuccess` and `reportFailure` (`server.go:341-371`). Main is one action
  per step it shares something at: take, wait, build one listener's runtime, swap
  one pointer, stop. A build that fails leaves the injectors it started before.
* **WrongSeq.** `hpc` follows `handleConn` through reserve, register, dial,
  `Apply`, write, relay and the clean-up, each where it touches shared state;
  `ports` and `ps` are the registry and the `portState`s; `SniffTake` is the look-up
  under `portsMu`, `SniffApply` the update after it; `Inject` to `StopInjecting`
  the decoys' goroutine; `queue` the capture's buffer, which loses packets. A packet
  that was captured stays where it is when its flow ends, and meets whichever flow
  registers the port next: `late` records which kinds changed a portState, and
  `Mistaken` says that a decoy was started by another flow's SYN and ACK. The
  last actions are the kernel's handshake and what the server may do: answer,
  speak first, acknowledge, reset. `Talkative` are the connections whose server
  may speak first, `Flaky` those that may be reset and whose injection may fail.
* **InjectorStop.** `table` is the kernel's map from descriptor numbers, lowest
  free first; `fd` and `sendFd` are the atomics; `sniff[g]` holds the number it
  loaded, or the socket its receive waits on, which a close does not end on Linux
  (`StopCapture`) and does on Windows (`StopDivert`). `platform` is fixed in a
  behaviour. Windows has no sending without a handle of its own, no device that
  dies under a capture, and a decoy is sent once. A packet that a receive returned may
  start an injection whether or not the injector still runs (`InjectBegin`).
* **Forwarder.** `base`, `attempt`, `tried` are the loop; `open` and `registered`
  what a connection holds. The strategies are their verdict.
* **FirstWrite.** A stream is a sequence of record headers, with the length they
  announce, and units of data. `Pieces` is `FragmentClientHello`; `WriteFake`,
  `WritePiece`, `WriteLast` and `ReturnsFalse` are the `Apply` of `fragment.go`,
  `fake_sni.go` and `combined.go`; the last two take `Forwarder`'s step on the
  verdict with them. `sent` is what the upstream got; `InRecords` says that
  a TLS server can read it, and `DataOf` what it reads. Where `FindSNIOffset` cuts is
  left open. A client that begins as TLS is taken to send records throughout.
* **ControlService.** A request is a process that goes through the handler and
  `startCore`'s two critical sections; a core has its life from spawn to the
  collection by the goroutine that waits for it. `Running` repeats the check of
  `ProcessState.Exited()`, which says no of a crash and yes before the mutex is taken.
  `Kill` takes it that killing one's own child fails only when it has ended already, so
  the error path of `service.go:1136-1145`, which would keep a live child, is not there.
* **ServiceJobs.** A background job is a goroutine from `Kick` to `JobEnds`, with
  `running` and `shown` what the status page polls. `case`, `port`, `testCore` and
  `bound` are `matrix.Run`: a port is found free and closed again, a core is spawned
  on it, waited for, probed and terminated. `service` follows `main`'s two ends: on
  SIGINT `Shutdown` comes first and `stopCore` after it, when the parent is gone the
  other way round, and `Leave` may come as soon as `Shutdown` was called.
* **ConfigFile.** Names refer to inodes, open files too; a writer truncates or creates
  the one temporary name, writes, renames, and may be killed in between. Nothing keeps
  writers apart: `shared` records the inodes that two of them were at work for since
  their truncation, and `AtomicFile` counts such a write as one that tears the file.
* **DecoyPool.** Samples count in parts of `1/Scale`; a cooldown is the time left.
* **EndpointConfig.** A configuration is its address and SNI, `LISTENERS`,
  `ENDPOINTS`, method and probe; `Normalize` is `normalize.go:21-113` for those, and
  `Doctor` what `RunDoctor` (`validate.go:85-206`) refuses of them. `Startable` is
  the core's own check, which is another one: it counts endpoints after the probe.
  `Save` takes what the page's form may post (`Forms`), blank or out of order (`sound`)
  included, and writes all of it, since `handleConfig` looks at the length of the names
  only. `Resolved` takes it that a name's address stays what it is and can be looked up:
  `ResolveHost` (`internal/netutil/netutil.go:24-34`) gives back the name itself when
  the lookup fails, and may answer differently later.
* **WanWatch.** Device and address are read in two steps, by the watcher and by a
  build; `bound` is what the runtimes got.
* **AutoSwap.** A hit record is reduced to what `prune` and `survivors` look at.
  Scans load, probe address by address, save, and may overlap. A load that fails gives
  an empty list and a save that fails leaves the file, and the scan goes on
  (`scan.go:340`, `396-410`); `MaxFaults` bounds how often. A scan by another process
  may be cut short; the core's death in the middle of a scan is left out, since with
  it the state that the swap is about is gone. `behind`, `doubt` and `doubted` record
  which scans' lists are not the file's, and which successes a list or the file lacks.

Definitions called "Mutant of ..." are not part of a specification: each is a
plausible mistake in one operation, kept to show that a property notices it.

## 3. What TLC checks

All passing runs but `config` check safety and liveness together under the fair
specification, so none uses symmetry sets; `swap` has a representative of the initial
states that differ by a permutation of addresses instead. Deadlock checking is off
where a bound (requests, connections, builds) or a shutdown really ends the model.

No run checks a `TypeOK`: it is proved (section 5) for every module that another does
not implement or extend, and for `Forwarder` and `ControlService`.

| run | instance | shows |
|---|---|---|
| `recovery` | 2 listeners, 3 connections, threshold 2, 4 rebuilds, 1 WAN change, 1 failed build | the latch never silences a current server (`LatchImpliesPending`), a critical streak is heard (`CriticalStreakHeard`), `DispatchesToRunning`, `NoOrphanInjector`, and a critical server is replaced (`CriticalServerReplaced`) |
| `wrongseq` | 2 connections, one server speaking first, one flow that may be reset or fail to inject, 1 port, 1 reservation (no retry), 2 decoys, buffer of 1 packet | `RegistryMatchesHandlers`, what the sniffer concludes about a flow comes from that flow (`JudgedByOwnPackets`), refinement of `StrictGate` (`ImplementsGate`), ports released and goroutines ended (`FlowSettles`) |
| `stop` | both platforms, 2 generations, 6 descriptors, 1 device that may go | nothing is left of an injector that was stopped or could not start (`StoppedIsGone`), `OwnWhileRunning`, and Stop returns unless a device went (`StopReturns`) |
| `forwarder` | `FirstWrite`: 2 connections; round robin over 3 endpoints, random over 3, failover over 2, and `wrong_seq`; every slicing, a hello of one record, one with early data, no TLS | `EachEndpointOnce`, `UpstreamReleased`, `RoundRobinEven`, the upstream reads what the client sent (`StreamIntact`), `Decided` |
| `service` | `ServiceJobs`: 9 scenarios of 2 to 3 among 2 starts, 1 stop, 2 applies (one of them a test), 2 background tests, 2 scans and the 2 ends; 2 cases a test, 2 ports, 3 cores | `OneCore`, `CoreInHand`, `AppliedTakesEffect`, `JobStatusTrue`, a test passes by its own core (`VerdictIsOwn`), `LeavesNoCore`, and dead cores are forgotten and flags released (`ServiceRecovers`) |
| `config` | `ConfigFile`: 2 writers, 2 readers, 3 writes, a short and a long value; `EndpointConfig`: 3 hosts, 2 SNIs, four initial configurations, an edge offered, a form in order and with blanks, every method | a file no two writers were at work for is whole (`WholeUnlessOverlapped`), refinement of `AtomicFile` (`ImplementsAtomicFile`), `ServesFile`, `NormalizeSettles`, `ChosenTakesEffect`, a core that is restarted comes back (`RestartComesBack`) |
| `decoypool` | 2 decoys, 2 handlers, window 4, minimum 2, backoff 1 to 2 | `CooldownEarned`, `FadesInHalfWindow`, `EveryDecoyProbed`, `BlockedDecoyCools` |
| `wan` | 2 devices, one with 2 addresses, debounce 2, 3 changes, 1 rebuild by failures | `SwitchIsHeard`, `Debounced`, `SwitchRebinds` |
| `swap` | 3 addresses, the core and another scanner that may overlap, 2 changes of the network, 1 scan by the other, 1 month, 1 load or save that fails | `ForgottenForCause`, `SwapsForCause`, `EndsOnSurvivor` |
| `forwarder_unheard` | `wrong_seq`, 3 connections, threshold 2 | violated, see findings |
| `stop_dead` | 2 generations, 5 descriptors, 1 device that may go | violated, see findings |
| `config_overlap` | `ConfigFile` as in `config` | violated, see findings |

### Why the bounds are enough

* Two listeners are what it takes for a swap or a build to be half done; three
  connections for two to fail while a third succeeds; four generations for a
  failed build, a WAN change and two critical rebuilds in one behaviour. The
  theorems of section 5 hold for all values.
* Two connections and one port are the least that reuse a port number and compete
  for it; a packet the sniffer has in hand and one in the queue are enough to be late
  for the next flow. Two decoys take the goroutine through its loop: the second one
  races the answer to the first, the confirmation timeout and the clean-up. One
  connection that may be reset and one that may not keep the run within its time; with
  one reservation a port that is taken is a drop. The theorems hold for any number of
  decoys and of retries, and for any buffer. The invariants of their proofs were also
  checked with two reservations and a buffer of two (3.7 million states).
* Two generations are one rebuild; with six descriptors there are the four of the
  injectors and numbers that connections take and give back.
* `Cases` of `FirstWrite` pairs a setting of the `Server` with a way to write and a
  stream: each branch of `pickBaseIndex`, of the attempts' cap and of
  `FragmentClientHello` is reached, with a Read that ends before, at and after the
  end of the first record. Two connections interleave at the shared counter.
* `Scenarios` of `ServiceJobs` names which requests come in one behaviour, since all
  of them at once are out of reach: those that compete for the main core, those that
  compete for a job's flag or a test's port, and each end of the service with what
  may be under way.
* Three cores are one that ran, its successor, and the successor's successor while
  the goroutine of the first still waits for the mutex.
* The window of 4 with a minimum of 2 keeps the code's relation (20 and 5: a full
  window, halved, still has the minimum), and the backoff reaches its ceiling in two
  steps.
* Two writers, a third write, and values of two lengths are what it takes for one to
  truncate what the other renames, to go on writing in the file's place, and to leave a
  mixture.
* `Forms` has a form in order that names another host, the address and the name blank
  by themselves, and a form with a field out of order; `Offered` an edge with a port in
  order and one without.
* `DropSeen` < `DropStreak` as in the code (3 and 8); one month, since ageing twice is
  ageing once. One scan by another process overlaps any number of the core's, and one
  fault is enough to lose the list, or a success that no list then has.

### Fairness, and why the code justifies it

Weak fairness of the goroutines' own steps everywhere: the Go scheduler runs what
can run, and dials, reads, waits and probes have timeouts. Beyond that:

* `Recovery` takes it that Stop returns; `InjectorStop` says when it does.
  Failed builds are bounded: a network on which no build ever works is not healed.
* `InjectorStop!TrafficSpec` adds that a device that is there sees a packet now and
  then. `FairSpec` does without, and the finding `stop_dead` needs no less.
* `DecoyPool` needs strong fairness of picks and records of each decoy: the choice
  is random, connections keep coming and not all of their dials fail.
* `WanWatch` needs strong fairness of a completed build, for the same reason.
* Nothing is assumed of servers, of the network, of the capture, of how long a
  relay lasts, of a client, or of when a request comes.

### Assumptions that limit what is shown

* `Talkative` (`WrongSeq`): `ImplementsGate` speaks of the flows whose server waits
  for the ClientHello, as TLS servers do. When a server speaks first, its first
  segment acknowledges just the SYN and is taken for the answer to a decoy, so the
  payload may leave before one.
* `Resolve` (`EndpointConfig`): names resolve, and always alike (see section 2).
* `Kill` (`ControlService`): killing one's own live child does not fail.
* Two properties of `EndpointConfig` are proved under a hypothesis on the first file
  (section 5); the run has four files that satisfy them.

### Properties restated after a counterexample

Some plausible promises hold only with a condition, which the property names. Where a
document promises the rest too, that is said.

* `AppliedTakesEffect`: an apply beside a start may find no child yet, do nothing,
  and leave the new core with the configuration it loaded before the apply.
* `ChosenTakesEffect`: an applied address does nothing where the file has
  `ENDPOINTS` (as after every save, since `Normalize` fills them in) or `LISTENERS`,
  and an applied method nothing where a listener has its own. The comment at
  `service.go:960-961` ("so the new endpoint takes effect") and `src/README.md:34` and
  `49` ("tap it to use it", "sets it as `FAKE_SNI` and its IP as `CONNECT_IP`") promise
  it without that condition: a tap after a save is written and ignored.
* `RestartComesBack`: the service stops a core before it knows that another one can
  start (`service.go:860-863`, `909-912`, `972-974`). Two things it has written by then
  leave none running. `wrong_seq` over several enabled endpoints (`Mismatched`) is
  refused by the doctor or by the new core; the doctor counts all enabled endpoints,
  with listeners too, and so also refuses what the core, which counts those that
  answered the probe, would start with. And the page's form may post a blank
  `CONNECT_IP`, `FAKE_SNI` or `LISTEN_HOST` or a port out of range
  (`src/webroot/js/tabs/config.js:91-97`), which `handleConfig` writes and the doctor
  refuses (`Incomplete`). A blank address stays: `Normalize` has made an endpoint of
  it by then, which a later address at the top does not replace.
* `StreamIntact`: excludes a fake hello in the stream (`ttl_trick`, `USE_TTL_TRICK`),
  which the kernel retransmits with the restored TTL until the server has it, and
  `tls_record_frag` on a Read that did not end with the first record, for which it
  writes lengths that are not those of the client's records.
* `LeavesNoCore`: speaks of the end by a vanished parent. After SIGINT `Shutdown`
  lets `Run` return, and the process may end before `stopCore`.
* `VerdictIsOwn`: `/v1/test` runs its matrix beside a background test, without the
  flag of it; both ask the kernel for a free port and close it before their core
  binds, so that one may probe the other's core.
* `NoOrphanInjector`: a build that fails for the second listener forgets the
  injector of the first one (`main.go:664-667`). The exemption is just those:
  `abandoned` has the injectors of that build and of the listeners before the one that
  failed, so an injector that `StopOld` forgot would violate the property.
* `JudgedByOwnPackets`: packets of a flow that is over, still on their way when the
  next flow registers the port, are taken for the next flow's. If that flow's SYN and
  ACK both come late they start a decoy that carries its sequence number, and what then
  acknowledges that number confirms a flow that no decoy of its own protects
  (`Mistaken`). A late reset or ACK may fail a flow early (`late`). Nothing else
  crosses: without such a decoy a confirmation needs an acknowledgement of the flow's
  own SYN, which no other flow gets. `ImplementsGate` has the same exemption.
* `WholeUnlessOverlapped`, `ImplementsAtomicFile`: writers that overlap tear the file,
  which `src/changelog.md:25` and `loader.go:22-25` deny; see the finding `config_overlap`.
* `ForgottenForCause`: a scan that could not load the list, or loaded it before another
  one saved, writes back a list without what it does not know (`scan.go:396-410`,
  `457`), and a success that could not be saved is not counted (`scan.go:340`). The
  property exempts the saves of scans that are `behind` in this way and, of any scan,
  the addresses of whose last success its list may not tell; no other save and no
  other address.
* `SwitchRebinds`: a flap that a rebuild resolves and that ends before the watcher's
  second tick leaves the runtimes bound to the flap's address: the watcher never
  switched, so it has nothing to switch back.
* `OwnWhileRunning`: between Stop's close and the use of a number loaded before it,
  the number may belong to a proxied connection.
* `EndsOnSurvivor`: speaks of an endpoint that does not answer TCP. One that does,
  and whose handshakes a middlebox breaks, is kept by `endpointReachable`
  (`main.go:483-489`). It also speaks of the time after the faults that are bounded.
* `CooldownEarned` says that a cooldown has its cause, not the converse: a confirmation
  that comes late lifts a cooldown that newer failures earned (`decoypool.go:114`).

## 4. Findings

* `forwarder_unheard` (`server.go:284`): `wrong_seq` has exactly one endpoint, so a
  failed confirmation is always the last attempt's, and that exit of `handleConn`
  does not report a failure. The streak never grows, nobody asks for a rebuild, and
  the auto-swap that `internal/config/config.go:22-24` describes for an endpoint that
  "keeps failing confirmation" is never reached by failed confirmations.
* `stop_dead` (`RAW:453`): closing a descriptor does not wake a receive that waits
  on its socket. When the capture device has gone and its one error was consumed,
  the sniffer waits for a packet that never comes, Stop for the sniffer, and main
  for Stop: no later WAN change is handled, though `main.go:290-292` promises to
  rebind while "the listener/daemon stay up throughout".
* `config_overlap` (`loader.go:31`): every writer of `config.json` opens the same
  `config.json.tmp` with `O_TRUNC`. When the auto-swap and a save overlap, one truncates
  what the other then renames, and a reader finds the file empty or a mixture, although
  `src/changelog.md:25` promises "no chance of a half-written `config.json` when the core
  auto-swap and the WebUI save overlap", and `loader.go:22-25` likewise.

## 5. What is proved

TLAPS checks the following for every value of the constants that satisfies the
module's named assumption (`RecoveryAssumption`, `WrongSeqAssumption`,
`ForwarderAssumption`, `CaseAssumption`, `ServiceAssumption`, `JobsAssumption`,
`FileAssumption`, `PoolAssumption`, `StopAssumption`, `AutoSwapAssumption`,
`WanAssumption`, `EndpointAssumption`: naturals that are not zero, a debounce of at
least two ticks, names that differ, a resolver that leaves an address as it is, settings
the configuration allows, pieces of at least a unit, and a client that sends records where
it begins with one; TLC evaluates them in every run).

| theorem | states |
|---|---|
| `RecoveryProofs!TypeCorrect` | `Recovery!TypeOK` |
| `RecoveryProofs!LatchNeverSilences` | `LatchImpliesPending` |
| `RecoveryProofs!StreakNeverLost` | `CriticalStreakHeard` |
| `RecoveryProofs!NeverDispatchesToStopped` | `DispatchesToRunning` |
| `RecoveryProofs!NoInjectorOutlives` | `NoOrphanInjector` |
| `WrongSeqProofs!RegistryAgrees` | `RegistryMatchesHandlers` |
| `WrongSeqProofs!JudgesByOwnPackets` | `JudgedByOwnPackets` |
| `WrongSeqProofs!KeepsTheGate` | `ImplementsGate` |
| `WrongSeqProofs!TypeCorrect` | `WrongSeq!TypeOK` |
| `InjectorStopProofs!StoppedStaysGone` | `StoppedIsGone` |
| `InjectorStopProofs!RunningUsesItsOwn` | `OwnWhileRunning` |
| `InjectorStopProofs!TypeCorrect` | `InjectorStop!TypeOK` |
| `ForwarderProofs!TriesEachEndpointOnce` | `EachEndpointOnce` |
| `ForwarderProofs!ReleasesUpstream` | `UpstreamReleased` |
| `ForwarderProofs!SpreadsEvenly` | `RoundRobinEven` |
| `ForwarderProofs!HandlerTypeCorrect` | `Forwarder!TypeOK` |
| `ForwarderProofs!FallsBackOnUnwrittenUpstream` | `FallsBackOnUnwritten` |
| `ForwarderProofs!UpstreamReadsWhatWasSent` | `StreamIntact` |
| `ForwarderProofs!WritesImplementHandler` | `FirstWrite` implements `Forwarder` |
| `ControlServiceProofs!AtMostOneCore` | `OneCore` |
| `ControlServiceProofs!CoreStaysInHand` | `CoreInHand` |
| `ControlServiceProofs!AppliesTakeEffect` | `AppliedTakesEffect` |
| `ControlServiceProofs!LeavesNoCoreBehind` | `LeavesNoCore` |
| `ControlServiceProofs!JobsImplementService` | `ServiceJobs` implements `ControlService` |
| `ControlServiceProofs!StatusIsTrue` | `JobStatusTrue` |
| `ControlServiceProofs!VerdictsAreOwn` | `VerdictIsOwn` |
| `ControlServiceProofs!ServiceTypeCorrect` | `ControlService!TypeOK` |
| `ConfigProofs!UnsharedWhole` | `WholeUnlessOverlapped`, for any number of writers |
| `ConfigProofs!WritesAtomically` | `ImplementsAtomicFile`, for any number of writers |
| `ConfigProofs!FileTypeCorrect` | `ConfigFile!TypeOK` |
| `ConfigProofs!FileServed` | `ServesFile` |
| `ConfigProofs!ChoiceTakesEffect` | `ChosenTakesEffect` |
| `ConfigProofs!SecondPassSettles` | `NormalizeSettles`, where the first file has an address and a name at its top, or its lists lack none, or the top is what they begin with |
| `ConfigProofs!RestartsComeBack` | `RestartComesBack`, where the doctor has nothing against the first file's endpoints and listeners |
| `ConfigProofs!EndpointTypeCorrect` | `EndpointConfig!EndpointTypeOK` |
| `ConfigProofs!FilterFilters` | what `EnabledEndpoints` returns |
| `DecoyPoolProofs!CooldownsAreEarned` | `CooldownEarned` |
| `DecoyPoolProofs!FadesAfterHalfWindow` | `FadesInHalfWindow`, for an even window |
| `DecoyPoolProofs!PoolTypeCorrect` | `DecoyPool!TypeOK` |
| `NetworkProofs!CoreSwapsForCause` | `SwapsForCause` |
| `NetworkProofs!SurvivorsForgottenForCause` | `ForgottenForCause` |
| `NetworkProofs!SwapTypeCorrect` | `AutoSwap!TypeOK` |
| `NetworkProofs!SwitchStaysHeard` | `SwitchIsHeard` |
| `NetworkProofs!SwitchesAreDebounced` | `Debounced` |
| `NetworkProofs!WanTypeCorrect` | `WanWatch!WanTypeOK` |

None of the properties is inductive; the arguments are these.

* **Recovery.** A latch is only safe to leave set if a rebuild will replace its
  server. To know that, one needs where main is and what each pointer has then:
  `MainInv` gives every listener's generation at each location of main, `RunInv` the
  injectors that run there, and `UnusedInv` says that a server nobody dispatched to
  has counted nothing, so that the swap to it starts clean. Latch and streak are
  proved together: a success clears both, a claim sets the latch and goes on to send,
  and a send into a full channel leaves a request in it that main has not taken.
  `OwnerInv` says how far main's loops over the listeners have got with the old
  injectors and the new ones; a build that fails moves those it has started, and no
  others, to `abandoned`.
* **WrongSeq.** A clean-up deletes whatever its port has. `HandlerInv` gives, for each
  location of a handler, whether it holds a registration; a clean-up then deletes its
  own entry, and a registration meets a free port. For the sniffer, `PacketInv` says
  that every packet on its way is genuine, that is, its flow sent it or got it, and that
  one which meets another flow's portState comes from a flow that is over. Genuine does
  not make it harmless: what does is `OrderInv`, that the capture keeps the order of the
  packets. Once a registered flow's own SYN has been seen, no SYN of the port's earlier
  flows follows, so the number on record stays its own, and a decoy for that number and
  the acknowledgement of it are its own, too (`StateInv`). A flow is taken for an earlier
  one only where that one's SYN and ACK both come between the registration and the
  flow's own SYN, and then that one is over. For the refinement of `StrictGate`, `GateOf`
  maps a flow to the gate by its portState and its handler's location; the only step
  that could open the gate unearned is the handler's write, and `GateInv` leads from it
  to the confirmation, of which `JudgedByOwnPackets` says that the server answered.
* **InjectorStop.** A socket has one number and each generation's two numbers are at
  main's location what they should be; a sniffer or an injection holds a number of its
  generation while that runs, and once the flag is down a sniffer that comes back ends.
* **Forwarder.** `Progress` ties the endpoints a handler has been through to its index:
  the first so many from its base, in the order that wraps (`FirstOf`). Fewer than all
  of them are distinct and do not include the next (`FirstOfGrows`), and as many as
  there are endpoints are all of them (`FirstOfAll`). `Holding` gives the socket and
  the port at each location. Both speak of one handler only, so a step disturbs them
  for its own handler at most (`OthersKeep`). For the balance, `EvenInv` gives the
  number of each endpoint's choosers as the counter's quotient, and one more for those
  below its remainder.
* **FirstWrite.** `Unwritten`: a strategy that may still return false on a live upstream
  has written nothing. For what the upstream reads, `Sending`: what a live one has been
  sent and the pieces that are left make up one stream (`Sliced`), which is what was read
  or, where it was cut as a record, the two records it was cut into (`Wire`); once the
  upstream serves it has all of that, or all that was read where the handler wrote it
  itself, and then the rest. For streams of any length the lemmas say that each slicing
  is one (`PiecesSliced`, with `Chunked` for as many pieces as it takes), that two records
  for one keep the records and the data of what follows (`RecordsCut`), that records cut
  off anywhere are still records (`RecordsStop`), and that data adds up (`DataOfBoth`, by a
  least counterexample: `Induction`). `ReturnsFalseSend` is where `Unwritten` is needed:
  the handler's own write would otherwise follow a piece.
* **ControlService.** `StartLocked` shows that the flag is a lock over the gap between
  the two critical sections; `NothingToLose`, that what a start replaces is dead; and
  `Born`, that cores are numbered, so that a new one is not the child. For what an
  apply wrote: as long as nothing raced, an apply is `Alone` among those that may have
  a core in hand, and a core in hand that serves is `Fresh`, or the apply has yet to
  kill it. Since `ServiceJobs` implements `ControlService`, all this holds beside its
  jobs; `EndInv` adds what the watcher's `stopCore` could see. Of the jobs, `JobInv`
  says that a goroutine under way has its kind's flag and is the last one of the kind
  that was started, so that what it shows at its end is what was asked for last; and
  `MatrixInv` that a port is bound by the core of a matrix that has it. Two matrices with
  a port at a time would be two tests in the background, which the flag excludes.
* **ConfigFile.** Nothing is assumed of the writers. `Placed` keeps the temporary inode
  apart from what the path and the readers have. `Alone`: as long as the temporary inode
  is not shared, one writer at most is at work, and it has that inode open; a second one
  that opens it makes it shared, until the next truncation of a new one. `Prepared`: an
  inode that is not shared is empty before the write and complete before the rename.
  Then only a rename changes the path's value, and nothing changes what a reader has
  open (`Got`), unless the inode is shared: each step is a write or a read of
  `AtomicFile`, a write that tears, or none of them.
* **EndpointConfig.** Lists have any length, and the filter of the enabled endpoints is
  recursive: `FilterFilters` goes through its positions by a least counterexample
  (`Induction`) and says that it keeps those a core can serve, as many as there are. What
  a core loads is then `Settled`: each endpoint and listener has what it takes, resolved.
  A swap leaves it so, and normalising and filtering what is settled changes nothing a
  core serves (`SettledLoads`), so the file the core wrote leads back to it. `FileChosen`
  says that nothing in the file overrides what was chosen. For the second pass, `Filled`:
  no enabled endpoint and no listener lacks what the top would give it, which one pass
  achieves if the top lacks nothing itself; where it does, as after a blank was posted,
  the pass leaves the top equal to the first of the lists (`Leads`), which has then
  nothing to give. `ListedInv` is what no request can spoil of what the doctor asks for:
  of the list in the file, in the page's copy and in what a test holds, one endpoint is
  on. A file that is `Listed` and neither `Mismatched` nor `Incomplete` is accepted by
  doctor and core once it is normalised (`CompleteAccepted`). The two theorems with a
  hypothesis need it: from a file whose top is explicitly empty a second pass may go on
  filling in, and no restart brings back a core whose endpoints were all off from the
  beginning. `DefaultConfig` (`config.go:68-87`) gives the top to a file that does not
  name it.
* **DecoyPool.** Arithmetic of the window: halving keeps the minimum of samples, and a
  failure keeps "less than half" (`SampledBounds`), whatever was recorded late. For a
  decoy that stops passing, `Fading`: before a halving the failures in a row are all in
  the window; after one, what counts is by how much confirmations lead over failures,
  which every failure shortens by a sample and no halving lengthens (`FailureFades`).
* **AutoSwap.** `SwapInv`: what a scan counts as clean is a survivor in its own copy of
  the list, and the core is past the throttle from the request it takes until it swaps.
  `FileInv`: a scan that is not behind the file has every record of the file in the copy
  it works on, as long-lived and as clean; and neither a copy nor the file claims more
  failures in a row than there were, but for the addresses in doubt, of whose last
  success they may not tell. Then a record that `prune` drops at the save of such a scan
  was dropped for what the probes of its address gave, whoever made them.
* **WanWatch.** A switch that is owed has sent its request, or found one in the slot,
  and only the build that follows takes it; a candidate counted once was seen on the
  tick before.

### Only model-checked

Liveness under fairness, and with it every `~>` property.

## 6. What is not modelled

* The bytes of a ClientHello (`internal/tlsutil/builder.go`, `utls.go`, `jitter.go`):
  `FirstWrite` has one as a record with data.
* The relay and its byte counters: independent copies in two directions, of which
  `FirstWrite` has the one that continues the client's stream.
* The length of the backoff between rebuilds: `Recovery` lets a rebuild take any time.
* Routes, MAC learning and frame building of the injector: data of one frame.
* The Windows injector's handling of packets: that of `WrongSeq` with one decoy and
  without the failure on a mismatch. `InjectorStop` has its life; `WrongSeq` stays with
  Linux, whose handling is the richer one.
* The service's logs, client list, tokens and health page: reads, and a ring buffer.
* Which methods a matrix tries, how it sorts them, and the validation's messages;
  interactive configuration, logging, capability probes: no state between calls.
* Scripts and the web page: represented in `EndpointConfig` by a page with a stale copy.
* The overflow of the balancer's counter (`server.go:384`): the counter is a natural
  number in the model.

## 7. Plan

Done, in this order, the most important behaviour first: `Recovery`, `WrongSeq` with
`StrictGate`, `Forwarder`, `ControlService`, `ConfigFile` with `AtomicFile`,
`DecoyPool`, `EndpointConfig`, `WanWatch`, `AutoSwap`, `InjectorStop`; then
`FirstWrite` over `Forwarder`, `ServiceJobs` over `ControlService`, Windows in
`InjectorStop`, methods and the doctor in `EndpointConfig`; and the proofs of
section 5.

What is left: the Windows injector's packet handling, as a second instance of `WrongSeq`'s
registry.

## 8. Running it

    tlc -config MCRecovery.cfg MCRecovery      # any run: its cfg and its module
    tlapm RecoveryProofs.tla                   # any module of proofs

`PROJECT.json` names the runs, the map from definitions to lines of the source, the
mutants, the hazards and the theorems.
