------------------------------ MODULE WanWatch ------------------------------
(***************************************************************************)
(* The WAN watcher of the core (watchWAN, cmd/snispf/main.go) against the  *)
(* interface the runtimes are really bound to (buildSingleRuntime).        *)
(*                                                                         *)
(* Both resolve INTERFACE for themselves, in two reads: the device's name, *)
(* which for "auto" takes dials on every candidate, and then its address.  *)
(* The watcher compares what it sees with what it saw last, not with what  *)
(* a build bound.  The kernel's interfaces change under both.              *)
(***************************************************************************)
EXTENDS Naturals

CONSTANTS
  Names,        \* the physical devices (rmnet, wlan, ...)
  Leases,       \* the addresses each of them may get
  Automatic,    \* the setting "auto"
  None,         \* no device, no address
  Interface,    \* cfg.Interface: Automatic or the name of a device
  Debounce,     \* candCount's threshold: 2 in the code
  MaxChanges,   \* bound: changes of the kernel's interfaces
  MaxCritical   \* bound: rebuilds asked for by failing servers

ASSUME WanAssumption ==
  /\ Interface \in {Automatic} \cup Names
  /\ Automatic \notin Names
  /\ DOMAIN Leases = Names
  /\ None \notin Names \cup UNION {Leases[n] : n \in Names}
  /\ Debounce \in Nat \ {0, 1}
  /\ MaxChanges \in Nat
  /\ MaxCritical \in Nat

Addrs == UNION {Leases[n] : n \in Names}

VARIABLES
  addr,      \* the kernel: each device's address, None while it is down
  pc,        \* main: "build", "named" (device chosen), "select"
  picked,    \* the device the build in progress resolved
  bound,     \* what the published runtimes are bound to
  chan,      \* a request waits in restartReqCh
  wpc,       \* the watcher: "off", "start", "started", "tick", "ticked"
  sight,     \* the device the watcher's resolve found
  last,      \* lastName, lastIP
  cand,      \* candName, candIP
  candCount,
  previous,  \* history: what the watcher's previous tick saw
  owed,      \* history: no build has resolved since the watcher's last switch
  changes,   \* counts against MaxChanges
  critical   \* counts against MaxCritical

mainVars    == <<pc, picked, bound>>
watchVars   == <<wpc, sight, last, cand, candCount, previous>>
countVars   == <<changes, critical>>
wanVars        == <<addr, mainVars, chan, watchVars, owed, countVars>>

Devices  == Names \cup {None}
Bindings == Devices \X (Addrs \cup {None})

WanTypeOK ==
  /\ addr \in [Names -> Addrs \cup {None}]
  /\ pc \in {"build", "named", "select"}
  /\ picked \in Devices
  /\ bound \in Bindings
  /\ chan \in BOOLEAN
  /\ wpc \in {"off", "start", "started", "tick", "ticked"}
  /\ sight \in Devices
  /\ last \in Bindings
  /\ cand \in Bindings
  /\ candCount \in 0 .. Debounce - 1
  /\ previous \in Bindings
  /\ owed \in BOOLEAN
  /\ changes \in 0 .. MaxChanges
  /\ critical \in 0 .. MaxCritical

Nothing == <<None, None>>

WanInit ==
  /\ addr \in {a \in [Names -> Addrs \cup {None}] :
                \A n \in Names : a[n] \in Leases[n] \cup {None}}
  /\ pc = "build"
  /\ picked = None
  /\ bound = Nothing
  /\ chan = FALSE
  /\ wpc = "off"
  /\ sight = None
  /\ last = Nothing
  /\ cand = Nothing
  /\ candCount = 0
  /\ previous = Nothing
  /\ owed = FALSE
  /\ changes = 0
  /\ critical = 0

-----------------------------------------------------------------------------
(* Resolving the interface.                                                *)

\* physicalCandidates: the devices that are up with a usable address.
Candidates == {n \in Names : addr[n] # None}

\* ResolveWAN: a forced device as it is; for "auto" PhysicalWANInterface, the
\* candidate whose dial is fastest, or the first: the network decides which.
ResolveWAN ==
  IF Interface # Automatic THEN {Interface}
  ELSE IF Candidates = {} THEN {None}
  ELSE Candidates

\* InterfaceIPv4
InterfaceIPv4(n) == IF n = None THEN None ELSE addr[n]

\* A device comes up, goes down, or gets another address.
Change(n) ==
  /\ changes < MaxChanges
  /\ changes' = changes + 1
  /\ \E a \in Leases[n] \cup {None} : a # addr[n] /\ addr' = [addr EXCEPT ![n] = a]
  /\ UNCHANGED <<mainVars, chan, watchVars, owed, critical>>

-----------------------------------------------------------------------------
(* The main goroutine.                                                     *)

\* A request is taken; auto-swap and backoff only delay the build.
Receive ==
  /\ pc = "select" /\ chan
  /\ chan' = FALSE
  /\ pc' = "build"
  /\ UNCHANGED <<addr, picked, bound, watchVars, owed, countVars>>

\* buildSingleRuntime resolves the device ...
BuildName ==
  /\ pc = "build"
  /\ picked' \in ResolveWAN
  /\ pc' = "named"
  /\ owed' = FALSE
  /\ UNCHANGED <<addr, bound, chan, watchVars, countVars>>

\* Mutant of BuildAddr: a rebuild keeps the interface of the first build.
BuildAddrOnce ==
  /\ pc = "named"
  /\ bound' = IF wpc = "off" THEN <<picked, InterfaceIPv4(picked)>> ELSE bound
  /\ pc' = "select"
  /\ wpc' = IF wpc = "off" THEN "start" ELSE wpc
  /\ UNCHANGED <<addr, picked, chan, sight, last, cand, candCount, previous,
                 owed, countVars>>

\* ... and its address (None: the route's default source address), and the
\* runtimes are published.  The watcher is started after the first build.
BuildAddr ==
  /\ pc = "named"
  /\ bound' = <<picked, InterfaceIPv4(picked)>>
  /\ pc' = "select"
  /\ wpc' = IF wpc = "off" THEN "start" ELSE wpc
  /\ UNCHANGED <<addr, picked, chan, sight, last, cand, candCount, previous,
                 owed, countVars>>

\* A rebuild failed: again in 5s.  (The first build's failure ends the core.)
BuildFails ==
  /\ pc = "named"
  /\ wpc # "off"
  /\ pc' = "build"
  /\ UNCHANGED <<addr, picked, bound, chan, watchVars, owed, countVars>>

\* Mutant of Ask: a request made while main is rebuilding is dropped.
AskIdle == chan' = (chan \/ pc = "select")

\* onCriticalRestart: dropped when the slot is taken.
Ask == chan' = TRUE

\* reportFailure of a server that failed too often in a row.
Critical ==
  /\ wpc # "off"
  /\ critical < MaxCritical
  /\ critical' = critical + 1
  /\ Ask
  /\ UNCHANGED <<addr, mainVars, watchVars, owed, changes>>

-----------------------------------------------------------------------------
(* The watcher.                                                            *)

\* resolve() picks the device, before the loop or on a tick.
SightName ==
  /\ \/ wpc = "start" /\ wpc' = "started"
     \/ wpc = "tick" /\ wpc' = "ticked"
  /\ sight' \in ResolveWAN
  /\ UNCHANGED <<addr, mainVars, chan, last, cand, candCount, previous, owed, countVars>>

Seen == <<sight, InterfaceIPv4(sight)>>

\* lastName, lastIP := resolve()
Start ==
  /\ wpc = "started"
  /\ wpc' = "tick"
  /\ last' = Seen
  /\ UNCHANGED <<addr, mainVars, chan, sight, cand, candCount, previous, owed, countVars>>

\* On a tick resolve() reads the address; every outcome keeps it as previous.
Ticked ==
  /\ wpc = "ticked"
  /\ wpc' = "tick"
  /\ previous' = Seen
  /\ UNCHANGED <<addr, mainVars, sight, countVars>>

Unusable == sight = None \/ Seen[2] = None

\* Mutant of Steady: a flap back does not end the candidate's run.
SteadyKeepsCount ==
  /\ Ticked
  /\ Unusable \/ Seen = last
  /\ UNCHANGED <<last, cand, candCount, chan, owed>>

\* No usable WAN, or the one known: the candidate's run is over.
Steady ==
  /\ Ticked
  /\ Unusable \/ Seen = last
  /\ candCount' = 0
  /\ UNCHANGED <<last, cand, chan, owed>>

\* How often in a row the candidate was seen, this tick included.
Count == IF Seen = cand THEN candCount + 1 ELSE 1

\* Another value, not yet for long enough.
Suspect ==
  /\ Ticked
  /\ ~Unusable /\ Seen # last
  /\ Count < Debounce
  /\ cand' = Seen
  /\ candCount' = Count
  /\ UNCHANGED <<last, chan, owed>>

\* Another value for long enough: it is the WAN now, rebuild.
Switch ==
  /\ Ticked
  /\ ~Unusable /\ Seen # last
  /\ Count >= Debounce
  /\ cand' = Seen
  /\ candCount' = 0
  /\ last' = Seen
  /\ Ask
  /\ owed' = TRUE

-----------------------------------------------------------------------------

Main == Receive \/ BuildName \/ BuildAddr

Watch == SightName \/ Start \/ Steady \/ Suspect \/ Switch

WanNext ==
  \/ \E n \in Names : Change(n)
  \/ Main
  \/ BuildFails
  \/ Critical
  \/ Watch

WanSpec == WanInit /\ [][WanNext]_wanVars

\* Goroutines that can run do, the ticker ticks, and builds do not fail for ever.
WanFairness == WF_wanVars(Main) /\ SF_wanVars(BuildAddr) /\ WF_wanVars(Watch)

WanFairSpec == WanSpec /\ WanFairness

-----------------------------------------------------------------------------
(* Properties.                                                             *)

\* "Debounced (new value must persist two ticks) to ride out brief flaps"
\* (main.go:570-571): once the watcher is started it takes over a WAN only on a
\* tick that saw it right after a tick that saw it.
Debounced ==
  [][wpc = "ticked" /\ last' # last => last' = previous]_wanVars

\* A switch is never lost in the one-slot channel (main.go:256-262, 611): until
\* a build has resolved the interface anew, a request waits or main is about to
\* resolve it.
SwitchIsHeard == owed => chan \/ pc = "build"

\* From now on the WAN is v, whoever resolves it.
Settled(v) ==
  /\ InterfaceIPv4(v[1]) = v[2]
  /\ ResolveWAN = {v[1]}

Usable == Names \X Addrs

\* A WAN that stays, and that the watcher does not know when it settles, ends up
\* as the one the runtimes are bound to (main.go:608-612, 690-708).
SwitchRebinds ==
  \A v \in Usable :
    []((wpc \in {"tick", "ticked"} /\ last # v /\ []Settled(v)) => <>(bound = v))
=============================================================================
