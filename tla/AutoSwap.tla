------------------------------ MODULE AutoSwap ------------------------------
(***************************************************************************)
(* The edge scanner's hit-list (internal/scan/scan.go) and the core's      *)
(* auto-swap, which lives on it (autoSwapEndpoint, cmd/snispf/main.go).    *)
(*                                                                         *)
(* A scan loads the hit-list, probes its targets in parallel, folds every  *)
(* result into the list it loaded, prunes and writes it back.  The core's  *)
(* auto-swap scans the survivors when its endpoint fails; a scan from the  *)
(* web UI or the command line, in another process, scans any addresses;    *)
(* nothing keeps the scans of different processes from overlapping, and    *)
(* neither a list that cannot be read nor one that cannot be written stops *)
(* a scan.                                                                 *)
(* The counters are kept as far as the rules tell them apart; time runs in *)
(* units of the throttle and, for the month a survivor is kept, in one jump.*)
(***************************************************************************)
EXTENDS Naturals

CONSTANTS
  IPs,         \* the edge addresses
  Core,        \* the core's auto-swap
  Others,      \* scans by other processes
  DropStreak,  \* hitDropFailStreak
  DropSeen,    \* failures after which a never-clean address goes: 3
  Throttle,    \* the auto-swap's 30s, in units of the clock
  MaxTurns,    \* bound: changes of what a probe of an address gives
  MaxScans,    \* bound: scans by other processes
  MaxMonths,   \* bound: how often hitKeepDays pass
  MaxFaults    \* bound: loads and saves that fail

ASSUME AutoSwapAssumption ==
  /\ Core \notin Others
  /\ DropStreak \in Nat \ {0}
  /\ DropSeen \in Nat \ {0}
  /\ Throttle \in Nat
  /\ MaxTurns \in Nat
  /\ MaxScans \in Nat
  /\ MaxMonths \in Nat
  /\ MaxFaults \in Nat

Scans == {Core} \cup Others

VARIABLES
  status,     \* the network: what a probe of an address gives
  file,       \* cf_hits.json: the records, by address
  scanning,   \* the scans under way
  hits,       \* the list each of them loaded and updates
  targets,    \* the addresses each still has to probe
  clean,      \* the addresses each has found clean
  trying,     \* the core handles a request: it checks its endpoint next
  endpoint,   \* cfg.ConnectIP
  sinceSwap,  \* the time since lastSwapAt, up to Throttle + 1
  failed,     \* history: the failed probes of an address in a row
  behind,     \* history: the scans whose list is not the file's: it could not be
              \* loaded, or another scan has saved since
  doubt,      \* history: the addresses of whose last success a scan's list may not tell
  doubted,    \* history: likewise of the file
  turns, scans, months, faults  \* count against their bounds

historyVars == <<failed, behind, doubt, doubted>>
scanVars    == <<file, scanning, hits, targets, clean, historyVars>>
coreVars    == <<trying, endpoint, sinceSwap>>
boundVars   == <<turns, scans, months, faults>>
vars        == <<status, scanVars, coreVars, boundVars>>

\* ok and alert are one: a clean path.  dpi: TCP opens, the handshake does not.
Statuses == {"clean", "dpi", "blocked"}

\* hitRec: Clean > 0, Seen up to DropSeen, FailStreak, LastClean < cutoff.
Recs == [clean : BOOLEAN, seen : 0 .. DropSeen, streak : 0 .. DropStreak, aged : BOOLEAN]

HitLists == UNION {[S -> Recs] : S \in SUBSET IPs}

Clock == 0 .. Throttle + 1

TypeOK ==
  /\ status \in [IPs -> Statuses]
  /\ file \in HitLists
  /\ scanning \subseteq Scans
  /\ hits \in [Scans -> HitLists]
  /\ targets \in [Scans -> SUBSET IPs]
  /\ clean \in [Scans -> SUBSET IPs]
  /\ trying \in BOOLEAN
  /\ endpoint \in IPs
  /\ sinceSwap \in Clock
  /\ failed \in [IPs -> 0 .. DropStreak]
  /\ behind \subseteq Scans
  /\ doubt \in [Scans -> SUBSET IPs]
  /\ doubted \subseteq IPs
  /\ turns \in 0 .. MaxTurns
  /\ scans \in 0 .. MaxScans
  /\ months \in 0 .. MaxMonths
  /\ faults \in 0 .. MaxFaults

\* The core starts on an edge that works, with a hit-list of clean addresses.
Init ==
  /\ status \in [IPs -> Statuses]
  /\ \E S \in SUBSET IPs :
       file = [ip \in S |-> [clean |-> TRUE, seen |-> 1, streak |-> 0, aged |-> FALSE]]
  /\ scanning = {}
  /\ hits = [s \in Scans |-> << >>]
  /\ targets = [s \in Scans |-> {}]
  /\ clean = [s \in Scans |-> {}]
  /\ trying = FALSE
  /\ endpoint \in {ip \in IPs : status[ip] = "clean"}
  /\ sinceSwap = Throttle + 1
  /\ failed = [ip \in IPs |-> 0]
  /\ behind = {}
  /\ doubt = [s \in Scans |-> {}]
  /\ doubted = {}
  /\ turns = 0
  /\ scans = 0
  /\ months = 0
  /\ faults = 0

UpTo(bound, n) == IF n < bound THEN n ELSE bound

-----------------------------------------------------------------------------
(* The hit-list.                                                           *)

\* survivors
Survivors(list) == {ip \in DOMAIN list : list[ip].clean}

NoRec == [clean |-> FALSE, seen |-> 0, streak |-> 0, aged |-> FALSE]

Rec(list, ip) == IF ip \in DOMAIN list THEN list[ip] ELSE NoRec

\* update: the record of a probed address, made when there is none.
Updated(list, ip, st) ==
  LET r == Rec(list, ip)
      new == IF st = "clean"
               THEN [clean |-> TRUE, seen |-> UpTo(DropSeen, r.seen + 1),
                     streak |-> 0, aged |-> FALSE]
               ELSE [r EXCEPT !.seen = UpTo(DropSeen, @ + 1),
                              !.streak = UpTo(DropStreak, @ + 1)]
  IN  [i \in DOMAIN list \cup {ip} |-> IF i = ip THEN new ELSE list[i]]

\* Mutant of Dropped: an address seen often goes with its first failure, though
\* it was clean before.
DroppedUntested(r) ==
  \/ r.streak >= DropStreak
  \/ r.clean /\ r.aged
  \/ r.streak > 0 /\ r.seen >= DropSeen

\* What prune drops.
Dropped(r) ==
  \/ r.streak >= DropStreak
  \/ r.clean /\ r.aged
  \/ ~r.clean /\ r.seen >= DropSeen

\* prune
Pruned(list) == [ip \in {i \in DOMAIN list : ~Dropped(list[i])} |-> list[ip]]

-----------------------------------------------------------------------------
(* A scan (scan.Run).                                                      *)

\* A step that meets an error that the code ignores.
Fault == faults < MaxFaults /\ faults' = faults + 1

\* What scans have found clean and not saved yet.
Unsaved == UNION {clean[s] : s \in scanning}

\* The list a scan begins with, and the targets: the survivors and what else was
\* asked for.
LoadList(s, list, more) ==
  /\ s \notin scanning
  /\ scanning' = scanning \cup {s}
  /\ hits' = [hits EXCEPT ![s] = list]
  /\ targets' = [targets EXCEPT ![s] = Survivors(list) \cup more]
  /\ clean' = [clean EXCEPT ![s] = {}]
  /\ UNCHANGED <<status, file, failed, doubted, endpoint, sinceSwap, months, turns>>

\* loadHits; a list that cannot be read or parsed counts as an empty one.
Load(s, more) ==
  \/ /\ LoadList(s, file, more)
     /\ behind' = behind \ {s}
     /\ doubt' = [doubt EXCEPT ![s] = doubted \cup Unsaved]
     /\ UNCHANGED faults
  \/ /\ LoadList(s, << >>, more)
     /\ behind' = behind \cup {s}
     /\ doubt' = [doubt EXCEPT ![s] = {}]
     /\ Fault

\* A probe ends: its result goes into the list.
Probe(s, ip) ==
  /\ s \in scanning
  /\ ip \in targets[s]
  /\ targets' = [targets EXCEPT ![s] = @ \ {ip}]
  /\ hits' = [hits EXCEPT ![s] = Updated(@, ip, status[ip])]
  /\ IF status[ip] = "clean"
       THEN /\ clean' = [clean EXCEPT ![s] = @ \cup {ip}]
            /\ failed' = [failed EXCEPT ![ip] = 0]
            /\ doubt' = [t \in Scans |-> IF t = s THEN doubt[t] \ {ip}
                                        ELSE IF t \in scanning THEN doubt[t] \cup {ip}
                                        ELSE doubt[t]]
       ELSE /\ failed' = [failed EXCEPT ![ip] = UpTo(DropStreak, @ + 1)]
            /\ UNCHANGED <<clean, doubt>>
  /\ UNCHANGED <<status, file, scanning, behind, doubted, coreVars, boundVars>>

\* Every probe has ended: prune and saveHits, whose error is ignored.  The scan's
\* own list is gone.
Save(s) ==
  /\ s \in scanning
  /\ targets[s] = {}
  /\ \/ /\ file' = Pruned(hits[s])
        /\ behind' = scanning \ {s}
        /\ doubted' = doubt[s]
        /\ UNCHANGED faults
     \/ /\ Fault
        /\ behind' = behind \ {s}
        /\ doubted' = doubted \cup clean[s]
        /\ UNCHANGED file
  /\ scanning' = scanning \ {s}
  /\ hits' = [hits EXCEPT ![s] = << >>]
  /\ clean' = [clean EXCEPT ![s] = {}]
  /\ doubt' = [doubt EXCEPT ![s] = {}]
  /\ UNCHANGED <<status, targets, failed, trying, turns, scans, months>>

\* A scan from the web UI or the command line: survivors and other addresses.
OtherLoad(s) ==
  /\ scans < MaxScans
  /\ scans' = scans + 1
  /\ \E more \in SUBSET IPs : Load(s, more)
  /\ UNCHANGED trying

\* The time of such a scan, 200 seconds, is up: it starts no further probe.
OtherCut(s) ==
  /\ s \in scanning
  /\ targets[s] # {}
  /\ targets' = [targets EXCEPT ![s] = {}]
  /\ UNCHANGED <<status, file, scanning, hits, clean, historyVars, coreVars, boundVars>>

OtherSave(s) == Save(s) /\ UNCHANGED <<endpoint, sinceSwap>>

-----------------------------------------------------------------------------
(* The core.                                                               *)

\* A request is handled whose reason is a failing endpoint, which a stale WAN
\* also makes fail.  A throttled request only rebuilds.
Failing ==
  /\ Core \notin scanning /\ ~trying
  /\ sinceSwap > Throttle
  /\ trying' = TRUE
  /\ UNCHANGED <<status, scanVars, endpoint, sinceSwap, boundVars>>

\* Mutant of Keep: the endpoint is kept whatever the dial says.
KeepAny ==
  /\ trying
  /\ trying' = FALSE
  /\ UNCHANGED <<status, scanVars, endpoint, sinceSwap, boundVars>>

\* endpointReachable: TCP opens, so the endpoint is kept.
Keep ==
  /\ trying
  /\ status[endpoint] # "blocked"
  /\ trying' = FALSE
  /\ UNCHANGED <<status, scanVars, endpoint, sinceSwap, boundVars>>

\* It does not: the survivors are scanned.
Rescan ==
  /\ trying
  /\ status[endpoint] = "blocked"
  /\ Load(Core, {})
  /\ trying' = FALSE
  /\ UNCHANGED scans

\* Mutant of Swap: the best known address is taken, clean in this scan or not.
SwapToKnown ==
  /\ Save(Core)
  /\ \E best \in DOMAIN hits[Core] : endpoint' = best
  /\ sinceSwap' = 0

\* rep.Best, the fastest clean address, becomes the endpoint.
Swap ==
  /\ Save(Core)
  /\ \E best \in clean[Core] \ {endpoint} : endpoint' = best
  /\ sinceSwap' = 0

\* Nothing clean, or the endpoint itself is the fastest.
NoSwap ==
  /\ Save(Core)
  /\ clean[Core] = {} \/ endpoint \in clean[Core]
  /\ UNCHANGED <<endpoint, sinceSwap>>

-----------------------------------------------------------------------------
(* The world.                                                              *)

\* An address starts or stops to work.
Turn(ip) ==
  /\ turns < MaxTurns
  /\ turns' = turns + 1
  /\ \E st \in Statuses \ {status[ip]} : status' = [status EXCEPT ![ip] = st]
  /\ UNCHANGED <<scanVars, coreVars, scans, months, faults>>

Tick ==
  /\ sinceSwap <= Throttle
  /\ sinceSwap' = sinceSwap + 1
  /\ UNCHANGED <<status, scanVars, trying, endpoint, boundVars>>

Aged(list) == [ip \in DOMAIN list |-> [list[ip] EXCEPT !.aged = list[ip].clean]]

\* hitKeepDays pass; no scan takes that long.
Month ==
  /\ months < MaxMonths
  /\ scanning = {}
  /\ months' = months + 1
  /\ file' = Aged(file)
  /\ UNCHANGED <<status, scanning, hits, targets, clean, historyVars, coreVars, turns, scans, faults>>

-----------------------------------------------------------------------------

CoreStep ==
  Failing \/ Keep \/ Rescan \/ (\E ip \in IPs : Probe(Core, ip)) \/ Swap \/ NoSwap

OtherScan(s) == (\E ip \in IPs : Probe(s, ip)) \/ OtherCut(s) \/ OtherSave(s)

Next ==
  \/ CoreStep
  \/ \E s \in Others : OtherLoad(s) \/ OtherScan(s)
  \/ \E ip \in IPs : Turn(ip)
  \/ Tick
  \/ Month

Spec == Init /\ [][Next]_vars

\* An endpoint that fails keeps failing connections, which ask for recovery
\* (Recovery); probes have a timeout; time passes.
Fairness ==
  /\ WF_vars(CoreStep)
  /\ \A s \in Others : WF_vars(OtherScan(s))
  /\ WF_vars(Tick)

FairSpec == Spec /\ Fairness

-----------------------------------------------------------------------------
(* Properties.                                                             *)

\* "keeps a per-IP survivor hit-list" (README.md:22): a survivor is forgotten only
\* after DropStreak failed probes in a row, whichever process made them, or when no
\* scan has found it clean for hitKeepDays (scan.go:446-455), or by a scan that
\* does not know better: one that could not load the list, or loaded it before
\* another saved, or to whose list the last success of this address never came,
\* since the scan that had it was not done, or could not save.
ForgottenForCause ==
  [][\A ip \in Survivors(file) \ DOMAIN file' :
       \/ failed[ip] >= DropStreak
       \/ file[ip].aged
       \/ \E s \in scanning \ scanning' : s \in behind \/ ip \in doubt[s]]_vars

\* The core leaves an endpoint only for a survivor that answered cleanly in the
\* scan that the endpoint's failure started, and not again before the throttle
\* (main.go:373-378, 481-508).
SwapsForCause ==
  [][endpoint' # endpoint =>
       /\ endpoint' \in clean[Core] \cap Survivors(hits[Core])
       /\ sinceSwap > Throttle]_vars

\* While a survivor works and the other addresses are dead, and the list can be
\* read and written, the core ends up on the survivor, however often it swapped
\* before, whatever the list lost, and whichever scans overlap (changelog.md:24
\* "switches to the lowest-RTT edge that still passes").
EndsOnSurvivor ==
  \A ip \in IPs :
    []((/\ scanning = {} /\ ip \in Survivors(file)
        /\ ~file[ip].aged /\ months = MaxMonths /\ faults = MaxFaults
        /\ [](status = [i \in IPs |-> IF i = ip THEN "clean" ELSE "blocked"]))
       => <>(endpoint = ip))
=============================================================================
