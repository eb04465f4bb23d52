--------------------------- MODULE NetworkProofs ---------------------------
(***************************************************************************)
(* Proofs about the two ways by which the core follows the network: the    *)
(* auto-swap of its endpoint and the hit-list it lives on (AutoSwap), and  *)
(* the watcher of its WAN (WanWatch).                                      *)
(*                                                                         *)
(* For any addresses and scans, overlapping or not, the core swaps for     *)
(* cause (SwapInv), and a survivor is forgotten for cause: the list of a   *)
(* scan that is not behind has what the file has, and no list that did not *)
(* miss an address's last success has more failures of it than there were  *)
(* in a row (FileInv).                                                     *)
(***************************************************************************)
EXTENDS AutoSwap, WanWatch, TLAPS

\* What a scan found clean is a survivor of the list it will save; the core has
\* the throttle behind it from the request it handles until it swaps.
SwapInv ==
  /\ \A s \in Scans : clean[s] \subseteq Survivors(hits[s])
  /\ trying \/ Core \in scanning => sinceSwap > Throttle
  /\ Core \in scanning => ~trying

\* No more failures are on record than there were in a row, but for some addresses.
Founded(list, inARow, but) == \A ip \in DOMAIN list \ but : list[ip].streak <= inARow[ip]

\* A list that a scan updates still has what was saved.
Extends(list, saved) ==
  /\ DOMAIN saved \subseteq DOMAIN list
  /\ \A ip \in DOMAIN saved :
       /\ saved[ip].clean => list[ip].clean
       /\ list[ip].aged => saved[ip].aged

FileInv ==
  /\ Founded(file, failed, doubted \cup Unsaved)
  /\ \A s \in scanning : Founded(hits[s], failed, doubt[s])
  /\ \A s \in scanning \ behind : Extends(hits[s], file)

-----------------------------------------------------------------------------
(* Hit-lists.                                                              *)

LEMMA ListIsFunction ==
  ASSUME NEW list \in HitLists
  PROVE  /\ DOMAIN list \subseteq IPs
         /\ \A ip \in DOMAIN list : list[ip] \in Recs
         /\ Survivors(list) \subseteq DOMAIN list
  BY DEF HitLists, Survivors

LEMMA FunctionIsList ==
  ASSUME NEW S \in SUBSET IPs, NEW list \in [S -> Recs]
  PROVE  list \in HitLists
  BY DEF HitLists

LEMMA EmptyIsList ==
  /\ << >> \in HitLists
  /\ DOMAIN << >> = {}
  /\ Survivors(<< >>) = {}
<1> DEFINE none == << >>
<1>1. none \in [{} -> Recs] /\ DOMAIN none = {}
  OBVIOUS
<1>2. none \in HitLists
  BY <1>1, FunctionIsList
<1> QED BY <1>1, <1>2 DEF Survivors

LEMMA RecIsRec ==
  ASSUME NEW list \in HitLists, NEW ip \in IPs
  PROVE  Rec(list, ip) \in Recs
<1>1. NoRec \in Recs
  BY AutoSwapAssumption DEF NoRec, Recs
<1> QED BY <1>1, ListIsFunction DEF Rec

\* A result leaves the records of the other addresses alone, and makes a survivor
\* of an address that is clean; one that is not clean stays what it is.
UpdateOf(new, list, ip, st) ==
  /\ DOMAIN new = DOMAIN list \cup {ip}
  /\ \A i \in DOMAIN list \ {ip} : new[i] = list[i]
  /\ new[ip].clean <=> st = "clean" \/ Rec(list, ip).clean
  /\ new[ip].aged => Rec(list, ip).aged
  /\ st = "clean" => new[ip].streak = 0
  /\ st # "clean" => new[ip].streak = UpTo(DropStreak, Rec(list, ip).streak + 1)

LEMMA UpdatedList ==
  ASSUME NEW list \in HitLists, NEW ip \in IPs, NEW st \in Statuses
  PROVE  Updated(list, ip, st) \in HitLists /\ UpdateOf(Updated(list, ip, st), list, ip, st)
<1> DEFINE r   == Rec(list, ip)
           ok  == [clean |-> TRUE, seen |-> UpTo(DropSeen, r.seen + 1),
                   streak |-> 0, aged |-> FALSE]
           bad == [r EXCEPT !.seen = UpTo(DropSeen, @ + 1), !.streak = UpTo(DropStreak, @ + 1)]
           new == IF st = "clean" THEN ok ELSE bad
<1>1. r \in Recs
  BY RecIsRec
<1>2. /\ UpTo(DropSeen, r.seen + 1) \in 0 .. DropSeen
      /\ UpTo(DropStreak, r.streak + 1) \in 0 .. DropStreak
      /\ 0 \in 0 .. DropStreak
  <2>1. DropSeen \in Nat /\ DropStreak \in Nat
    BY AutoSwapAssumption
  <2>2. r.seen \in 0 .. DropSeen /\ r.streak \in 0 .. DropStreak
    BY <1>1 DEF Recs
  <2> HIDE DEF r
  <2> QED BY <2>1, <2>2 DEF UpTo
<1>3. ok \in Recs
  BY <1>2 DEF Recs
<1>4. bad \in Recs /\ bad.clean = r.clean /\ bad.aged = r.aged
      /\ bad.streak = UpTo(DropStreak, r.streak + 1)
  BY <1>1, <1>2 DEF Recs
<1>5. new \in Recs
  BY <1>3, <1>4
<1>6. Updated(list, ip, st) = [i \in DOMAIN list \cup {ip} |-> IF i = ip THEN new ELSE list[i]]
  BY DEF Updated
<1>7. /\ DOMAIN list \cup {ip} \in SUBSET IPs
      /\ \A i \in DOMAIN list : list[i] \in Recs
  BY ListIsFunction
<1> HIDE DEF new
<1>8. Updated(list, ip, st) \in [DOMAIN list \cup {ip} -> Recs]
  BY <1>5, <1>6, <1>7
<1>9. Updated(list, ip, st)[ip] = new
  BY <1>6
<1>10. Updated(list, ip, st) \in HitLists
  BY <1>7, <1>8, FunctionIsList
<1>11. /\ DOMAIN Updated(list, ip, st) = DOMAIN list \cup {ip}
       /\ \A i \in DOMAIN list \ {ip} : Updated(list, ip, st)[i] = list[i]
  BY <1>6
<1>12. r.clean \in BOOLEAN /\ r.aged \in BOOLEAN
  BY <1>1 DEF Recs
<1>13. /\ new.clean <=> st = "clean" \/ r.clean
       /\ new.aged => r.aged
       /\ st = "clean" => new.streak = 0
       /\ st # "clean" => new.streak = UpTo(DropStreak, r.streak + 1)
  <2>1. CASE st = "clean"
    <3>1. new = ok
      BY <2>1 DEF new
    <3> HIDE DEF new, r
    <3> QED BY <2>1, <3>1
  <2>2. CASE st # "clean"
    <3>1. new = bad
      BY <2>2 DEF new
    <3> HIDE DEF new, r, bad
    <3> QED BY <1>4, <1>12, <2>2, <3>1
  <2> QED BY <2>1, <2>2
<1> DEFINE out == Updated(list, ip, st)
<1> HIDE DEF r, out
<1>14. UpdateOf(out, list, ip, st)
  <2>1. out[ip] = new /\ r = Rec(list, ip)
    BY <1>9 DEF out, r
  <2>2. DOMAIN out = DOMAIN list \cup {ip} /\ \A i \in DOMAIN list \ {ip} : out[i] = list[i]
    BY <1>11 DEF out
  <2> HIDE DEF new
  <2> QED BY <1>13, <2>1, <2>2 DEF UpdateOf
<1> QED BY <1>10, <1>14 DEF out

LEMMA PrunedList ==
  ASSUME NEW list \in HitLists
  PROVE  /\ Pruned(list) \in HitLists
         /\ DOMAIN Pruned(list) = {ip \in DOMAIN list : ~Dropped(list[ip])}
         /\ \A ip \in DOMAIN Pruned(list) : Pruned(list)[ip] = list[ip]
<1> DEFINE kept == {ip \in DOMAIN list : ~Dropped(list[ip])}
<1>1. Pruned(list) = [ip \in kept |-> list[ip]]
  BY DEF Pruned
<1>2. kept \in SUBSET IPs /\ \A ip \in kept : list[ip] \in Recs
  BY ListIsFunction
<1>3. Pruned(list) \in [kept -> Recs]
  BY <1>1, <1>2
<1> QED BY <1>1, <1>2, <1>3, FunctionIsList

LEMMA AgedList ==
  ASSUME NEW list \in HitLists
  PROVE  /\ Aged(list) \in HitLists
         /\ DOMAIN Aged(list) = DOMAIN list
         /\ \A ip \in DOMAIN list : Aged(list)[ip].streak = list[ip].streak
<1> DEFINE new(ip) == [list[ip] EXCEPT !.aged = list[ip].clean]
<1>1. DOMAIN list \in SUBSET IPs /\ \A ip \in DOMAIN list : list[ip] \in Recs
  BY ListIsFunction
<1>2. \A ip \in DOMAIN list : new(ip) \in Recs /\ new(ip).streak = list[ip].streak
  BY <1>1 DEF Recs
<1>3. Aged(list) = [ip \in DOMAIN list |-> new(ip)]
  BY DEF Aged
<1> HIDE DEF new
<1>4. Aged(list) \in [DOMAIN list -> Recs]
  BY <1>2, <1>3
<1> QED BY <1>1, <1>2, <1>3, <1>4, FunctionIsList


-----------------------------------------------------------------------------
(* Types, and the core's swaps.                                            *)

LEMMA InitTypes == Init => TypeOK
<1> SUFFICES ASSUME Init PROVE TypeOK
  OBVIOUS
<1>1. file \in HitLists
  <2>1. PICK S \in SUBSET IPs :
          file = [ip \in S |-> [clean |-> TRUE, seen |-> 1, streak |-> 0, aged |-> FALSE]]
    BY DEF Init
  <2>2. [clean |-> TRUE, seen |-> 1, streak |-> 0, aged |-> FALSE] \in Recs
    BY AutoSwapAssumption DEF Recs
  <2>3. file \in [S -> Recs]
    BY <2>1, <2>2
  <2> QED BY <2>3, FunctionIsList
<1>2. hits \in [Scans -> HitLists]
  BY EmptyIsList DEF Init
<1>3. /\ sinceSwap \in Clock /\ failed \in [IPs -> 0 .. DropStreak]
      /\ turns \in 0 .. MaxTurns /\ scans \in 0 .. MaxScans /\ months \in 0 .. MaxMonths
      /\ faults \in 0 .. MaxFaults
  BY AutoSwapAssumption DEF Init, Clock
<1>4. /\ status \in [IPs -> Statuses] /\ scanning \subseteq Scans /\ behind \subseteq Scans
      /\ doubt \in [Scans -> SUBSET IPs] /\ doubted \subseteq IPs
      /\ targets \in [Scans -> SUBSET IPs] /\ clean \in [Scans -> SUBSET IPs]
      /\ trying \in BOOLEAN /\ endpoint \in IPs
  BY DEF Init
<1> QED BY <1>1, <1>2, <1>3, <1>4 DEF TypeOK

LEMMA FaultTypes == TypeOK /\ Fault => faults' \in 0 .. MaxFaults
  BY AutoSwapAssumption DEF TypeOK, Fault

LEMMA UnsavedAddresses == TypeOK => Unsaved \subseteq IPs
  BY DEF TypeOK, Unsaved

LEMMA LoadTypes ==
  ASSUME TypeOK, NEW s \in Scans, NEW more \in SUBSET IPs, Load(s, more)
  PROVE  /\ hits' \in [Scans -> HitLists] /\ targets' \in [Scans -> SUBSET IPs]
         /\ clean' \in [Scans -> SUBSET IPs] /\ scanning' \subseteq Scans
         /\ behind' \subseteq Scans /\ doubt' \in [Scans -> SUBSET IPs]
         /\ faults' \in 0 .. MaxFaults
         /\ UNCHANGED <<status, file, failed, doubted, endpoint, sinceSwap, months, turns>>
<1>1. ASSUME NEW list \in HitLists, LoadList(s, list, more)
      PROVE  /\ hits' \in [Scans -> HitLists] /\ targets' \in [Scans -> SUBSET IPs]
             /\ clean' \in [Scans -> SUBSET IPs] /\ scanning' \subseteq Scans
             /\ UNCHANGED <<status, file, failed, doubted, endpoint, sinceSwap, months, turns>>
  <2>1. Survivors(list) \cup more \in SUBSET IPs
    BY ListIsFunction
  <2> QED BY <1>1, <2>1 DEF TypeOK, LoadList
<1>2. doubted \cup Unsaved \in SUBSET IPs
  BY UnsavedAddresses DEF TypeOK
<1>3. /\ behind' \subseteq Scans /\ doubt' \in [Scans -> SUBSET IPs]
      /\ faults' \in 0 .. MaxFaults
  BY <1>2, FaultTypes DEF TypeOK, Load
<1>4. LoadList(s, file, more) \/ LoadList(s, << >>, more)
  BY DEF Load
<1> QED BY <1>1, <1>3, <1>4, EmptyIsList DEF TypeOK

LEMMA SaveTypes ==
  ASSUME TypeOK, NEW s \in Scans, Save(s)
  PROVE  /\ file' \in HitLists /\ scanning' \subseteq Scans
         /\ hits' \in [Scans -> HitLists] /\ clean' \in [Scans -> SUBSET IPs]
         /\ behind' \subseteq Scans /\ doubt' \in [Scans -> SUBSET IPs] /\ doubted' \subseteq IPs
         /\ faults' \in 0 .. MaxFaults
         /\ UNCHANGED <<status, targets, failed, trying, turns, scans, months>>
<1>1. Pruned(hits[s]) \in HitLists
  BY PrunedList DEF TypeOK
<1>2. /\ scanning' = scanning \ {s}
      /\ hits' = [hits EXCEPT ![s] = << >>] /\ clean' = [clean EXCEPT ![s] = {}]
      /\ doubt' = [doubt EXCEPT ![s] = {}]
      /\ UNCHANGED <<status, targets, failed, trying, turns, scans, months>>
  BY DEF Save
<1>3. hits' \in [Scans -> HitLists]
  BY <1>2, EmptyIsList DEF TypeOK
<1>4. /\ file' \in HitLists /\ behind' \subseteq Scans /\ doubted' \subseteq IPs
      /\ faults' \in 0 .. MaxFaults
  BY <1>1, FaultTypes DEF Save, TypeOK
<1> QED BY <1>2, <1>3, <1>4 DEF TypeOK

LEMMA ProbeTypes ==
  ASSUME TypeOK, NEW s \in Scans, NEW ip \in IPs, Probe(s, ip)
  PROVE  TypeOK'
<1>1. /\ status[ip] \in Statuses /\ hits[s] \in HitLists
      /\ failed[ip] \in 0 .. DropStreak /\ DropStreak \in Nat
  BY AutoSwapAssumption DEF TypeOK
<1>2. Updated(hits[s], ip, status[ip]) \in HitLists
  BY <1>1, UpdatedList
<1>3. hits' \in [Scans -> HitLists]
  BY <1>2 DEF Probe, TypeOK
<1>4. UpTo(DropStreak, failed[ip] + 1) \in 0 .. DropStreak /\ 0 \in 0 .. DropStreak
  BY <1>1 DEF UpTo
<1>5. failed' \in [IPs -> 0 .. DropStreak] /\ clean' \in [Scans -> SUBSET IPs]
  BY <1>4 DEF Probe, TypeOK
<1>6. targets' \in [Scans -> SUBSET IPs] /\ doubt' \in [Scans -> SUBSET IPs]
  BY DEF Probe, TypeOK
<1> QED BY <1>3, <1>5, <1>6 DEF Probe, TypeOK, coreVars, boundVars

\* Of the core's own steps and of the world's, those that scan nothing.
LEMMA QuietTypes ==
  ASSUME TypeOK,
         \/ Failing \/ Keep \/ Tick \/ Month
         \/ \E ip \in IPs : Turn(ip)
         \/ \E s \in Others : OtherCut(s)
  PROVE  TypeOK'
<1> USE DEF scanVars, historyVars, coreVars, boundVars
<1>1. CASE Failing \/ Keep
  BY <1>1 DEF Failing, Keep, TypeOK
<1>2. CASE Tick
  <2>1. sinceSwap' \in Clock
    BY <1>2, AutoSwapAssumption DEF Tick, TypeOK, Clock
  <2> QED BY <1>2, <2>1 DEF Tick, TypeOK
<1>3. CASE Month
  <2>1. file' \in HitLists
    BY <1>3, AgedList DEF Month, TypeOK
  <2>2. months' \in 0 .. MaxMonths
    BY <1>3, AutoSwapAssumption DEF Month, TypeOK
  <2> QED BY <1>3, <2>1, <2>2 DEF Month, TypeOK
<1>4. CASE \E ip \in IPs : Turn(ip)
  <2>1. turns' \in 0 .. MaxTurns /\ status' \in [IPs -> Statuses]
    BY <1>4, AutoSwapAssumption DEF Turn, TypeOK
  <2> QED BY <1>4, <2>1 DEF Turn, TypeOK
<1>5. CASE \E s \in Others : OtherCut(s)
  <2>1. targets' \in [Scans -> SUBSET IPs]
    BY <1>5 DEF OtherCut, TypeOK
  <2> QED BY <1>5, <2>1 DEF OtherCut, TypeOK
<1> QED BY <1>1, <1>2, <1>3, <1>4, <1>5

LEMMA ScanTypes ==
  ASSUME TypeOK,
         \/ Rescan \/ Swap \/ NoSwap
         \/ \E s \in Others : OtherLoad(s) \/ OtherSave(s)
  PROVE  TypeOK'
<1> USE DEF boundVars
<1>1. Core \in Scans /\ Others \subseteq Scans
  BY DEF Scans
<1>2. CASE Rescan
  <2>1. Load(Core, {}) /\ trying' = FALSE /\ scans' = scans
    BY <1>2 DEF Rescan
  <2> QED BY <1>1, <2>1, LoadTypes DEF TypeOK
<1>3. CASE Swap
  <2>1. Save(Core) /\ sinceSwap' = 0 /\ endpoint' \in clean[Core]
    BY <1>3 DEF Swap
  <2>2. endpoint' \in IPs /\ sinceSwap' \in Clock
    BY <1>1, <2>1, AutoSwapAssumption DEF TypeOK, Clock
  <2> QED BY <1>1, <2>1, <2>2, SaveTypes DEF TypeOK
<1>4. CASE NoSwap
  <2>1. Save(Core) /\ UNCHANGED <<endpoint, sinceSwap>>
    BY <1>4 DEF NoSwap
  <2> QED BY <1>1, <2>1, SaveTypes DEF TypeOK
<1>5. ASSUME NEW s \in Others, OtherLoad(s)
      PROVE  TypeOK'
  <2>1. scans' \in 0 .. MaxScans /\ trying' = trying
    BY <1>5, AutoSwapAssumption DEF OtherLoad, TypeOK
  <2>2. PICK more \in SUBSET IPs : Load(s, more)
    BY <1>5 DEF OtherLoad
  <2> QED BY <1>1, <2>1, <2>2, LoadTypes DEF TypeOK
<1>6. ASSUME NEW s \in Others, OtherSave(s)
      PROVE  TypeOK'
  <2>1. Save(s) /\ UNCHANGED <<endpoint, sinceSwap>>
    BY <1>6 DEF OtherSave
  <2> QED BY <1>1, <2>1, SaveTypes DEF TypeOK
<1> QED BY <1>2, <1>3, <1>4, <1>5, <1>6

LEMMA StepTypes == TypeOK /\ [Next]_vars => TypeOK'
<1> SUFFICES ASSUME TypeOK, [Next]_vars PROVE TypeOK'
  OBVIOUS
<1>1. CASE UNCHANGED vars
  BY <1>1 DEF vars, scanVars, historyVars, coreVars, boundVars, TypeOK
<1>2. CASE \E s \in Scans, ip \in IPs : Probe(s, ip)
  BY <1>2, ProbeTypes
<1> QED
  BY <1>1, <1>2, QuietTypes, ScanTypes DEF Next, CoreStep, OtherScan, Scans

\* The auto-swap's variables and the hit-lists keep their types, the streaks and
\* the clock their bounds.
THEOREM SwapTypeCorrect == Spec => []TypeOK
  BY InitTypes, StepTypes, PTL DEF Spec


LEMMA InitSwapInv == Init => SwapInv
  BY EmptyIsList, AutoSwapAssumption DEF Init, SwapInv

\* What a probe does to the list it goes into.
LEMMA ProbeUpdates ==
  ASSUME TypeOK, NEW s \in Scans, NEW ip \in IPs, Probe(s, ip)
  PROVE  /\ hits'[s] = Updated(hits[s], ip, status[ip])
         /\ \A t \in Scans \ {s} : hits'[t] = hits[t] /\ clean'[t] = clean[t]
         /\ hits[s] \in HitLists /\ status[ip] \in Statuses
  BY DEF Probe, TypeOK

LEMMA ProbeSwapInv ==
  ASSUME TypeOK, SwapInv, NEW s \in Scans, NEW ip \in IPs, Probe(s, ip)
  PROVE  SwapInv'
<1>1. clean'[s] \subseteq Survivors(hits'[s])
  <2> DEFINE new == hits'[s]
  <2>1. /\ DOMAIN new = DOMAIN hits[s] \cup {ip}
        /\ \A i \in DOMAIN hits[s] \ {ip} : new[i] = hits[s][i]
        /\ new[ip].clean <=> status[ip] = "clean" \/ Rec(hits[s], ip).clean
    <3>1. /\ new = Updated(hits[s], ip, status[ip])
          /\ hits[s] \in HitLists /\ status[ip] \in Statuses
      BY ProbeUpdates
    <3> HIDE DEF new
    <3>2. UpdateOf(new, hits[s], ip, status[ip])
      BY <3>1, UpdatedList
    <3> QED BY <3>2 DEF UpdateOf
  <2>2. clean[s] \subseteq Survivors(hits[s])
    BY DEF SwapInv
  <2>3. \A i \in clean'[s] : i \in clean[s] \/ (i = ip /\ status[ip] = "clean")
    BY DEF Probe, TypeOK
  <2> HIDE DEF new
  <2> SUFFICES ASSUME NEW i \in clean'[s]
               PROVE  i \in DOMAIN new /\ new[i].clean
    BY DEF Survivors, new
  <2>4. CASE i = ip /\ status[ip] = "clean"
    BY <2>1, <2>4
  <2>5. CASE i \in clean[s]
    <3>1. i \in DOMAIN hits[s] /\ hits[s][i].clean
      BY <2>2, <2>5 DEF Survivors
    <3>2. i = ip => Rec(hits[s], ip) = hits[s][ip]
      BY <3>1 DEF Rec
    <3> QED BY <2>1, <3>1, <3>2
  <2> QED BY <2>3, <2>4, <2>5
<1>2. \A t \in Scans \ {s} : clean'[t] \subseteq Survivors(hits'[t])
  BY ProbeUpdates DEF SwapInv
<1> QED BY <1>1, <1>2 DEF Probe, SwapInv, coreVars

LEMMA LoadOrSaveSwapInv ==
  ASSUME TypeOK, SwapInv, NEW s \in Scans,
         Save(s) \/ \E more \in SUBSET IPs : Load(s, more)
  PROVE  \A t \in Scans : clean'[t] \subseteq Survivors(hits'[t])
<1>1. clean' = [clean EXCEPT ![s] = {}]
  BY DEF Save, Load, LoadList
<1>2. \A t \in Scans \ {s} : hits'[t] = hits[t]
  BY DEF Save, Load, LoadList, TypeOK
<1> QED BY <1>1, <1>2 DEF SwapInv, TypeOK

LEMMA ScanSwapInv ==
  ASSUME TypeOK, SwapInv,
         \/ Rescan \/ Swap \/ NoSwap
         \/ \E s \in Others : OtherLoad(s) \/ OtherSave(s)
  PROVE  SwapInv'
<1>1. Core \in Scans /\ Others \subseteq Scans /\ Core \notin Others
  BY AutoSwapAssumption DEF Scans
<1>2. CASE Rescan
  <2>1. /\ Load(Core, {}) /\ trying /\ trying' = FALSE
        /\ sinceSwap' = sinceSwap
    BY <1>2 DEF Rescan, Load, LoadList
  <2>2. \A t \in Scans : clean'[t] \subseteq Survivors(hits'[t])
    BY <1>1, <2>1, LoadOrSaveSwapInv
  <2> QED BY <2>1, <2>2 DEF SwapInv
<1>3. CASE Swap \/ NoSwap
  <2>1. Save(Core) /\ Core \in scanning /\ Core \notin scanning' /\ trying' = trying
    BY <1>3 DEF Swap, NoSwap, Save
  <2>2. \A t \in Scans : clean'[t] \subseteq Survivors(hits'[t])
    BY <1>1, <2>1, LoadOrSaveSwapInv
  <2> QED BY <2>1, <2>2 DEF SwapInv
<1>4. ASSUME NEW s \in Others, OtherLoad(s) \/ OtherSave(s)
      PROVE  SwapInv'
  <2>1. /\ Save(s) \/ \E more \in SUBSET IPs : Load(s, more)
        /\ UNCHANGED <<trying, sinceSwap>>
        /\ Core \in scanning' <=> Core \in scanning
    BY <1>1, <1>4 DEF OtherLoad, OtherSave, Load, LoadList, Save
  <2>2. \A t \in Scans : clean'[t] \subseteq Survivors(hits'[t])
    BY <1>1, <2>1, LoadOrSaveSwapInv
  <2> QED BY <2>1, <2>2 DEF SwapInv
<1> QED BY <1>2, <1>3, <1>4

LEMMA StepSwapInv == TypeOK /\ SwapInv /\ [Next]_vars => SwapInv'
<1> SUFFICES ASSUME TypeOK, SwapInv, [Next]_vars PROVE SwapInv'
  OBVIOUS
<1> USE DEF scanVars, historyVars, coreVars, boundVars
<1>1. CASE UNCHANGED vars
  BY <1>1 DEF vars, SwapInv
<1>2. CASE \E s \in Scans, ip \in IPs : Probe(s, ip)
  BY <1>2, ProbeSwapInv
<1>3. CASE \/ Failing \/ Keep \/ Month
           \/ \E ip \in IPs : Turn(ip)
           \/ \E s \in Others : OtherCut(s)
  BY <1>3 DEF Failing, Keep, Month, Turn, OtherCut, SwapInv
<1>4. CASE Tick
  BY <1>4, AutoSwapAssumption DEF Tick, SwapInv, TypeOK, Clock
<1> QED
  BY <1>1, <1>2, <1>3, <1>4, ScanSwapInv DEF Next, CoreStep, OtherScan, Scans

LEMMA SwapOnlySwaps ==
  ASSUME TypeOK, SwapInv, [Next]_vars, endpoint' # endpoint
  PROVE  endpoint' \in clean[Core] \cap Survivors(hits[Core]) /\ sinceSwap > Throttle
<1>1. Swap
  BY DEF Next, CoreStep, OtherScan, OtherLoad, OtherCut, OtherSave, Failing, Keep, Rescan, Load,
         LoadList, Probe, NoSwap, Turn, Tick, Month, coreVars, vars
<1>2. endpoint' \in clean[Core] /\ Core \in scanning
  BY <1>1 DEF Swap, Save
<1>3. Core \in Scans
  BY DEF Scans
<1> QED BY <1>2, <1>3 DEF SwapInv

\* The core leaves an endpoint only for an edge that was clean in the scan which
\* that endpoint's failure started, and respects the throttle, whatever other
\* processes scan and save meanwhile (main.go:373-378, 481-508).
THEOREM CoreSwapsForCause == Spec => SwapsForCause
<1>1. Spec => [](TypeOK /\ SwapInv)
  BY InitTypes, StepTypes, InitSwapInv, StepSwapInv, PTL DEF Spec
<1>2. TypeOK /\ SwapInv /\ [Next]_vars
        => [endpoint' # endpoint =>
              /\ endpoint' \in clean[Core] \cap Survivors(hits[Core])
              /\ sinceSwap > Throttle]_vars
  BY SwapOnlySwaps
<1> QED BY <1>1, <1>2, PTL DEF Spec, SwapsForCause

-----------------------------------------------------------------------------
(* The hit-list.                                                           *)

LEMMA InitFileInv == Init => FileInv
<1> SUFFICES ASSUME Init PROVE FileInv
  OBVIOUS
<1>1. PICK S \in SUBSET IPs :
        file = [ip \in S |-> [clean |-> TRUE, seen |-> 1, streak |-> 0, aged |-> FALSE]]
  BY DEF Init
<1>2. \A ip \in DOMAIN file : ip \in IPs /\ file[ip].streak = 0 /\ failed[ip] = 0
  BY <1>1 DEF Init
<1>3. Founded(file, failed, doubted \cup Unsaved)
  BY <1>2 DEF Founded
<1> QED BY <1>3 DEF Init, FileInv

\* A list that was loaded is the file's, and doubts what others have found clean
\* and not saved yet.
LEMMA LoadFileInv ==
  ASSUME TypeOK, FileInv, NEW s \in Scans, NEW more, Load(s, more)
  PROVE  FileInv'
<1>1. /\ scanning' = scanning \cup {s} /\ s \notin scanning
      /\ clean' = [clean EXCEPT ![s] = {}]
      /\ UNCHANGED <<file, failed, doubted>>
      /\ \A t \in scanning : /\ hits'[t] = hits[t] /\ doubt'[t] = doubt[t]
                             /\ t \in behind' <=> t \in behind
  BY DEF Load, LoadList, TypeOK
<1>2. Unsaved' = Unsaved
  BY <1>1 DEF Unsaved, TypeOK
<1>3. Founded(hits'[s], failed, doubt'[s]) /\ (s \notin behind' => Extends(hits'[s], file))
  <2>1. CASE LoadList(s, file, more) /\ doubt' = [doubt EXCEPT ![s] = doubted \cup Unsaved]
    <3>1. hits'[s] = file /\ doubt'[s] = doubted \cup Unsaved
      BY <2>1 DEF LoadList, TypeOK
    <3> QED BY <3>1 DEF FileInv, Extends
  <2>2. CASE LoadList(s, << >>, more) /\ behind' = behind \cup {s}
    <3>1. DOMAIN hits'[s] = {} /\ s \in behind'
      BY <2>2, EmptyIsList DEF LoadList, TypeOK
    <3> QED BY <3>1 DEF Founded
  <2> QED BY <2>1, <2>2 DEF Load
<1> QED BY <1>1, <1>2, <1>3 DEF FileInv

\* What is saved is the scan's list without what prune drops, and the others'
\* lists are behind it.
LEMMA SaveFileInv ==
  ASSUME TypeOK, FileInv, NEW s \in Scans, Save(s)
  PROVE  FileInv'
<1>1. /\ s \in scanning /\ scanning' = scanning \ {s} /\ failed' = failed
      /\ hits[s] \in HitLists
      /\ clean' = [clean EXCEPT ![s] = {}]
      /\ \A t \in scanning' : hits'[t] = hits[t] /\ doubt'[t] = doubt[t]
  BY DEF Save, TypeOK
<1>2. Unsaved \subseteq Unsaved' \cup clean[s]
  BY <1>1 DEF Unsaved, TypeOK
<1>3. CASE /\ file' = Pruned(hits[s])
           /\ behind' = scanning \ {s}
           /\ doubted' = doubt[s]
  <2>1. Founded(file', failed', doubted' \cup Unsaved')
    BY <1>1, <1>3, PrunedList DEF Founded, FileInv
  <2> QED BY <1>1, <1>3, <2>1 DEF FileInv
<1>4. CASE /\ behind' = behind \ {s}
           /\ doubted' = doubted \cup clean[s]
           /\ UNCHANGED file
  <2>1. Founded(file', failed', doubted' \cup Unsaved')
    BY <1>1, <1>2, <1>4 DEF Founded, FileInv
  <2> QED BY <1>1, <1>4, <2>1 DEF FileInv
<1> QED BY <1>3, <1>4 DEF Save

LEMMA ProbeFileInv ==
  ASSUME TypeOK, FileInv, NEW s \in Scans, NEW ip \in IPs, Probe(s, ip)
  PROVE  FileInv'
<1> DEFINE list == hits[s]
           new  == Updated(list, ip, status[ip])
<1>1. /\ s \in scanning /\ scanning' = scanning /\ file' = file
      /\ UNCHANGED <<behind, doubted>>
      /\ hits'[s] = new /\ list \in HitLists /\ status[ip] \in Statuses
      /\ \A t \in scanning \ {s} : hits'[t] = hits[t]
      /\ failed \in [IPs -> 0 .. DropStreak] /\ DropStreak \in Nat
  BY AutoSwapAssumption, ProbeUpdates DEF Probe, TypeOK
<1>2. /\ DOMAIN new = DOMAIN list \cup {ip}
      /\ \A i \in DOMAIN list \ {ip} : new[i] = list[i]
      /\ new[ip].clean <=> status[ip] = "clean" \/ Rec(list, ip).clean
      /\ new[ip].aged => Rec(list, ip).aged
      /\ status[ip] = "clean" => new[ip].streak = 0
      /\ status[ip] # "clean" => new[ip].streak = UpTo(DropStreak, Rec(list, ip).streak + 1)
  <2>1. UpdateOf(new, list, ip, status[ip])
    BY <1>1, UpdatedList
  <2> HIDE DEF new, list
  <2> QED BY <2>1 DEF UpdateOf
<1> HIDE DEF new
<1>3. /\ Founded(list, failed, doubt[s])
      /\ s \notin behind => Extends(list, file)
  BY <1>1 DEF FileInv
\* The failures in a row and the doubts after a probe.
<1>4. /\ \A i \in IPs \ {ip} : failed'[i] = failed[i]
      /\ status[ip] = "clean" => failed'[ip] = 0
      /\ status[ip] # "clean" => failed'[ip] = UpTo(DropStreak, failed[ip] + 1)
  BY <1>1 DEF Probe
<1>5. /\ doubt[s] \subseteq doubt'[s] \cup {ip}
      /\ status[ip] # "clean" => doubt'[s] = doubt[s]
      /\ \A t \in scanning : t # s => doubt[t] \subseteq doubt'[t]
      /\ status[ip] = "clean" => \A t \in scanning : t # s => ip \in doubt'[t]
      /\ \A t \in scanning : clean[t] \subseteq clean'[t]
      /\ status[ip] = "clean" => ip \in clean'[s]
  BY <1>1 DEF Probe, TypeOK
<1>6. failed[ip] <= UpTo(DropStreak, failed[ip] + 1)
  <2>1. failed[ip] \in 0 .. DropStreak
    BY <1>1
  <2> QED BY <1>1, <2>1 DEF UpTo
\* A list that the probe does not go into, and that doubts the address it
\* found clean.
<1>7. ASSUME NEW other \in HitLists, NEW but, NEW newBut,
             Founded(other, failed, but), but \subseteq newBut,
             status[ip] = "clean" => ip \in newBut
      PROVE  Founded(other, failed', newBut)
  <2> SUFFICES ASSUME NEW i \in DOMAIN other \ newBut PROVE other[i].streak <= failed'[i]
    BY DEF Founded
  <2>1. other[i].streak <= failed[i] /\ i \in IPs /\ other[i].streak \in Nat
    BY <1>7, ListIsFunction, AutoSwapAssumption DEF Founded, Recs
  <2>2. CASE i # ip
    BY <1>4, <2>1, <2>2
  <2>3. CASE i = ip
    <3>1. failed'[ip] = UpTo(DropStreak, failed[ip] + 1)
      BY <1>4, <1>7, <2>3
    <3>2. failed[ip] \in Nat /\ failed'[ip] \in Nat
      BY <1>1, <3>1 DEF UpTo
    <3> QED BY <1>6, <2>1, <2>3, <3>1, <3>2
  <2> QED BY <2>2, <2>3
<1>8. Founded(new, failed', doubt'[s])
  <2> SUFFICES ASSUME NEW i \in DOMAIN new \ doubt'[s] PROVE new[i].streak <= failed'[i]
    BY DEF Founded
  <2>1. CASE i # ip
    <3>1. i \in DOMAIN list /\ new[i] = list[i] /\ list[i].streak <= failed[i] /\ i \in IPs
      BY <1>1, <1>2, <1>3, <1>5, <2>1, ListIsFunction DEF Founded
    <3> QED BY <1>4, <2>1, <3>1
  <2>2. CASE i = ip /\ status[ip] = "clean"
    BY <1>2, <1>4, <2>2
  <2>3. CASE i = ip /\ status[ip] # "clean"
    <3>1. failed'[ip] = UpTo(DropStreak, failed[ip] + 1)
      BY <1>4, <2>3
    <3>2. Rec(list, ip) \in Recs /\ failed[ip] \in 0 .. DropStreak
      BY <1>1, RecIsRec
    <3>3. Rec(list, ip).streak \in 0 .. DropStreak
      BY <3>2 DEF Recs
    <3>4. Rec(list, ip).streak <= failed[ip]
      <4>1. CASE ip \in DOMAIN list
        BY <1>3, <1>5, <2>3, <4>1 DEF Founded, Rec
      <4>2. CASE ip \notin DOMAIN list
        BY <3>2, <4>2 DEF Rec, NoRec
      <4> QED BY <4>1, <4>2
    <3>5. UpTo(DropStreak, Rec(list, ip).streak + 1) <= UpTo(DropStreak, failed[ip] + 1)
      BY <1>1, <3>2, <3>3, <3>4 DEF UpTo
    <3> QED BY <1>2, <2>3, <3>1, <3>5
  <2> QED BY <2>1, <2>2, <2>3
<1>9. ASSUME s \notin behind
      PROVE  Extends(new, file)
  <2> SUFFICES ASSUME NEW i \in DOMAIN file
               PROVE  /\ i \in DOMAIN new
                      /\ file[i].clean => new[i].clean
                      /\ new[i].aged => file[i].aged
    BY DEF Extends
  <2>1. /\ i \in DOMAIN list
        /\ file[i].clean => list[i].clean
        /\ list[i].aged => file[i].aged
    BY <1>3, <1>9 DEF Extends
  <2>2. CASE i # ip
    BY <1>2, <2>1, <2>2
  <2>3. CASE i = ip
    <3>1. Rec(list, ip) = list[ip]
      BY <2>1, <2>3 DEF Rec
    <3> QED BY <1>2, <2>1, <2>3, <3>1
  <2> QED BY <2>2, <2>3
<1>10. Founded(file, failed', doubted \cup Unsaved')
  <2>1. /\ doubted \cup Unsaved \subseteq doubted \cup Unsaved'
        /\ status[ip] = "clean" => ip \in Unsaved'
    BY <1>1, <1>5 DEF Unsaved
  <2>2. file \in HitLists /\ Founded(file, failed, doubted \cup Unsaved)
    BY DEF TypeOK, FileInv
  <2> QED BY <1>7, <2>1, <2>2
<1>11. ASSUME NEW t \in scanning, t # s
       PROVE  Founded(hits[t], failed', doubt'[t])
  <2>1. hits[t] \in HitLists /\ Founded(hits[t], failed, doubt[t])
    BY DEF TypeOK, FileInv
  <2> QED BY <1>5, <1>7, <1>11, <2>1
<1>12. hits'[s] = new
  BY <1>1
<1>13. \A t \in scanning' : Founded(hits'[t], failed', doubt'[t])
  BY <1>1, <1>8, <1>11, <1>12
<1>14. \A t \in scanning' \ behind' : Extends(hits'[t], file')
  BY <1>1, <1>9, <1>12 DEF FileInv
<1> QED BY <1>1, <1>10, <1>13, <1>14 DEF FileInv

LEMMA StepFileInv ==
  ASSUME TypeOK, FileInv, [Next]_vars
  PROVE  FileInv'
<1> USE DEF scanVars, historyVars, coreVars, boundVars
<1>1. CASE UNCHANGED <<file, scanning, hits, clean, historyVars>>
  BY <1>1 DEF FileInv, Founded, Extends, Unsaved
<1>2. CASE Month
  <2>1. /\ scanning = {} /\ scanning' = {} /\ failed' = failed /\ doubted' = doubted
        /\ file \in HitLists /\ file' = Aged(file) /\ clean' = clean
    BY <1>2 DEF Month, TypeOK
  <2>2. Founded(file', failed', doubted' \cup Unsaved')
    BY <2>1, AgedList DEF FileInv, Founded, Unsaved
  <2> QED BY <2>1, <2>2 DEF FileInv
<1>3. CASE \E s \in Scans, ip \in IPs : Probe(s, ip)
  BY <1>3, ProbeFileInv
<1>4. CASE \E s \in Scans : Save(s) \/ \E more \in SUBSET IPs : Load(s, more)
  BY <1>4, SaveFileInv, LoadFileInv
<1> QED
  BY <1>1, <1>2, <1>3, <1>4
  DEF Next, CoreStep, OtherScan, OtherLoad, OtherCut, OtherSave, Failing, Keep, Rescan, Swap,
      NoSwap, Turn, Tick, Scans, vars

LEMMA ForgetsForCause ==
  ASSUME TypeOK, FileInv, [Next]_vars, NEW ip \in Survivors(file) \ DOMAIN file'
  PROVE  \/ failed[ip] >= DropStreak
         \/ file[ip].aged
         \/ \E s \in scanning \ scanning' : s \in behind \/ ip \in doubt[s]
<1>1. ip \in DOMAIN file /\ file[ip].clean /\ ip \in IPs /\ file \in HitLists
  BY ListIsFunction DEF Survivors, TypeOK
<1>2. \E s \in Scans : Save(s)
  <2>1. ~(UNCHANGED vars \/ Month \/ \E i \in IPs : Turn(i))
    BY <1>1, AgedList DEF Month, Turn, vars, scanVars
  <2> QED
    BY <1>1, <2>1 DEF Next, CoreStep, OtherScan, OtherLoad, OtherCut, OtherSave, Failing, Keep,
                      Rescan, Load, LoadList, Probe, Swap, NoSwap, Tick, scanVars, Scans
<1>3. PICK s \in Scans : Save(s)
  BY <1>2
<1>4. /\ s \in scanning \ scanning' /\ file' = Pruned(hits[s])
      /\ hits[s] \in HitLists
      /\ failed[ip] \in 0 .. DropStreak /\ DropStreak \in Nat
  BY <1>1, <1>3, AutoSwapAssumption DEF Save, TypeOK
<1> SUFFICES ASSUME s \notin behind, ip \notin doubt[s]
             PROVE  failed[ip] >= DropStreak \/ file[ip].aged
  BY <1>4
<1>5. Founded(hits[s], failed, doubt[s]) /\ Extends(hits[s], file)
  BY <1>4 DEF FileInv
<1>6. /\ ip \in DOMAIN hits[s] /\ hits[s][ip].clean
      /\ hits[s][ip].aged => file[ip].aged
      /\ hits[s][ip].streak <= failed[ip]
  BY <1>1, <1>5 DEF Extends, Founded
<1>7. Dropped(hits[s][ip])
  BY <1>4, <1>6, PrunedList
<1>8. hits[s][ip].streak \in 0 .. DropStreak
  BY <1>4, <1>6, ListIsFunction DEF Recs
<1> QED BY <1>4, <1>6, <1>7, <1>8 DEF Dropped

\* However scans overlap, and whichever of their loads and saves fail, none
\* forgets an edge that worked before it failed hitDropFailStreak probes in a row
\* or grew too old, unless its list is not the file's or lacks the edge's last
\* success (scan.go:249-341, 394-469).
THEOREM SurvivorsForgottenForCause == Spec => ForgottenForCause
<1>1. TypeOK /\ FileInv /\ [Next]_vars => FileInv'
  BY StepFileInv
<1>2. Spec => [](TypeOK /\ FileInv)
  BY <1>1, InitTypes, StepTypes, InitFileInv, PTL DEF Spec
<1>3. TypeOK /\ FileInv /\ [Next]_vars
        => [\A ip \in Survivors(file) \ DOMAIN file' :
              \/ failed[ip] >= DropStreak
              \/ file[ip].aged
              \/ \E s \in scanning \ scanning' : s \in behind \/ ip \in doubt[s]]_vars
  BY ForgetsForCause
<1> QED BY <1>2, <1>3, PTL DEF Spec, ForgottenForCause


-----------------------------------------------------------------------------
(* The WAN watcher, for any devices, addresses, setting of INTERFACE,      *)
(* threshold above one and number of changes (WanAssumption).              *)

\* While a candidate is being counted, it is what the previous tick saw.
RunIsRecent == candCount > 0 => cand = previous

WanInv ==
  /\ WanTypeOK
  /\ SwitchIsHeard
  /\ RunIsRecent

LEMMA NothingIsBinding == Nothing \in Bindings
  BY DEF Nothing, Bindings, Devices

LEMMA ResolvesToDevice == ResolveWAN \subseteq Devices
  BY WanAssumption DEF ResolveWAN, Devices, Candidates

\* An address is read as the kernel has it, or there is none.
LEMMA ReadsAddress ==
  ASSUME WanTypeOK, NEW n \in Devices
  PROVE  <<n, InterfaceIPv4(n)>> \in Bindings
  BY DEF WanTypeOK, InterfaceIPv4, Bindings, Devices

LEMMA SeenIsBinding ==
  ASSUME WanTypeOK
  PROVE  Seen \in Bindings
  BY ReadsAddress DEF WanTypeOK, Seen

LEMMA CountIsPositive ==
  ASSUME WanTypeOK
  PROVE  Count \in Nat \ {0}
  BY WanAssumption DEF WanTypeOK, Count

LEMMA WanInitHolds ==
  ASSUME WanInit
  PROVE  WanInv
<1>1. addr \in [Names -> Addrs \cup {None}]
  BY DEF WanInit
<1>2. 0 \in 0 .. Debounce - 1 /\ 0 \in 0 .. MaxChanges /\ 0 \in 0 .. MaxCritical
  BY WanAssumption
<1>3. WanTypeOK
  BY <1>1, <1>2, NothingIsBinding DEF WanInit, WanTypeOK, Devices
<1> QED BY <1>3 DEF WanInv, WanInit, SwitchIsHeard, RunIsRecent

LEMMA MainPreserves ==
  ASSUME WanInv, Main \/ BuildFails
  PROVE  WanInv'
<1> USE DEF WanInv, mainVars, watchVars, countVars
<1>1. CASE Receive
  BY <1>1 DEF Receive, WanTypeOK, SwitchIsHeard, RunIsRecent
<1>2. CASE BuildName
  BY <1>2, ResolvesToDevice DEF BuildName, WanTypeOK, SwitchIsHeard, RunIsRecent
<1>3. CASE BuildAddr
  <2>1. bound' \in Bindings
    BY <1>3, ReadsAddress DEF BuildAddr, WanTypeOK
  <2> QED BY <1>3, <2>1 DEF BuildAddr, WanTypeOK, SwitchIsHeard, RunIsRecent
<1>4. CASE BuildFails
  BY <1>4 DEF BuildFails, WanTypeOK, SwitchIsHeard, RunIsRecent
<1> QED BY <1>1, <1>2, <1>3, <1>4 DEF Main

LEMMA SurroundingsPreserve ==
  ASSUME WanInv, Critical \/ \E n \in Names : Change(n)
  PROVE  WanInv'
<1> USE DEF WanInv, mainVars, watchVars, countVars
<1>1. CASE Critical
  BY <1>1, WanAssumption DEF Critical, Ask, WanTypeOK, SwitchIsHeard,
              RunIsRecent
<1>2. ASSUME NEW n \in Names, Change(n)
      PROVE  WanInv'
  <2>1. addr' \in [Names -> Addrs \cup {None}]
    BY <1>2 DEF Change, Addrs, WanTypeOK
  <2>2. changes' \in 0 .. MaxChanges
    BY <1>2, WanAssumption DEF Change, WanTypeOK
  <2> QED BY <1>2, <2>1, <2>2 DEF Change, WanTypeOK, SwitchIsHeard, RunIsRecent
<1> QED BY <1>1, <1>2

LEMMA WatchPreserves ==
  ASSUME WanInv, Watch
  PROVE  WanInv'
<1> USE DEF WanInv, mainVars, watchVars, countVars
<1>1. Seen \in Bindings /\ Count \in Nat \ {0} /\ Debounce \in Nat \ {0, 1}
  BY SeenIsBinding, CountIsPositive, WanAssumption
<1>2. CASE SightName
  BY <1>2, ResolvesToDevice DEF SightName, WanTypeOK, SwitchIsHeard, RunIsRecent
<1>3. CASE Start
  BY <1>1, <1>3 DEF Start, WanTypeOK, SwitchIsHeard, RunIsRecent
<1>4. CASE Steady
  BY <1>1, <1>4 DEF Steady, Ticked, WanTypeOK, SwitchIsHeard, RunIsRecent
<1>5. CASE Suspect
  BY <1>1, <1>5 DEF Suspect, Ticked, WanTypeOK, SwitchIsHeard, RunIsRecent
<1>6. CASE Switch
  BY <1>1, <1>6 DEF Switch, Ticked, Ask, WanTypeOK, SwitchIsHeard, RunIsRecent
<1> QED BY <1>2, <1>3, <1>4, <1>5, <1>6 DEF Watch

LEMMA WanStepPreserves ==
  ASSUME WanInv, [WanNext]_wanVars
  PROVE  WanInv'
<1>1. CASE UNCHANGED wanVars
  BY <1>1 DEF wanVars, mainVars, watchVars, countVars, WanInv, WanTypeOK,
              SwitchIsHeard, RunIsRecent
<1>2. CASE WanNext
  BY <1>2, MainPreserves, SurroundingsPreserve, WatchPreserves DEF WanNext
<1> QED BY <1>1, <1>2

\* The variables keep their types, candCount below the threshold among them.
THEOREM WanTypeCorrect == WanSpec => []WanTypeOK
<1>1. WanInit => WanInv
  BY WanInitHolds
<1>2. WanInv /\ [WanNext]_wanVars => WanInv'
  BY WanStepPreserves
<1>3. WanInv => WanTypeOK
  BY DEF WanInv
<1> QED BY <1>1, <1>2, <1>3, PTL DEF WanSpec

\* The one-slot channel of restartReqCh never loses the watcher's switch
\* (main.go:256-262, 611), however many requests are dropped at it and whenever
\* main takes one.
THEOREM SwitchStaysHeard == WanSpec => []SwitchIsHeard
<1>1. WanInit => WanInv
  BY WanInitHolds
<1>2. WanInv /\ [WanNext]_wanVars => WanInv'
  BY WanStepPreserves
<1>3. WanInv => SwitchIsHeard
  BY DEF WanInv
<1> QED BY <1>1, <1>2, <1>3, PTL DEF WanSpec

\* Only a tick on which the candidate has been seen before can reach the threshold.
LEMMA SwitchesToPrevious ==
  ASSUME WanInv, WanNext, wpc = "ticked", last' # last
  PROVE  last' = previous
<1> USE DEF mainVars, watchVars, countVars
<1>1. Switch
  BY DEF WanNext, Main, Watch, Change, Receive, BuildName,
         BuildAddr, BuildFails, Critical, SightName, Start,
         Steady, Suspect
<1>2. Count > 1
  BY <1>1, CountIsPositive, WanAssumption DEF Switch, WanInv
<1>3. Seen = cand /\ candCount > 0
  BY <1>2, WanAssumption DEF Count, WanInv, WanTypeOK
<1> QED BY <1>1, <1>3 DEF Switch, WanInv, RunIsRecent

\* No WAN is taken over that the previous tick did not see too (main.go:570-571,
\* 600-606): a value that flaps to and fro never is.
THEOREM SwitchesAreDebounced == WanSpec => Debounced
<1>1. WanInit => WanInv
  BY WanInitHolds
<1>2. WanInv /\ [WanNext]_wanVars => WanInv'
  BY WanStepPreserves
<1>3. WanInv /\ [WanNext]_wanVars
        => [wpc = "ticked" /\ last' # last => last' = previous]_wanVars
  BY SwitchesToPrevious DEF wanVars
<1> QED BY <1>1, <1>2, <1>3, PTL DEF WanSpec, Debounced
=============================================================================
