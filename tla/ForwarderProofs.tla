-------------------------- MODULE ForwarderProofs ---------------------------
(***************************************************************************)
(* Proofs about Forwarder for any connections, settings and thresholds:    *)
(* how far a handler has got in its loop determines which endpoints it has *)
(* been through, whether it has an upstream and whether a port is          *)
(* registered for it, at every one of its exits.  And about FirstWrite, for *)
(* streams of any length: what its writes add up to.                       *)
(***************************************************************************)
EXTENDS FirstWrite, FiniteSetTheorems, SequenceTheorems, WellFoundedInduction, TLAPS

\* The first n endpoints from c's base, in the loop's order.
FirstOf(c, n) == {(base[c] + i) % NumEndpoints : i \in 0 .. n - 1}

\* A handler in the loop has been through the endpoints before its attempt, and
\* through this one once the attempt has begun.
Progress(c) ==
  /\ pc[c] \in {"read", "pick"} => attempt[c] = 0 /\ tried[c] = {}
  /\ pc[c] \in {"attempt", "dial", "apply"} => attempt[c] < TotalAttempts
  /\ pc[c] = "attempt" => tried[c] = FirstOf(c, attempt[c])
  /\ pc[c] \in {"dial", "apply"} => tried[c] = FirstOf(c, attempt[c] + 1)
  /\ pc[c] \in {"dropped", "claim"} => tried[c] = FirstOf(c, TotalAttempts)

\* It holds an upstream from the dial to the end of the relay, and a port from
\* the beginning of an attempt at most.
Holding(c) ==
  /\ open[c] = IF pc[c] \in {"apply", "served", "cleared", "relay"} THEN {Selected(c)} ELSE {}
  /\ pc[c] \in {"read", "pick", "attempt", "dropped", "claim", "done"} => ~registered[c]

IInv ==
  /\ TypeOK
  /\ \A c \in Conns : Progress(c)
  /\ \A c \in Conns : Holding(c)

-----------------------------------------------------------------------------
(* The number of attempts and the order of the endpoints.                  *)

LEMMA Counts ==
  ASSUME server \in Settings
  PROVE  /\ NumEndpoints \in 1 .. 8
         /\ TotalAttempts \in 1 .. NumEndpoints
         /\ server.loadBalance # "" => TotalAttempts = NumEndpoints
<1>1. server.endpoints \in 1 .. 8 /\ server.retries \in 0 .. 8
  BY ForwarderAssumption DEF Setting
<1>2. NumEndpoints \in 1 .. 8 /\ FailoverRetries \in 0 .. 8
  BY <1>1 DEF NumEndpoints, FailoverRetries
<1>3. LesserOf(FailoverRetries, NumEndpoints - 1) + 1 \in 1 .. NumEndpoints
  BY <1>2 DEF LesserOf
<1>4. NumEndpoints = 1 => LesserOf(FailoverRetries, NumEndpoints - 1) + 1 = 1
  BY <1>2 DEF LesserOf
<1>5. CASE NumEndpoints > 1 /\ server.loadBalance # ""
  <2>1. TotalAttempts = NumEndpoints
    BY <1>5 DEF TotalAttempts
  <2> QED BY <1>2, <2>1
<1>6. CASE ~(NumEndpoints > 1 /\ server.loadBalance # "")
  <2>1. TotalAttempts = LesserOf(FailoverRetries, NumEndpoints - 1) + 1
    BY <1>6 DEF TotalAttempts
  <2>2. ~(NumEndpoints > 1) => NumEndpoints = 1
    BY <1>2
  <2>3. server.loadBalance # "" => NumEndpoints = 1
    BY <1>6, <2>2, Zenon
  <2> QED BY <1>2, <1>3, <1>4, <2>1, <2>3
<1> QED BY <1>5, <1>6

\* The index wraps once at most.
LEMMA Wraps ==
  ASSUME NEW n \in 1 .. 8, NEW b \in 0 .. n - 1, NEW i \in 0 .. n - 1
  PROVE  (b + i) % n = IF b + i < n THEN b + i ELSE b + i - n
  OBVIOUS

LEMMA Indices ==
  ASSUME TypeOK, NEW c \in Conns
  PROVE  /\ NumEndpoints \in 1 .. 8
         /\ base[c] \in 0 .. NumEndpoints - 1
         /\ attempt[c] \in 0 .. NumEndpoints
<1>1. server \in Settings
  BY DEF TypeOK
<1>2. NumEndpoints \in 1 .. 8
  BY <1>1, Counts
<1> QED BY <1>2 DEF TypeOK, Endpoints

LEMMA SelectedIsEndpoint ==
  ASSUME TypeOK, NEW c \in Conns, attempt[c] < NumEndpoints
  PROVE  Selected(c) \in Endpoints
<1>1. NumEndpoints \in 1 .. 8 /\ base[c] \in 0 .. NumEndpoints - 1 /\ attempt[c] \in 0 .. NumEndpoints - 1
  BY Indices
<1> QED BY <1>1, Wraps DEF Selected, Endpoints

\* The attempt adds its endpoint, which is new.
LEMMA FirstOfGrows ==
  ASSUME TypeOK, NEW c \in Conns, attempt[c] < NumEndpoints
  PROVE  /\ FirstOf(c, attempt[c] + 1) = FirstOf(c, attempt[c]) \cup {Selected(c)}
         /\ Selected(c) \notin FirstOf(c, attempt[c])
<1>1. NumEndpoints \in 1 .. 8 /\ base[c] \in 0 .. NumEndpoints - 1 /\ attempt[c] \in 0 .. NumEndpoints - 1
  BY Indices
<1>2. 0 .. (attempt[c] + 1) - 1 = (0 .. attempt[c] - 1) \cup {attempt[c]}
  BY <1>1
<1>3. FirstOf(c, attempt[c] + 1) = FirstOf(c, attempt[c]) \cup {Selected(c)}
  BY <1>2 DEF FirstOf, Selected
<1>4. ASSUME NEW i \in 0 .. attempt[c] - 1
      PROVE  (base[c] + i) % NumEndpoints # (base[c] + attempt[c]) % NumEndpoints
  <2>1. i \in 0 .. NumEndpoints - 1 /\ i < attempt[c]
    BY <1>1
  <2>2. (base[c] + i) % NumEndpoints =
          IF base[c] + i < NumEndpoints THEN base[c] + i ELSE base[c] + i - NumEndpoints
    BY <1>1, <2>1, Wraps
  <2>3. (base[c] + attempt[c]) % NumEndpoints =
          IF base[c] + attempt[c] < NumEndpoints THEN base[c] + attempt[c]
          ELSE base[c] + attempt[c] - NumEndpoints
    BY <1>1, Wraps
  <2> QED BY <1>1, <2>1, <2>2, <2>3
<1> QED BY <1>3, <1>4 DEF FirstOf, Selected

\* As many attempts as there are endpoints go through all of them.
LEMMA FirstOfAll ==
  ASSUME TypeOK, NEW c \in Conns
  PROVE  FirstOf(c, NumEndpoints) = Endpoints
<1>1. NumEndpoints \in 1 .. 8 /\ base[c] \in 0 .. NumEndpoints - 1
  BY Indices
<1>2. ASSUME NEW i \in 0 .. NumEndpoints - 1
      PROVE  (base[c] + i) % NumEndpoints \in Endpoints
  BY <1>1, Wraps DEF Endpoints
<1>3. ASSUME NEW e \in Endpoints
      PROVE  \E i \in 0 .. NumEndpoints - 1 : e = (base[c] + i) % NumEndpoints
  <2> DEFINE i == IF e >= base[c] THEN e - base[c] ELSE e - base[c] + NumEndpoints
  <2>1. i \in 0 .. NumEndpoints - 1
    BY <1>1 DEF Endpoints
  <2>2. (base[c] + i) % NumEndpoints =
          IF base[c] + i < NumEndpoints THEN base[c] + i ELSE base[c] + i - NumEndpoints
    BY <1>1, <2>1, Wraps
  <2>3. e = (base[c] + i) % NumEndpoints
    BY <1>1, <2>2 DEF Endpoints
  <2> QED BY <2>1, <2>3
<1> QED BY <1>2, <1>3 DEF FirstOf

-----------------------------------------------------------------------------
(* The invariant.                                                          *)

LEMMA InitIInv == Init => IInv
<1> SUFFICES ASSUME Init PROVE IInv
  OBVIOUS
<1>1. NumEndpoints \in 1 .. 8
  BY Counts DEF Init
<1>2. 0 \in Endpoints /\ 0 \in 0 .. NumEndpoints
  BY <1>1 DEF Endpoints
<1>3. TypeOK
  BY <1>2 DEF Init, TypeOK, PCs
<1>4. ASSUME NEW c \in Conns PROVE Progress(c) /\ Holding(c)
  BY DEF Init, Progress, Holding
<1> QED BY <1>3, <1>4 DEF IInv

\* What one handler's step leaves alone: the server and the other handlers.
Others(c) ==
  /\ server' = server
  /\ \A d \in Conns \ {c} :
       /\ pc'[d] = pc[d] /\ base'[d] = base[d] /\ attempt'[d] = attempt[d]
       /\ tried'[d] = tried[d] /\ open'[d] = open[d] /\ registered'[d] = registered[d]

\* So a step preserves the invariant when it does for its own handler.
LEMMA OthersKeep ==
  ASSUME IInv, NEW c \in Conns, Others(c), Progress(c)', Holding(c)'
  PROVE  \A d \in Conns : Progress(d)' /\ Holding(d)'
<1> SUFFICES ASSUME NEW d \in Conns \ {c} PROVE Progress(d)' /\ Holding(d)'
  OBVIOUS
<1>1. Progress(d) /\ Holding(d)
  BY DEF IInv
<1>2. NumEndpoints' = NumEndpoints /\ TotalAttempts' = TotalAttempts
  BY DEF Others, NumEndpoints, TotalAttempts, FailoverRetries
<1>3. \A n : FirstOf(d, n)' = FirstOf(d, n)
  BY <1>2 DEF Others, FirstOf
<1>4. Selected(d)' = Selected(d)
  BY <1>2 DEF Others, Selected
<1> QED BY <1>1, <1>2, <1>3, <1>4 DEF Others, Progress, Holding

\* Before the loop, and in the report: what the loop did stays as it is.
LEMMA ReadIInv ==
  ASSUME IInv, NEW c \in Conns, Read(c)
  PROVE  IInv'
<1>1. TypeOK'
  BY DEF Read, Goto, loopVars, sharedVars, IInv, TypeOK, PCs, NumEndpoints, Endpoints
<1>2. Others(c)
  BY DEF Read, Goto, loopVars, Others, IInv, TypeOK
<1>3. pc'[c] \in {"pick", "done"} /\ UNCHANGED <<server, base, attempt, tried, open, registered>>
  BY DEF Read, Goto, loopVars, IInv, TypeOK
<1>4. attempt[c] = 0 /\ tried[c] = {} /\ open[c] = {} /\ ~registered[c]
  BY DEF Read, Goto, IInv, Progress, Holding
<1>5. Progress(c)' /\ Holding(c)'
  BY <1>3, <1>4 DEF Progress, Holding
<1> QED BY <1>1, <1>2, <1>5, OthersKeep DEF IInv

LEMMA PickIInv ==
  ASSUME IInv, NEW c \in Conns, Pick(c)
  PROVE  IInv'
<1>1. NumEndpoints \in 1 .. 8 /\ TotalAttempts \in 1 .. NumEndpoints
  BY Counts DEF IInv, TypeOK
<1>2. lbCounter % NumEndpoints \in Endpoints /\ 0 \in Endpoints
  BY <1>1 DEF IInv, TypeOK, Endpoints
<1>3. PICK b \in Endpoints : base' = [base EXCEPT ![c] = b]
  BY <1>2 DEF Pick
<1>4. /\ pc[c] = "pick" /\ pc' = [pc EXCEPT ![c] = "attempt"]
      /\ lbCounter' \in Nat
      /\ UNCHANGED <<server, attempt, tried, open, registered, applyFailed, copying, streak,
                     restartSent, reason, unconfirmed>>
  BY DEF Pick, Goto, IInv, TypeOK
<1>5. attempt[c] = 0 /\ tried[c] = {} /\ open[c] = {} /\ ~registered[c]
  BY <1>4 DEF IInv, Progress, Holding
<1>6. TypeOK'
  BY <1>1, <1>3, <1>4, <1>5 DEF IInv, TypeOK, PCs, NumEndpoints, Endpoints
<1>7. Others(c)
  BY <1>3, <1>4 DEF Others, IInv, TypeOK
<1>8. FirstOf(c, 0)' = {}
  BY DEF FirstOf
<1>9. TotalAttempts' = TotalAttempts
  BY <1>4 DEF TotalAttempts, NumEndpoints, FailoverRetries
<1>10. Progress(c)' /\ Holding(c)'
  BY <1>1, <1>4, <1>5, <1>8, <1>9 DEF Progress, Holding, IInv, TypeOK
<1> QED BY <1>6, <1>7, <1>10, OthersKeep DEF IInv

-----------------------------------------------------------------------------
(* The loop.                                                               *)

\* With the server and the bases unchanged an index means the same endpoint.
LEMMA SameEndpoints ==
  ASSUME server' = server, base' = base, NEW c \in Conns
  PROVE  /\ TotalAttempts' = TotalAttempts
         /\ NumEndpoints' = NumEndpoints
         /\ \A n : FirstOf(c, n)' = FirstOf(c, n)
         /\ attempt' = attempt => Selected(c)' = Selected(c)
<1>1. NumEndpoints' = NumEndpoints /\ TotalAttempts' = TotalAttempts
  BY DEF NumEndpoints, TotalAttempts, FailoverRetries
<1> QED BY <1>1 DEF FirstOf, Selected

\* Going on with the next endpoint, with nothing left of this one.
LEMMA Advances ==
  ASSUME IInv, NEW c \in Conns, NEW from \in {"attempt", "dial", "apply"}, Advance(c, from),
         server' = server, base' = base,
         tried'[c] = FirstOf(c, attempt[c] + 1), open'[c] = {}, ~registered'[c]
  PROVE  /\ pc' \in [Conns -> PCs]
         /\ \A d \in Conns \ {c} : pc'[d] = pc[d] /\ attempt'[d] = attempt[d]
         /\ attempt' \in [Conns -> 0 .. NumEndpoints]
         /\ \A d \in Conns : pc'[d] = "attempt" => attempt'[d] \in Endpoints
         /\ Progress(c)'
         /\ Holding(c)'
<1>1. NumEndpoints \in 1 .. 8 /\ TotalAttempts \in 1 .. NumEndpoints
  BY Counts DEF IInv, TypeOK
<1>2. attempt[c] \in 0 .. NumEndpoints /\ attempt[c] < TotalAttempts
  <2>1. pc[c] \in {"attempt", "dial", "apply"}
    BY DEF Advance, Goto
  <2> QED BY <2>1 DEF IInv, TypeOK, Progress
<1>3. attempt' = [attempt EXCEPT ![c] = attempt[c] + 1]
  BY DEF Advance
<1>4. attempt' \in [Conns -> 0 .. NumEndpoints]
  BY <1>1, <1>2, <1>3 DEF IInv, TypeOK
<1>5. attempt'[c] = attempt[c] + 1
  BY <1>3 DEF IInv, TypeOK
<1>6. CASE attempt[c] + 1 < TotalAttempts
  <2>1. pc' = [pc EXCEPT ![c] = "attempt"]
    BY <1>6 DEF Advance, Goto
  <2>2. attempt'[c] \in Endpoints
    BY <1>1, <1>2, <1>5, <1>6 DEF Endpoints
  <2>3. pc'[c] = "attempt"
    BY <2>1 DEF IInv, TypeOK
  <2>4. Progress(c)'
    BY <1>5, <1>6, <2>3, SameEndpoints DEF Progress
  <2>5. Holding(c)'
    BY <2>3 DEF Holding
  <2> QED BY <1>3, <1>4, <2>1, <2>2, <2>4, <2>5 DEF IInv, TypeOK, PCs
<1>7. CASE ~(attempt[c] + 1 < TotalAttempts)
  <2>1. pc' = [pc EXCEPT ![c] = "dropped"]
    BY <1>7 DEF Advance, Goto
  <2>2. attempt[c] + 1 = TotalAttempts
    BY <1>1, <1>2, <1>7
  <2>3. pc'[c] = "dropped"
    BY <2>1 DEF IInv, TypeOK
  <2>4. Progress(c)'
    BY <2>2, <2>3, SameEndpoints DEF Progress
  <2>5. Holding(c)'
    BY <2>3 DEF Holding
  <2> QED BY <1>3, <1>4, <2>1, <2>4, <2>5 DEF IInv, TypeOK, PCs
<1> QED BY <1>6, <1>7

\* Where c is in the loop its attempt is one of the endpoints.
LEMMA InLoop ==
  ASSUME IInv, NEW c \in Conns, pc[c] \in {"attempt", "dial", "apply"}
  PROVE  /\ attempt[c] < NumEndpoints
         /\ Selected(c) \in Endpoints
         /\ FirstOf(c, attempt[c] + 1) = FirstOf(c, attempt[c]) \cup {Selected(c)}
         /\ Selected(c) \notin FirstOf(c, attempt[c])
<1>1. NumEndpoints \in 1 .. 8 /\ TotalAttempts \in 1 .. NumEndpoints
  BY Counts DEF IInv, TypeOK
<1>2. attempt[c] \in 0 .. NumEndpoints /\ attempt[c] < TotalAttempts
  BY DEF IInv, TypeOK, Progress
<1>3. attempt[c] < NumEndpoints
  BY <1>1, <1>2
<1> QED BY <1>3, SelectedIsEndpoint, FirstOfGrows DEF IInv

LEMMA BeginIInv ==
  ASSUME IInv, NEW c \in Conns, Begin(c) \/ BeginFails(c)
  PROVE  IInv'
<1>1. pc[c] = "attempt" /\ tried' = [tried EXCEPT ![c] = @ \cup {Selected(c)}]
  BY DEF Begin, BeginFails, Advance, Goto
<1>2. UNCHANGED <<server, base, open, applyFailed, copying, lbCounter, streak, restartSent,
                  reason, unconfirmed>>
  BY DEF Begin, BeginFails, sharedVars
<1>3. /\ tried' \in [Conns -> SUBSET Endpoints]
      /\ tried'[c] = FirstOf(c, attempt[c] + 1)
      /\ \A d \in Conns \ {c} : tried'[d] = tried[d]
  BY <1>1, InLoop DEF IInv, TypeOK, Progress
<1>4. NumEndpoints' = NumEndpoints /\ Endpoints' = Endpoints
  BY <1>2 DEF NumEndpoints, Endpoints
<1>5. open[c] = {} /\ ~registered[c]
  BY <1>1 DEF IInv, Holding
<1>6. CASE Begin(c)
  <2>1. /\ pc' = [pc EXCEPT ![c] = "dial"]
        /\ attempt' = attempt
        /\ registered' = [registered EXCEPT ![c] = server.raw]
    BY <1>6 DEF Begin, Goto
  <2>2. server.raw \in BOOLEAN
    BY ForwarderAssumption DEF IInv, TypeOK, Setting
  <2>3. TypeOK'
    BY <1>2, <1>3, <1>4, <2>1, <2>2 DEF IInv, TypeOK, PCs
  <2>4. Others(c)
    BY <1>2, <1>3, <2>1 DEF Others, IInv, TypeOK
  <2>5. pc'[c] = "dial"
    BY <2>1 DEF IInv, TypeOK
  <2>6. Progress(c)'
    BY <1>1, <1>2, <1>3, <2>1, <2>5, SameEndpoints DEF IInv, Progress
  <2>7. Holding(c)'
    BY <1>2, <1>5, <2>5 DEF Holding
  <2> QED BY <2>3, <2>4, <2>6, <2>7, OthersKeep DEF IInv
<1>7. CASE BeginFails(c)
  <2>1. Advance(c, "attempt") /\ registered' = registered
    BY <1>7 DEF BeginFails
  <2>2. /\ pc' \in [Conns -> PCs]
        /\ \A d \in Conns \ {c} : pc'[d] = pc[d] /\ attempt'[d] = attempt[d]
        /\ attempt' \in [Conns -> 0 .. NumEndpoints]
        /\ \A d \in Conns : pc'[d] = "attempt" => attempt'[d] \in Endpoints
        /\ Progress(c)'
        /\ Holding(c)'
    BY <1>2, <1>3, <1>5, <2>1, Advances
  <2>3. TypeOK'
    BY <1>2, <1>3, <1>4, <2>1, <2>2 DEF IInv, TypeOK
  <2>4. Others(c)
    BY <1>2, <1>3, <2>1, <2>2 DEF Others
  <2> QED BY <2>2, <2>3, <2>4, OthersKeep DEF IInv
<1> QED BY <1>6, <1>7

LEMMA DialIInv ==
  ASSUME IInv, NEW c \in Conns, Dial(c)
  PROVE  IInv'
<1>1. /\ pc[c] = "dial" /\ pc' = [pc EXCEPT ![c] = "apply"]
      /\ open' = [open EXCEPT ![c] = @ \cup {Selected(c)}]
      /\ UNCHANGED <<server, base, attempt, tried, registered, applyFailed, copying, lbCounter,
                     streak, restartSent, reason, unconfirmed>>
  BY DEF Dial, Goto, loopVars, sharedVars
<1>2. Selected(c) \in Endpoints /\ open[c] = {}
  BY <1>1, InLoop DEF IInv, Holding
<1>3. TypeOK'
  BY <1>1, <1>2 DEF IInv, TypeOK, PCs, NumEndpoints, Endpoints
<1>4. Others(c)
  BY <1>1 DEF Others, IInv, TypeOK
<1>5. pc'[c] = "apply" /\ open'[c] = {Selected(c)}
  BY <1>1, <1>2 DEF IInv, TypeOK
<1>6. Progress(c)' /\ Holding(c)'
  BY <1>1, <1>5, SameEndpoints DEF IInv, Progress, Holding
<1> QED BY <1>3, <1>4, <1>6, OthersKeep DEF IInv

\* An attempt that fails, before or after its upstream was there.
LEMMA FailsOverIInv ==
  ASSUME IInv, NEW c \in Conns, DialFails(c) \/ ApplyFailsOver(c)
  PROVE  IInv'
<1>1. /\ UNCHANGED <<server, base, tried, copying, lbCounter, streak, restartSent, reason,
                     unconfirmed>>
      /\ registered' = [registered EXCEPT ![c] = FALSE]
      /\ applyFailed' = applyFailed \/ applyFailed' = [applyFailed EXCEPT ![c] = TRUE]
  BY DEF DialFails, ApplyFailsOver, sharedVars
<1>2. /\ open' \in [Conns -> SUBSET Endpoints]
      /\ open'[c] = {}
      /\ \A d \in Conns \ {c} : open'[d] = open[d]
  <2>1. CASE DialFails(c)
    <3>1. open' = open /\ pc[c] = "dial"
      BY <2>1 DEF DialFails, Advance, Goto
    <3> QED BY <3>1 DEF IInv, TypeOK, Holding
  <2>2. CASE ApplyFailsOver(c)
    BY <2>2 DEF ApplyFailsOver, IInv, TypeOK
  <2> QED BY <2>1, <2>2
<1>3. PICK from \in {"dial", "apply"} : Advance(c, from)
  BY DEF DialFails, ApplyFailsOver
<1>4. tried'[c] = FirstOf(c, attempt[c] + 1)
  <2>1. pc[c] \in {"dial", "apply"}
    BY <1>3 DEF Advance, Goto
  <2> QED BY <1>1, <2>1 DEF IInv, Progress
<1>5. registered' \in [Conns -> BOOLEAN] /\ ~registered'[c]
  BY <1>1 DEF IInv, TypeOK
<1>6. /\ pc' \in [Conns -> PCs]
      /\ \A d \in Conns \ {c} : pc'[d] = pc[d] /\ attempt'[d] = attempt[d]
      /\ attempt' \in [Conns -> 0 .. NumEndpoints]
      /\ \A d \in Conns : pc'[d] = "attempt" => attempt'[d] \in Endpoints
      /\ Progress(c)'
      /\ Holding(c)'
  BY <1>1, <1>2, <1>3, <1>4, <1>5, Advances
<1>7. NumEndpoints' = NumEndpoints /\ Endpoints' = Endpoints
  BY <1>1 DEF NumEndpoints, Endpoints
<1>8. TypeOK'
  BY <1>1, <1>2, <1>5, <1>6, <1>7 DEF IInv, TypeOK
<1>9. Others(c)
  BY <1>1, <1>2, <1>6 DEF Others, IInv, TypeOK
<1> QED BY <1>6, <1>8, <1>9, OthersKeep DEF IInv

\* The strategy's last word: the connection is served, or wrong_seq drops it.
LEMMA AppliedIInv ==
  ASSUME IInv, NEW c \in Conns, ApplyOK(c) \/ ApplyFailsLast(c)
  PROVE  IInv'
<1>1. /\ UNCHANGED <<server, base, attempt, tried, copying, lbCounter, streak, restartSent, reason>>
      /\ pc[c] = "apply"
      /\ applyFailed' = applyFailed \/ applyFailed' = [applyFailed EXCEPT ![c] = TRUE]
      /\ unconfirmed' = unconfirmed \/ unconfirmed' = unconfirmed + 1
      /\ registered' = registered \/ registered' = [registered EXCEPT ![c] = FALSE]
  BY DEF ApplyOK, ApplyFailsLast, Goto, loopVars, sharedVars
<1>2. \/ pc' = [pc EXCEPT ![c] = "served"] /\ open' = open
      \/ /\ pc' = [pc EXCEPT ![c] = "done"]
         /\ open' = [open EXCEPT ![c] = {}]
         /\ registered' = [registered EXCEPT ![c] = FALSE]
  BY DEF ApplyOK, ApplyFailsLast, Goto
<1>3. TypeOK'
  <2>1. applyFailed' \in [Conns -> BOOLEAN]
    BY <1>1 DEF IInv, TypeOK
  <2>2. registered' \in [Conns -> BOOLEAN]
    BY <1>1 DEF IInv, TypeOK
  <2>3. unconfirmed' \in Nat
    BY <1>1 DEF IInv, TypeOK
  <2>4. /\ pc' \in [Conns -> PCs]
        /\ open' \in [Conns -> SUBSET Endpoints]
        /\ \A d \in Conns : pc'[d] = "attempt" => pc[d] = "attempt"
    BY <1>2 DEF IInv, TypeOK, PCs
  <2> QED BY <1>1, <2>1, <2>2, <2>3, <2>4 DEF IInv, TypeOK, NumEndpoints, Endpoints
<1>4. Others(c)
  BY <1>1, <1>2 DEF Others, IInv, TypeOK
<1>5. open[c] = {Selected(c)}
  BY <1>1 DEF IInv, Holding
<1>6. \/ pc'[c] = "served" /\ open'[c] = {Selected(c)}
      \/ pc'[c] = "done" /\ open'[c] = {} /\ ~registered'[c]
  BY <1>2, <1>5 DEF IInv, TypeOK
<1>7. Progress(c)' /\ Holding(c)'
  BY <1>1, <1>6, SameEndpoints DEF Progress, Holding
<1> QED BY <1>3, <1>4, <1>7, OthersKeep DEF IInv

-----------------------------------------------------------------------------
(* The report and the relay.                                               *)

\* A dropped connection has nothing left.
LEMMA FailureIInv ==
  ASSUME IInv, NEW c \in Conns, Failure(c) \/ Claim(c)
  PROVE  IInv'
<1>1. /\ UNCHANGED <<server, base, attempt, tried, open, registered, applyFailed, copying, lbCounter>>
      /\ pc[c] \in {"dropped", "claim"}
      /\ pc' = [pc EXCEPT ![c] = "done"] \/ pc' = [pc EXCEPT ![c] = "claim"]
  <2>1. UNCHANGED <<server, base, attempt, tried, open, registered, applyFailed, copying, lbCounter>>
    BY DEF Failure, Claim, loopVars
  <2>2. \/ Goto(c, "dropped", "done")
        \/ Goto(c, "dropped", "claim")
        \/ Goto(c, "claim", "done")
    <3>1. CASE Failure(c)
      BY <3>1, Zenon DEF Failure
    <3>2. CASE Claim(c)
      BY <3>2, Zenon DEF Claim
    <3> QED BY <3>1, <3>2
  <2>3. /\ pc[c] \in {"dropped", "claim"}
        /\ pc' = [pc EXCEPT ![c] = "done"] \/ pc' = [pc EXCEPT ![c] = "claim"]
    BY <2>2, Zenon DEF Goto
  <2> QED BY <2>1, <2>3
<1>2. streak' \in Nat /\ unconfirmed' \in Nat /\ restartSent' \in BOOLEAN
  <2>1. CASE Failure(c)
    BY <2>1 DEF Failure, IInv, TypeOK
  <2>2. CASE Claim(c)
    BY <2>2 DEF Claim, IInv, TypeOK
  <2> QED BY <2>1, <2>2
<1>3. reason' \in {"none", "upstream_unreachable", "all_endpoints_failed_confirmation"}
  <2>1. CASE Failure(c)
    BY <2>1 DEF Failure, IInv, TypeOK
  <2>2. CASE Claim(c)
    BY <2>2 DEF Claim, IInv, TypeOK
  <2> QED BY <2>1, <2>2
<1>4. TypeOK'
  BY <1>1, <1>2, <1>3 DEF IInv, TypeOK, PCs, NumEndpoints, Endpoints
<1>5. Others(c)
  BY <1>1 DEF Others, IInv, TypeOK
<1>6. open[c] = {} /\ ~registered[c] /\ tried[c] = FirstOf(c, TotalAttempts)
  BY <1>1 DEF IInv, Progress, Holding
<1>7. pc'[c] \in {"claim", "done"}
  BY <1>1 DEF IInv, TypeOK
<1>8. Progress(c)' /\ Holding(c)'
  BY <1>1, <1>6, <1>7, SameEndpoints DEF Progress, Holding
<1> QED BY <1>4, <1>5, <1>8, OthersKeep DEF IInv

\* A served one keeps its upstream until the relay has ended.
LEMMA ServedIInv ==
  ASSUME IInv, NEW c \in Conns,
         SuccessReset(c) \/ SuccessClear(c) \/ \E direction \in {"up", "down"} : CopyEnds(c, direction)
  PROVE  IInv'
<1>1. /\ UNCHANGED <<server, base, attempt, tried, open, registered, applyFailed, lbCounter, reason>>
      /\ pc[c] \in {"served", "cleared", "relay"}
      /\ \/ pc' = [pc EXCEPT ![c] = "cleared"]
         \/ pc' = [pc EXCEPT ![c] = "relay"]
         \/ pc' = pc
  BY DEF SuccessReset, SuccessClear, CopyEnds, Goto, loopVars, sharedVars
<1>2. /\ streak' \in Nat /\ unconfirmed' \in Nat /\ restartSent' \in BOOLEAN
      /\ copying' \in [Conns -> SUBSET {"up", "down"}]
  <2>1. CASE SuccessReset(c)
    BY <2>1 DEF SuccessReset, IInv, TypeOK
  <2>2. CASE SuccessClear(c)
    BY <2>2 DEF SuccessClear, IInv, TypeOK
  <2>3. ASSUME NEW direction \in {"up", "down"}, CopyEnds(c, direction)
        PROVE  /\ UNCHANGED <<streak, unconfirmed, restartSent>>
               /\ copying' \in [Conns -> SUBSET {"up", "down"}]
    BY <2>3 DEF CopyEnds, sharedVars, IInv, TypeOK
  <2> QED BY <2>1, <2>2, <2>3 DEF IInv, TypeOK
<1>3. TypeOK'
  BY <1>1, <1>2 DEF IInv, TypeOK, PCs, NumEndpoints, Endpoints
<1>4. Others(c)
  BY <1>1 DEF Others, IInv, TypeOK
<1>5. open[c] = {Selected(c)} /\ pc'[c] \in {"served", "cleared", "relay"}
  BY <1>1 DEF IInv, TypeOK, Holding
<1>6. Progress(c)' /\ Holding(c)'
  BY <1>1, <1>5, SameEndpoints DEF Progress, Holding
<1> QED BY <1>3, <1>4, <1>6, OthersKeep DEF IInv

LEMMA ReturnIInv ==
  ASSUME IInv, NEW c \in Conns, Return(c)
  PROVE  IInv'
<1>1. /\ pc' = [pc EXCEPT ![c] = "done"]
      /\ open' = [open EXCEPT ![c] = {}]
      /\ registered' = [registered EXCEPT ![c] = FALSE]
      /\ UNCHANGED <<server, base, attempt, tried, applyFailed, copying, lbCounter, streak,
                     restartSent, reason, unconfirmed>>
  BY DEF Return, Goto, loopVars, sharedVars
<1>2. TypeOK'
  BY <1>1 DEF IInv, TypeOK, PCs, NumEndpoints, Endpoints
<1>3. Others(c)
  BY <1>1 DEF Others, IInv, TypeOK
<1>4. pc'[c] = "done" /\ open'[c] = {} /\ ~registered'[c]
  BY <1>1 DEF IInv, TypeOK
<1>5. Progress(c)' /\ Holding(c)'
  BY <1>4 DEF Progress, Holding
<1> QED BY <1>2, <1>3, <1>5, OthersKeep DEF IInv

LEMMA StepIInv == IInv /\ [Next]_vars => IInv'
<1> SUFFICES ASSUME IInv, [Next]_vars PROVE IInv'
  OBVIOUS
<1>1. ASSUME NEW c \in Conns, Handler(c) PROVE IInv'
  BY <1>1, ReadIInv, PickIInv, BeginIInv, DialIInv, FailsOverIInv, AppliedIInv, FailureIInv,
     ServedIInv, ReturnIInv
  DEF Handler, Try, Report
<1>2. CASE UNCHANGED vars
  <2>1. TypeOK'
    BY <1>2 DEF vars, loopVars, sharedVars, IInv, TypeOK, NumEndpoints, Endpoints
  <2>2. ASSUME NEW c \in Conns PROVE Progress(c)' /\ Holding(c)'
    <3>1. Progress(c) /\ Holding(c)
      BY DEF IInv
    <3> QED BY <1>2, <3>1, SameEndpoints DEF vars, loopVars, Progress, Holding
  <2> QED BY <2>1, <2>2 DEF IInv
<1> QED BY <1>1, <1>2 DEF Next

-----------------------------------------------------------------------------
(* The theorems.                                                           *)

\* A handler's variables keep their types; its index never leaves the endpoints.
THEOREM HandlerTypeCorrect == Spec => []TypeOK
<1>1. IInv => TypeOK
  BY DEF IInv
<1> QED BY <1>1, InitIInv, StepIInv, PTL DEF Spec

\* For any endpoints, balancer and failover: an endpoint is tried at most once for
\* a connection, and with a balancer all are before it is dropped (server.go:129-160).
THEOREM TriesEachEndpointOnce == Spec => []EachEndpointOnce
<1>1. IInv => EachEndpointOnce
  <2> SUFFICES ASSUME IInv, NEW c \in Conns
               PROVE  /\ pc[c] \in {"dropped", "claim"} /\ server.loadBalance # "" => tried[c] = Endpoints
                      /\ pc[c] = "attempt" => Selected(c) \notin tried[c]
    BY DEF EachEndpointOnce, DroppedAfterEveryEndpoint, NoEndpointTwice
  <2>1. ASSUME pc[c] \in {"dropped", "claim"}, server.loadBalance # ""
        PROVE  tried[c] = Endpoints
    <3>1. TotalAttempts = NumEndpoints
      BY <2>1, Counts DEF IInv, TypeOK
    <3>2. tried[c] = FirstOf(c, TotalAttempts)
      BY <2>1 DEF IInv, Progress
    <3> QED BY <3>1, <3>2, FirstOfAll DEF IInv
  <2>2. ASSUME pc[c] = "attempt" PROVE Selected(c) \notin tried[c]
    BY <2>2, InLoop DEF IInv, Progress
  <2> QED BY <2>1, <2>2
<1> QED BY <1>1, InitIInv, StepIInv, PTL DEF Spec

\* Whichever exit a handler takes, it has no socket and no port then, and one
\* upstream, the selected one, while it serves (server.go:148-343).
THEOREM ReleasesUpstream == Spec => []UpstreamReleased
<1>1. IInv => UpstreamReleased
  <2> SUFFICES ASSUME IInv, NEW c \in Conns
               PROVE  /\ Cardinality(open[c]) <= 1
                      /\ pc[c] \in {"served", "cleared", "relay"} => open[c] = {Selected(c)}
                      /\ pc[c] \in {"attempt", "dropped", "claim", "done"} =>
                           open[c] = {} /\ ~registered[c]
    BY DEF UpstreamReleased
  <2>1. Holding(c)
    BY DEF IInv
  <2>2. open[c] = {} \/ open[c] = {Selected(c)}
    BY <2>1 DEF Holding
  <2>3. Cardinality(open[c]) <= 1
    BY <2>2, FS_EmptySet, FS_Singleton
  <2> QED BY <2>1, <2>3 DEF Holding
<1> QED BY <1>1, InitIInv, StepIInv, PTL DEF Spec

-----------------------------------------------------------------------------
(* Round robin.                                                            *)

\* The connections that have picked e as their first choice.
Choosers(e) == {c \in Conns : (pc[c] = "attempt" \/ tried[c] # {}) /\ base[c] = e}

Rotates == NumEndpoints > 1 /\ server.loadBalance = "round_robin"

\* The counter has been through all the endpoints some times, and begun again.
EvenInv ==
  \A e \in Endpoints :
    /\ IsFiniteSet(Choosers(e))
    /\ Rotates => Cardinality(Choosers(e)) =
                    (lbCounter \div NumEndpoints)
                      + (IF e < lbCounter % NumEndpoints THEN 1 ELSE 0)

LEMMA InitEvenInv == Init => EvenInv
<1> SUFFICES ASSUME Init, NEW e \in Endpoints
             PROVE  /\ IsFiniteSet(Choosers(e))
                    /\ Cardinality(Choosers(e)) =
                         (lbCounter \div NumEndpoints)
                           + (IF e < lbCounter % NumEndpoints THEN 1 ELSE 0)
  BY DEF EvenInv
<1>1. Choosers(e) = {}
  BY DEF Init, Choosers
<1>2. NumEndpoints \in 1 .. 8 /\ lbCounter = 0 /\ e \in 0 .. NumEndpoints - 1
  BY Counts DEF Init, Endpoints
<1>3. 0 \div NumEndpoints = 0 /\ 0 % NumEndpoints = 0
  BY <1>2
<1> QED BY <1>1, <1>2, <1>3, FS_EmptySet

\* A quotient and its remainder go on by one.
LEMMA NextRemainder ==
  ASSUME NEW n \in 1 .. 8, NEW k \in Nat
  PROVE  /\ k \div n \in Nat /\ k % n \in 0 .. n - 1
         /\ (k + 1) \div n = IF k % n = n - 1 THEN (k \div n) + 1 ELSE k \div n
         /\ (k + 1) % n = IF k % n = n - 1 THEN 0 ELSE (k % n) + 1
<1>1. n = 1 \/ n = 2 \/ n = 3 \/ n = 4 \/ n = 5 \/ n = 6 \/ n = 7 \/ n = 8
  OBVIOUS
<1>2. CASE n = 1
  BY <1>2
<1>3. CASE n = 2
  BY <1>3
<1>4. CASE n = 3
  BY <1>4
<1>5. CASE n = 4
  BY <1>5
<1>6. CASE n = 5
  BY <1>6
<1>7. CASE n = 6
  BY <1>7
<1>8. CASE n = 7
  BY <1>8
<1>9. CASE n = 8
  BY <1>9
<1> QED BY <1>1, <1>2, <1>3, <1>4, <1>5, <1>6, <1>7, <1>8, <1>9

\* The pick adds its connection to those of one endpoint.
LEMMA PickEvenInv ==
  ASSUME IInv, EvenInv, NEW c \in Conns, Pick(c)
  PROVE  EvenInv'
<1>1. NumEndpoints \in 1 .. 8 /\ lbCounter \in Nat
  BY Counts DEF IInv, TypeOK
<1>2. /\ pc[c] = "pick" /\ pc' = [pc EXCEPT ![c] = "attempt"] /\ tried[c] = {}
      /\ UNCHANGED <<server, tried>>
      /\ lbCounter' = IF Rotates THEN lbCounter + 1 ELSE lbCounter
      /\ pc \in [Conns -> PCs] /\ base \in [Conns -> Endpoints]
  BY DEF Pick, Goto, Rotates, IInv, TypeOK, Progress
<1>3. PICK b : /\ base' = [base EXCEPT ![c] = b]
               /\ Rotates => b = lbCounter % NumEndpoints
  BY DEF Pick, Rotates
<1>4. NumEndpoints' = NumEndpoints /\ Rotates' = Rotates /\ Endpoints' = Endpoints
  BY <1>2 DEF NumEndpoints, Rotates, Endpoints
<1> SUFFICES ASSUME NEW e \in Endpoints
             PROVE  /\ IsFiniteSet(Choosers(e)')
                    /\ Rotates => Cardinality(Choosers(e)') =
                         (lbCounter' \div NumEndpoints)
                           + (IF e < lbCounter' % NumEndpoints THEN 1 ELSE 0)
  BY <1>4 DEF EvenInv
<1>5. /\ c \notin Choosers(e)
      /\ Choosers(e)' = IF e = b THEN Choosers(e) \cup {c} ELSE Choosers(e)
  BY <1>2, <1>3 DEF Choosers
<1>6. /\ IsFiniteSet(Choosers(e))
      /\ Rotates => Cardinality(Choosers(e)) =
                      (lbCounter \div NumEndpoints)
                        + (IF e < lbCounter % NumEndpoints THEN 1 ELSE 0)
  BY DEF EvenInv
<1>7. /\ IsFiniteSet(Choosers(e)')
      /\ Cardinality(Choosers(e)') =
           IF e = b THEN Cardinality(Choosers(e)) + 1 ELSE Cardinality(Choosers(e))
  BY <1>5, <1>6, FS_AddElement
<1>8. ASSUME Rotates
      PROVE  Cardinality(Choosers(e)') =
               (lbCounter' \div NumEndpoints)
                 + (IF e < lbCounter' % NumEndpoints THEN 1 ELSE 0)
  <2> DEFINE q == lbCounter \div NumEndpoints
             r == lbCounter % NumEndpoints
             size == Cardinality(Choosers(e))
             grown == Cardinality(Choosers(e)')
  <2>1. e \in 0 .. NumEndpoints - 1
    BY DEF Endpoints
  <2>2. /\ q \in Nat /\ r \in 0 .. NumEndpoints - 1
        /\ lbCounter' \div NumEndpoints = IF r = NumEndpoints - 1 THEN q + 1 ELSE q
        /\ lbCounter' % NumEndpoints = IF r = NumEndpoints - 1 THEN 0 ELSE r + 1
    BY <1>1, <1>2, <1>8, NextRemainder
  <2>3. /\ size = q + (IF e < r THEN 1 ELSE 0)
        /\ grown = IF e = r THEN size + 1 ELSE size
    BY <1>3, <1>6, <1>7, <1>8
  <2> HIDE DEF q, r, size, grown
  <2>4. grown = (lbCounter' \div NumEndpoints)
                  + (IF e < lbCounter' % NumEndpoints THEN 1 ELSE 0)
    BY <1>1, <2>1, <2>2, <2>3
  <2> QED BY <2>4 DEF grown
<1> QED BY <1>7, <1>8

\* No other step makes or undoes a choice.
LEMMA OthersEvenInv ==
  ASSUME IInv, EvenInv, [Next]_vars, \A c \in Conns : ~Pick(c)
  PROVE  EvenInv'
<1>1. UNCHANGED <<server, base, lbCounter>>
  BY DEF Next, Handler, Read, Try, Begin, BeginFails, Dial, DialFails, ApplyOK, ApplyFailsOver,
         ApplyFailsLast, Report, Failure, Claim, SuccessReset, SuccessClear, CopyEnds, Return,
         loopVars, sharedVars, vars
<1>2. ASSUME NEW d \in Conns
      PROVE  (pc'[d] = "attempt" \/ tried'[d] # {}) <=> (pc[d] = "attempt" \/ tried[d] # {})
  <2>1. pc[d] \in {"dial", "apply"} => tried[d] # {}
    <3> SUFFICES ASSUME pc[d] \in {"dial", "apply"} PROVE tried[d] # {}
      OBVIOUS
    <3>1. tried[d] = FirstOf(d, attempt[d] + 1) /\ attempt[d] \in Nat
      BY Indices DEF IInv, Progress
    <3>2. 0 \in 0 .. (attempt[d] + 1) - 1
      BY <3>1
    <3> QED BY <3>1, <3>2 DEF FirstOf
  <2>2. pc \in [Conns -> PCs] /\ tried \in [Conns -> SUBSET Endpoints]
    BY DEF IInv, TypeOK
  <2>3. CASE UNCHANGED vars
    BY <2>3 DEF vars, loopVars
  <2>4. ASSUME NEW c \in Conns, Read(c) \/ Report(c) \/ Return(c)
                                \/ \E direction \in {"up", "down"} : CopyEnds(c, direction)
        PROVE  (pc'[d] = "attempt" \/ tried'[d] # {}) <=> (pc[d] = "attempt" \/ tried[d] # {})
    BY <2>2, <2>4 DEF Read, Report, Failure, Claim, SuccessReset, SuccessClear, CopyEnds, Return,
                      Goto, loopVars
  <2>5. ASSUME NEW c \in Conns, Try(c)
        PROVE  (pc'[d] = "attempt" \/ tried'[d] # {}) <=> (pc[d] = "attempt" \/ tried[d] # {})
    BY <2>1, <2>2, <2>5 DEF Try, Begin, BeginFails, Dial, DialFails, ApplyOK, ApplyFailsOver,
                            ApplyFailsLast, Advance, Goto, loopVars
  <2> QED BY <2>3, <2>4, <2>5 DEF Next, Handler
<1>3. \A e : Choosers(e)' = Choosers(e)
  BY <1>1, <1>2 DEF Choosers
<1>4. NumEndpoints' = NumEndpoints /\ Rotates' = Rotates /\ Endpoints' = Endpoints
  BY <1>1 DEF NumEndpoints, Rotates, Endpoints
<1> QED BY <1>1, <1>3, <1>4 DEF EvenInv

\* In whatever order the handlers add to the counter and however long each stays in
\* its loop, no endpoint is the first choice of two connections more than another
\* (server.go:376-390).
THEOREM SpreadsEvenly == Spec => []RoundRobinEven
<1>1. IInv /\ EvenInv => RoundRobinEven
  <2> SUFFICES ASSUME IInv, EvenInv, server.loadBalance = "round_robin",
                      NEW e \in Endpoints, NEW f \in Endpoints
               PROVE  Cardinality(Choosers(e)) <= Cardinality(Choosers(f)) + 1
    <3>1. \A e \in Endpoints :
            {c \in {d \in Conns : pc[d] = "attempt" \/ tried[d] # {}} : base[c] = e} = Choosers(e)
      BY DEF Choosers
    <3> QED BY <3>1 DEF RoundRobinEven
  <2>1. NumEndpoints \in 1 .. 8 /\ lbCounter \in Nat
    BY Counts DEF IInv, TypeOK
  <2>2. CASE Rotates
    <3>1. lbCounter \div NumEndpoints \in Nat
      BY <2>1, NextRemainder
    <3>2. \A g \in Endpoints :
            Cardinality(Choosers(g)) \in {lbCounter \div NumEndpoints,
                                          (lbCounter \div NumEndpoints) + 1}
      BY <2>2, <3>1 DEF EvenInv
    <3> QED BY <3>1, <3>2
  <2>3. CASE ~Rotates
    <3>1. e = f
      BY <2>1, <2>3 DEF Rotates, Endpoints
    <3>2. Cardinality(Choosers(f)) \in Nat
      BY FS_CardinalityType DEF EvenInv
    <3> QED BY <3>1, <3>2
  <2> QED BY <2>2, <2>3
<1>2. IInv /\ EvenInv /\ [Next]_vars => EvenInv'
  BY PickEvenInv, OthersEvenInv
<1> QED BY <1>1, <1>2, InitIInv, StepIInv, InitEvenInv, PTL DEF Spec

-----------------------------------------------------------------------------
(* The handler with the strategies' writes.                                *)

\* What is known of the writes between two steps: a strategy is under way only
\* while its handler is in Apply, and nothing has been sent to an upstream whose
\* strategy still waits or has yet to fake.
Unwritten ==
  /\ pc = [c \in Conns |-> pc[c]]
  /\ stage \in [Conns -> Stages]
  /\ sent = [c \in Conns |-> sent[c]]
  /\ alive = [c \in Conns |-> alive[c]]
  /\ \A c \in Conns : pc[c] # "apply" => stage[c] = "idle"
  /\ \A c \in Conns : stage[c] \in {"wait", "fake"} => sent[c] = <<>>

LEMMA InitUnwritten == WInit => Unwritten
  BY DEF WInit, Init, Unwritten, Stages

LEMMA StrategyUnwritten ==
  ASSUME Unwritten, NEW c \in Conns, Strategy(c)
  PROVE  Unwritten'
<1>1. CASE Dialled(c)
  <2>1. pc' = [pc EXCEPT ![c] = "apply"]
    BY <1>1 DEF Dialled, Dial, Goto
  <2> QED BY <1>1, <2>1 DEF Dialled, Unwritten, Stages, StageOf
<1>2. CASE Waited(c)
  BY <1>2 DEF Waited, Unwritten, Stages, vars
<1>3. CASE WriteFake(c)
  <2>1. stage' = [stage EXCEPT ![c] = "write"] /\ pc' = pc /\ stage[c] = "fake"
    BY <1>3 DEF WriteFake, vars
  <2>2. CASE sent' = [sent EXCEPT ![c] = @ \o FakeHello] /\ UNCHANGED alive
    BY <2>1, <2>2 DEF Unwritten, Stages
  <2>3. CASE alive' = [alive EXCEPT ![c] = FALSE] /\ UNCHANGED sent
    BY <2>1, <2>3 DEF Unwritten, Stages
  <2> QED BY <1>3, <2>2, <2>3 DEF WriteFake
<1>4. CASE WritePiece(c)
  BY <1>4 DEF WritePiece, Unwritten, Stages, vars
<1>5. CASE WriteLast(c)
  <2>1. pc' = [pc EXCEPT ![c] = "served"]
    BY <1>5 DEF WriteLast, ApplyOK, Goto
  <2> QED BY <1>5, <2>1 DEF WriteLast, Unwritten, Stages
<1>6. CASE ReturnsFalse(c)
  <2>1. stage' = [stage EXCEPT ![c] = "idle"]
    BY <1>6 DEF ReturnsFalse
  <2>2. alive' = [d \in Conns |-> alive'[d]]
    BY <1>6 DEF ReturnsFalse, MayReturnFalse, Unwritten
  <2>3. /\ sent' = [d \in Conns |-> sent'[d]]
        /\ \A d \in Conns : d # c => sent'[d] = sent[d]
    BY <1>6 DEF ReturnsFalse, Send, Unwritten
  <2>4. \E to : pc' = [pc EXCEPT ![c] = to]
    BY <1>6 DEF ReturnsFalse, ApplyFailsOver, ApplyFailsLast, Advance, Goto
  <2> QED BY <2>1, <2>2, <2>3, <2>4 DEF Unwritten, Stages
<1> QED BY <1>1, <1>2, <1>3, <1>4, <1>5, <1>6 DEF Strategy

\* Outside Dial and Apply a handler neither enters nor leaves "apply".
LEMMA OutsideApply ==
  ASSUME Unwritten, NEW c \in Conns, Outside(c)
  PROVE  /\ pc' = [d \in Conns |-> pc'[d]]
         /\ \A d \in Conns : pc'[d] # "apply" => pc[d] # "apply"
<1>1. UNCHANGED pc \/ \E to : pc[c] # "apply" /\ pc' = [pc EXCEPT ![c] = to]
  BY DEF Outside, Read, Pick, Begin, BeginFails, DialFails, Report, Failure, Claim,
         SuccessReset, SuccessClear, CopyEnds, Return, Advance, Goto
<1> QED BY <1>1 DEF Unwritten

LEMMA StepUnwritten == Unwritten /\ [WNext]_wvars => Unwritten'
<1> SUFFICES ASSUME Unwritten, [WNext]_wvars PROVE Unwritten'
  OBVIOUS
<1>1. CASE UNCHANGED wvars
  BY <1>1 DEF wvars, vars, writeVars, Unwritten
<1>2. ASSUME NEW c \in Conns, Strategy(c) PROVE Unwritten'
  BY <1>2, StrategyUnwritten
<1>3. ASSUME NEW c \in Conns, Outside(c) PROVE Unwritten'
  <2>1. UNCHANGED <<stage, sent, alive>>
    BY <1>3 DEF Outside, writeVars
  <2> QED BY <1>3, <2>1, OutsideApply DEF Unwritten
<1>4. ASSUME NEW c \in Conns, RelayRest(c) PROVE Unwritten'
  <2>1. UNCHANGED <<stage, alive, pc>> /\ stage[c] = "idle"
    BY <1>4 DEF RelayRest, vars, Unwritten
  <2>2. /\ sent' = [d \in Conns |-> sent'[d]]
        /\ \A d \in Conns : d # c => sent'[d] = sent[d]
    BY <1>4 DEF RelayRest, Send, Unwritten
  <2> QED BY <2>1, <2>2 DEF Unwritten
<1> QED BY <1>1, <1>2, <1>3, <1>4 DEF WNext

\* Whichever way a strategy fails, an upstream that still takes writes has been
\* sent nothing by it: the handler's own first write is the first (server.go:287-288).
THEOREM FallsBackOnUnwrittenUpstream == WSpec => FallsBackOnUnwritten
<1>1. Unwritten /\ [WNext]_wvars =>
        [\A c \in Conns : ReturnsFalse(c) /\ alive'[c] => sent[c] = <<>>]_wvars
  <2> SUFFICES ASSUME Unwritten, NEW c \in Conns, ReturnsFalse(c), alive'[c]
               PROVE  sent[c] = <<>>
    OBVIOUS
  <2>1. ~(alive' = [alive EXCEPT ![c] = FALSE])
    BY DEF Unwritten
  <2>2. stage[c] \in {"wait", "fake"}
    BY <2>1 DEF ReturnsFalse, MayReturnFalse
  <2> QED BY <2>2 DEF Unwritten
<1> QED BY <1>1, InitUnwritten, StepUnwritten, PTL DEF WSpec, FallsBackOnUnwritten

LEMMA StepHandler == [WNext]_wvars => [Next]_vars
<1> SUFFICES ASSUME [WNext]_wvars PROVE [Next]_vars
  OBVIOUS
<1>1. CASE UNCHANGED wvars
  BY <1>1 DEF wvars
<1>2. ASSUME NEW c \in Conns, Strategy(c) PROVE [Next]_vars
  BY <1>2 DEF Strategy, Dialled, Waited, WriteFake, WritePiece, WriteLast,
              ReturnsFalse, Next, Handler, Try
<1>3. ASSUME NEW c \in Conns, Outside(c) PROVE [Next]_vars
  BY <1>3 DEF Outside, Next, Handler, Try
<1>4. ASSUME NEW c \in Conns, RelayRest(c) PROVE [Next]_vars
  BY <1>4 DEF RelayRest
<1> QED BY <1>1, <1>2, <1>3, <1>4 DEF WNext

\* The writes add nothing to the handler and take nothing from it: what is proved
\* of Forwarder holds with any strategy's writes in it (server.go:243-290).
THEOREM WritesImplementHandler == WSpec => Spec
<1>1. WInit => Init
  BY DEF WInit
<1> QED BY <1>1, StepHandler, PTL DEF WSpec, Spec

-----------------------------------------------------------------------------
(* Streams of any length.                                                  *)

\* A set of naturals has a least element.
LEMMA LeastNatural ==
  ASSUME NEW T \in SUBSET Nat, T # {}
  PROVE  \E x \in T : \A y \in T : x <= y
<1> DEFINE R == OpToRel(<, Nat)
<1>1. IsWellFoundedOn(R, Nat)
  BY NatLessThanWellFounded
<1>2. \A x, y \in Nat : y < x => <<y, x>> \in R
  BY Zenon DEF OpToRel
<1> HIDE DEF R
<1>3. PICK x \in T : \A y \in T : ~ (<<y, x>> \in R)
  BY <1>1, WFMin
<1>4. \A y \in T : ~ (y < x)
  BY <1>2, <1>3
<1> QED BY <1>4

\* A set of naturals that has zero, and each successor up to a bound, is full.
LEMMA Induction ==
  ASSUME NEW last \in Nat, NEW T \in SUBSET Nat, 0 \in T,
         \A n \in 1 .. last : n - 1 \in T => n \in T
  PROVE  0 .. last \subseteq T
<1> SUFFICES ASSUME NEW m \in 0 .. last, m \notin T
             PROVE  FALSE
  OBVIOUS
<1> DEFINE U == (0 .. last) \ T
<1>1. U \in SUBSET Nat /\ U # {}
  OBVIOUS
<1>2. PICK n \in U : \A k \in U : n <= k
  BY <1>1, LeastNatural
<1>3. n \in 1 .. last /\ n - 1 \in 0 .. last
  BY <1>2
<1>4. n - 1 \in T
  BY <1>2, <1>3
<1> QED BY <1>2, <1>3, <1>4

\* The data of a stream up to a unit, given the data before it.
DataStep(stream, g, n) ==
  IF n = 0 THEN <<>>
  ELSE IF IsHeader(stream[n]) THEN g[n - 1] ELSE Append(g[n - 1], stream[n])

LEMMA DataDefined ==
  ASSUME NEW stream \in Seq(Unit)
  PROVE  \E g : g = [n \in 0 .. Len(stream) |-> DataStep(stream, g, n)]
<1> DEFINE Good(m, g) == g = [n \in 0 .. m |-> DataStep(stream, g, n)]
           T == {m \in Nat : \E g : Good(m, g)}
<1>1. 0 \in T
  <2> DEFINE g == [n \in 0 .. 0 |-> <<>>]
  <2>1. Good(0, g)
    BY DEF DataStep
  <2> QED BY <2>1
<1>2. ASSUME NEW m \in 1 .. Len(stream), m - 1 \in T
      PROVE  m \in T
  <2>1. PICK g : Good(m - 1, g)
    BY <1>2
  <2> DEFINE h == [n \in 0 .. m |-> IF n = m THEN DataStep(stream, g, m) ELSE g[n]]
  <2>2. \A n \in 0 .. m : h[n] = DataStep(stream, h, n)
    <3> SUFFICES ASSUME NEW n \in 0 .. m PROVE h[n] = DataStep(stream, h, n)
      OBVIOUS
    <3>1. CASE n = 0
      <4>1. h[n] = g[n] /\ g[n] = DataStep(stream, g, n)
        BY <2>1, <3>1
      <4> QED BY <3>1, <4>1 DEF DataStep
    <3>2. CASE n # 0
      <4>1. n - 1 \in 0 .. m - 1 /\ n - 1 \in 0 .. m /\ n - 1 # m
        BY <3>2
      <4>2. h[n - 1] = g[n - 1]
        BY <4>1
      <4>3. h[n] = DataStep(stream, g, n)
        <5>1. CASE n = m
          BY <5>1
        <5>2. CASE n # m
          <6>1. n \in 0 .. m - 1
            BY <5>2
          <6> QED BY <2>1, <5>2, <6>1
        <5> QED BY <5>1, <5>2
      <4> HIDE DEF h
      <4> QED BY <3>2, <4>2, <4>3 DEF DataStep
    <3> QED BY <3>1, <3>2
  <2>3. Good(m, h)
    BY <2>2
  <2> HIDE DEF h, Good
  <2> QED BY <2>3
<1>3. Len(stream) \in T
  <2>1. T \in SUBSET Nat /\ Len(stream) \in Nat
    OBVIOUS
  <2> HIDE DEF T
  <2>2. 0 .. Len(stream) \subseteq T
    BY <1>1, <1>2, <2>1, Induction
  <2> QED BY <2>1, <2>2
<1> QED BY <1>3

\* Data up to each unit.
Upto(stream, g) ==
  /\ DataOf(stream) = g[Len(stream)]
  /\ g[0] = <<>>
  /\ \A n \in 1 .. Len(stream) :
       g[n] = IF IsHeader(stream[n]) THEN g[n - 1] ELSE Append(g[n - 1], stream[n])
  /\ \A n \in 0 .. Len(stream) : g[n] \in Seq(Unit)

LEMMA DataSteps ==
  ASSUME NEW stream \in Seq(Unit)
  PROVE  \E g : Upto(stream, g)
<1> DEFINE f == CHOOSE g : g = [n \in 0 .. Len(stream) |-> DataStep(stream, g, n)]
<1>1. f = [n \in 0 .. Len(stream) |-> DataStep(stream, f, n)]
  BY DataDefined
<1>2. DataOf(stream) = f[Len(stream)]
  BY DEF DataOf, DataStep
<1> HIDE DEF f
<1>3. \A n \in 0 .. Len(stream) : f[n] = DataStep(stream, f, n)
  BY <1>1
<1>4. f[0] = <<>>
  BY <1>3 DEF DataStep
<1>5. \A n \in 1 .. Len(stream) :
        f[n] = IF IsHeader(stream[n]) THEN f[n - 1] ELSE Append(f[n - 1], stream[n])
  BY <1>3 DEF DataStep
<1>6. \A n \in 0 .. Len(stream) : f[n] \in Seq(Unit)
  <2> DEFINE T == {n \in Nat : f[n] \in Seq(Unit)}
  <2>1. 0 \in T
    <3>1. f[0] \in Seq(Unit)
      BY <1>4, EmptySeq
    <3> QED BY <3>1
  <2>2. ASSUME NEW n \in 1 .. Len(stream), n - 1 \in T
        PROVE  n \in T
    <3>1. f[n - 1] \in Seq(Unit) /\ stream[n] \in Unit
      BY <2>2
    <3>2. Append(f[n - 1], stream[n]) \in Seq(Unit)
      BY <3>1, AppendProperties
    <3>3. f[n] \in Seq(Unit)
      BY <1>5, <3>1, <3>2
    <3> QED BY <3>3
  <2>3. T \in SUBSET Nat /\ Len(stream) \in Nat
    OBVIOUS
  <2> HIDE DEF T
  <2>4. 0 .. Len(stream) \subseteq T
    BY <2>1, <2>2, <2>3, Induction
  <2> QED BY <2>4 DEF T
<1> QED BY <1>2, <1>4, <1>5, <1>6 DEF Upto

LEMMA DataType ==
  ASSUME NEW stream \in Seq(Unit)
  PROVE  DataOf(stream) \in Seq(Unit)
<1>1. PICK g : Upto(stream, g)
  BY DataSteps
<1> QED BY <1>1 DEF Upto

LEMMA AppendAfter ==
  ASSUME NEW s \in Seq(Unit), NEW t \in Seq(Unit), NEW u \in Unit
  PROVE  Append(s \o t, u) = s \o Append(t, u)
<1> DEFINE one == <<u>>
<1>1. one \in Seq(Unit)
  OBVIOUS
<1>2. s \o t \in Seq(Unit)
  BY ConcatProperties
<1>3. Append(s \o t, u) = (s \o t) \o one
  BY <1>2, AppendIsConcat
<1>4. Append(t, u) = t \o one
  BY AppendIsConcat
<1> HIDE DEF one
<1>5. (s \o t) \o one = s \o (t \o one)
  BY <1>1, ConcatAssociative
<1> QED BY <1>3, <1>4, <1>5

\* The data of a stream that goes on is that of its beginning, and then the rest's.
LEMMA DataOfBoth ==
  ASSUME NEW s \in Seq(Unit), NEW t \in Seq(Unit)
  PROVE  DataOf(s \o t) = DataOf(s) \o DataOf(t)
<1> DEFINE st == s \o t
<1>1. /\ st \in Seq(Unit) /\ Len(st) = Len(s) + Len(t)
      /\ Len(s) \in Nat /\ Len(t) \in Nat
      /\ \A i \in 1 .. Len(s) : st[i] = s[i]
      /\ \A i \in 1 .. Len(t) : st[Len(s) + i] = t[i]
  OBVIOUS
<1> HIDE DEF st
<1>2. PICK gs : Upto(s, gs)
  BY DataSteps
<1>3. PICK gt : Upto(t, gt)
  BY DataSteps
<1>4. PICK g : Upto(st, g)
  BY <1>1, DataSteps
<1>5. g[Len(s)] = DataOf(s)
  <2> DEFINE T == {n \in Nat : g[n] = gs[n]}
  <2>1. 0 \in T
    BY <1>2, <1>4 DEF Upto
  <2>2. ASSUME NEW n \in 1 .. Len(s), n - 1 \in T
        PROVE  n \in T
    <3>1. n \in 1 .. Len(st) /\ st[n] = s[n] /\ g[n - 1] = gs[n - 1]
      BY <1>1, <2>2
    <3> QED BY <1>2, <1>4, <3>1 DEF Upto
  <2>3. T \in SUBSET Nat
    OBVIOUS
  <2> HIDE DEF T
  <2>4. 0 .. Len(s) \subseteq T
    BY <1>1, <2>1, <2>2, <2>3, Induction
  <2>5. Len(s) \in 0 .. Len(s)
    OBVIOUS
  <2>6. Len(s) \in T
    BY <2>4, <2>5, Zenon
  <2> QED BY <1>2, <2>6 DEF T, Upto
<1>6. g[Len(s) + Len(t)] = DataOf(s) \o DataOf(t)
  <2> DEFINE d == DataOf(s)
             T == {n \in Nat : g[Len(s) + n] = d \o gt[n]}
  <2>1. d \in Seq(Unit)
    BY DataType
  <2> HIDE DEF d
  <2>2. 0 \in T
    <3>1. gt[0] = <<>> /\ g[Len(s) + 0] = d
      BY <1>1, <1>3, <1>5 DEF Upto, d
    <3> QED BY <2>1, <3>1
  <2>3. ASSUME NEW n \in 1 .. Len(t), n - 1 \in T
        PROVE  n \in T
    <3>1. /\ Len(s) + n \in 1 .. Len(st) /\ st[Len(s) + n] = t[n]
          /\ (Len(s) + n) - 1 = Len(s) + (n - 1)
          /\ t[n] \in Unit
      BY <1>1, <2>3
    <3>2. g[(Len(s) + n) - 1] = d \o gt[n - 1]
      BY <2>3, <3>1
    <3>3. gt[n - 1] \in Seq(Unit)
      BY <1>3, <2>3 DEF Upto
    <3>4. CASE IsHeader(t[n])
      <4>1. g[Len(s) + n] = g[(Len(s) + n) - 1] /\ gt[n] = gt[n - 1]
        BY <1>3, <1>4, <3>1, <3>4 DEF Upto
      <4>2. g[Len(s) + n] = d \o gt[n]
        BY <3>2, <4>1
      <4> QED BY <4>2
    <3>5. CASE ~IsHeader(t[n])
      <4>1. g[Len(s) + n] = Append(d \o gt[n - 1], t[n]) /\ gt[n] = Append(gt[n - 1], t[n])
        BY <1>3, <1>4, <2>3, <3>1, <3>2, <3>5 DEF Upto
      <4>2. Append(d \o gt[n - 1], t[n]) = d \o Append(gt[n - 1], t[n])
        BY <2>1, <3>1, <3>3, AppendAfter
      <4>3. g[Len(s) + n] = d \o gt[n]
        BY <4>1, <4>2
      <4> QED BY <4>3
    <3> QED BY <3>4, <3>5
  <2>4. T \in SUBSET Nat
    OBVIOUS
  <2> HIDE DEF T
  <2>5. 0 .. Len(t) \subseteq T
    BY <1>1, <2>2, <2>3, <2>4, Induction
  <2>6. Len(t) \in 0 .. Len(t)
    OBVIOUS
  <2>7. Len(t) \in T
    BY <2>5, <2>6, Zenon
  <2> QED BY <1>3, <2>7 DEF T, Upto, d
<1> QED BY <1>1, <1>4, <1>6 DEF Upto, st

\* A header alone has no data.
LEMMA DataOfHeader ==
  ASSUME NEW u \in Unit, IsHeader(u)
  PROVE  DataOf(<<u>>) = <<>>
<1>1. <<u>> \in Seq(Unit) /\ Len(<<u>>) = 1 /\ <<u>>[1] = u
  OBVIOUS
<1>2. PICK g : Upto(<<u>>, g)
  BY <1>1, DataSteps
<1> QED BY <1>1, <1>2 DEF Upto

-----------------------------------------------------------------------------

LEMMA BeginsAs ==
  ASSUME NEW s \in Seq(Unit), NEW t \in Seq(Unit)
  PROVE  IsPrefix(s, s \o t)
<1> DEFINE st == s \o t
<1>1. st \in Seq(Unit) /\ Len(st) = Len(s) + Len(t) /\ \A i \in 1 .. Len(s) : st[i] = s[i]
  OBVIOUS
<1> HIDE DEF st
<1>2. SubSeq(s, 1, Len(s)) = SubSeq(st, 1, Len(s))
  BY <1>1
<1> QED BY <1>1, <1>2 DEF IsPrefix, st

\* A stream in records that stops early is in records.
LEMMA RecordsStop ==
  ASSUME NEW stream \in Seq(Unit), InRecords(stream), NEW n \in 0 .. Len(stream)
  PROVE  InRecords(SubSeq(stream, 1, n))
<1> DEFINE s == SubSeq(stream, 1, n)
<1>1. /\ s \in Seq(Unit) /\ Len(s) = n /\ n \in Nat /\ Len(stream) \in Nat /\ n <= Len(stream)
      /\ \A i \in 1 .. n : s[i] = stream[i]
  OBVIOUS
<1> HIDE DEF s
<1>2. s # <<>> => IsHeader(s[1])
  <2> SUFFICES ASSUME s # <<>> PROVE IsHeader(s[1])
    OBVIOUS
  <2>1. 1 \in 1 .. n /\ stream # <<>>
    BY <1>1
  <2> QED BY <1>1, <2>1 DEF InRecords
<1>3. ASSUME NEW i \in 1 .. n, IsHeader(s[i]), NEW j \in i + 1 .. n, j <= i + 1 + s[i][2]
      PROVE  IsHeader(s[j]) <=> j = i + 1 + s[i][2]
  <2>1. /\ i \in 1 .. Len(stream) /\ s[i] = stream[i]
        /\ j \in i + 1 .. Len(stream) /\ s[j] = stream[j]
    BY <1>1
  <2>2. IsHeader(stream[j]) <=> j = i + 1 + stream[i][2]
    BY <1>3, <2>1 DEF InRecords
  <2> QED BY <2>1, <2>2
<1> QED BY <1>1, <1>2, <1>3 DEF InRecords, s

\* What tls_record_frag makes of a stream, unit by unit.
CutUnits(cut, whole, n, mid) ==
  /\ cut \in Seq(Unit) /\ Len(cut) = Len(whole) + 1
  /\ cut[1] = Header(mid) /\ cut[mid + 2] = Header(n - mid)
  /\ \A i \in 2 .. mid + 1 : cut[i] = whole[i]
  /\ \A i \in mid + 3 .. Len(whole) + 1 : cut[i] = whole[i - 1]

\* One record with n units of data, and those cut in two where it was, are both in
\* records, whatever follows.
LEMMA CutInRecords ==
  ASSUME NEW whole \in Seq(Unit), InRecords(whole), NEW n \in Nat, NEW mid \in 0 .. n, NEW cut,
         1 + n <= Len(whole), whole[1] = Header(n), CutUnits(cut, whole, n, mid)
  PROVE  InRecords(cut)
<1>1. IsHeader(Header(mid)) /\ IsHeader(Header(n - mid)) /\ IsHeader(Header(n))
      /\ Header(mid)[2] = mid /\ Header(n - mid)[2] = n - mid /\ Header(n)[2] = n
  BY DEF IsHeader, Header
<1>2. \A i \in 1 .. Len(whole) : IsHeader(whole[i]) =>
        \A j \in i + 1 .. Len(whole) :
          j <= i + 1 + whole[i][2] => (IsHeader(whole[j]) <=> j = i + 1 + whole[i][2])
  BY DEF InRecords
<1>3. \A j \in 2 .. Len(whole) : j <= n + 2 => (IsHeader(whole[j]) <=> j = n + 2)
  <2>1. 1 \in 1 .. Len(whole) /\ IsHeader(whole[1]) /\ whole[1][2] = n
    BY <1>1
  <2>2. \A j \in 1 + 1 .. Len(whole) :
          j <= 1 + 1 + n => (IsHeader(whole[j]) <=> j = 1 + 1 + n)
    BY <1>2, <2>1
  <2>3. 1 + 1 = 2 /\ 1 + 1 + n = n + 2
    OBVIOUS
  <2> QED BY <2>2, <2>3
<1> DEFINE l == Len(whole)
<1>4. /\ l \in Nat /\ 1 + n <= l
      /\ Len(cut) = l + 1 /\ cut[1] = Header(mid) /\ cut[mid + 2] = Header(n - mid)
      /\ \A i \in 2 .. mid + 1 : cut[i] = whole[i]
      /\ \A i \in mid + 3 .. l + 1 : cut[i] = whole[i - 1]
  BY DEF CutUnits
<1>5. cut # <<>> => IsHeader(cut[1])
  BY <1>1, <1>4
<1>6. \A i \in 1 .. l : whole[i][2] \in Nat
  <2>1. \A i \in 1 .. l : whole[i] \in Unit
    OBVIOUS
  <2> QED BY <2>1 DEF Unit
<1> HIDE DEF l
<1>7. ASSUME NEW i \in 1 .. l + 1, IsHeader(cut[i]), NEW j \in i + 1 .. l + 1,
             j <= i + 1 + cut[i][2]
      PROVE  IsHeader(cut[j]) <=> j = i + 1 + cut[i][2]
  <2>1. CASE i = 1
    <3>1. cut[i][2] = mid
      BY <1>1, <1>4, <2>1
    <3>2. j \in 2 .. mid + 2 /\ (j = i + 1 + cut[i][2] <=> j = mid + 2)
      BY <1>7, <2>1, <3>1
    <3>3. CASE j = mid + 2
      BY <1>1, <1>4, <3>2, <3>3
    <3>4. CASE j # mid + 2
      <4>1. j \in 2 .. mid + 1 /\ j \in 2 .. l /\ j <= n + 2 /\ j # n + 2
        BY <1>4, <3>2, <3>4
      <4>2. cut[j] = whole[j] /\ ~IsHeader(whole[j])
        BY <1>3, <1>4, <4>1 DEF l
      <4> QED BY <3>2, <3>4, <4>2
    <3> QED BY <3>3, <3>4
  <2>2. CASE i \in 2 .. mid + 1
    <3>1. i \in 2 .. l /\ i <= n + 2 /\ i # n + 2
      BY <1>4, <2>2
    <3>2. cut[i] = whole[i] /\ ~IsHeader(whole[i])
      BY <1>3, <1>4, <2>2, <3>1 DEF l
    <3> QED BY <1>7, <3>2
  <2>3. CASE i = mid + 2
    <3>1. cut[i][2] = n - mid
      BY <1>1, <1>4, <2>3
    <3>2. /\ j \in mid + 3 .. l + 1 /\ j - 1 \in 2 .. l /\ j - 1 <= n + 2
          /\ (j = i + 1 + cut[i][2] <=> j - 1 = n + 2)
      BY <1>4, <1>7, <2>3, <3>1
    <3>3. cut[j] = whole[j - 1] /\ (IsHeader(whole[j - 1]) <=> j - 1 = n + 2)
      BY <1>3, <1>4, <3>2 DEF l
    <3> QED BY <3>2, <3>3
  <2>4. CASE i \in mid + 3 .. l + 1
    <3> DEFINE k == i - 1
               m == whole[k][2]
    <3>1. k \in 1 .. l /\ cut[i] = whole[k] /\ i = k + 1
      BY <1>4, <2>4
    <3>2. m \in Nat /\ cut[i][2] = m
      BY <1>6, <3>1
    <3>3. IsHeader(whole[k])
      BY <1>7, <3>1
    <3> HIDE DEF k
    <3>4. \A h \in k + 1 .. l : h <= k + 1 + m => (IsHeader(whole[h]) <=> h = k + 1 + m)
      BY <1>2, <3>1, <3>3 DEF l
    <3> HIDE DEF m
    <3>5. /\ j \in mid + 3 .. l + 1 /\ j - 1 \in k + 1 .. l /\ j - 1 <= k + 1 + m
          /\ (j = i + 1 + cut[i][2] <=> j - 1 = k + 1 + m)
      <4>1. /\ i \in Nat /\ j \in Nat /\ l \in Nat /\ mid \in Nat
            /\ k \in Nat /\ k + 1 = i /\ i >= mid + 3
        BY <1>4, <1>7, <2>4, <3>1
      <4>2. j \in i + 1 .. l + 1 /\ j <= i + 1 + m
        BY <1>7, <3>2
      <4>3. j = i + 1 + cut[i][2] <=> j = i + 1 + m
        BY <3>2
      <4> HIDE DEF l
      <4>4. /\ j \in mid + 3 .. l + 1 /\ j - 1 \in k + 1 .. l /\ j - 1 <= k + 1 + m
            /\ (j = i + 1 + m <=> j - 1 = k + 1 + m)
        BY <3>2, <4>1, <4>2
      <4> QED BY <4>3, <4>4
    <3>6. cut[j] = whole[j - 1]
      BY <1>4, <3>5
    <3>7. IsHeader(whole[j - 1]) <=> j - 1 = k + 1 + m
      BY <3>4, <3>5
    <3> QED BY <3>5, <3>6, <3>7
  <2>5. i = 1 \/ i \in 2 .. mid + 1 \/ i = mid + 2 \/ i \in mid + 3 .. l + 1
    BY <1>4
  <2> QED BY <2>1, <2>2, <2>3, <2>4, <2>5
<1> QED BY <1>4, <1>5, <1>7 DEF InRecords

\* A stream that is s, with m units, and then t, with n units.
Follows(stream, s, m, t, n) ==
  /\ stream \in Seq(Unit) /\ Len(stream) = m + n
  /\ \A i \in 1 .. m : stream[i] = s[i]
  /\ \A i \in m + 1 .. m + n : stream[i] = t[i - m]

LEMMA Joined ==
  ASSUME NEW s \in Seq(Unit), NEW t \in Seq(Unit), NEW m \in Nat, NEW n \in Nat,
         Len(s) = m, Len(t) = n
  PROVE  Follows(s \o t, s, m, t, n)
  BY DEF Follows

\* A header and what follows it.
LEMMA Headed ==
  ASSUME NEW u \in Unit, NEW s \in Seq(Unit)
  PROVE  /\ <<u>> \o s \in Seq(Unit) /\ Len(<<u>> \o s) = Len(s) + 1
         /\ (<<u>> \o s)[1] = u /\ \A i \in 1 .. Len(s) : (<<u>> \o s)[i + 1] = s[i]
         /\ IsHeader(u) => DataOf(<<u>> \o s) = DataOf(s)
<1> DEFINE one == <<u>>
<1>1. one \in Seq(Unit) /\ Len(one) = 1 /\ one[1] = u
  OBVIOUS
<1>2. IsHeader(u) => DataOf(one) = <<>>
  BY DataOfHeader
<1> HIDE DEF one
<1>3. /\ one \o s \in Seq(Unit) /\ Len(one \o s) = Len(s) + 1
      /\ (one \o s)[1] = u /\ \A i \in 1 .. Len(s) : (one \o s)[i + 1] = s[i]
  <2> DEFINE both == one \o s
             n == Len(s)
  <2>1. n \in Nat
    OBVIOUS
  <2>2. Follows(both, one, 1, s, n)
    BY <1>1, <2>1, Joined
  <2> HIDE DEF both, n
  <2>3. both \in Seq(Unit) /\ Len(both) = n + 1 /\ both[1] = u
    BY <1>1, <2>1, <2>2 DEF Follows
  <2>4. ASSUME NEW i \in 1 .. n PROVE both[i + 1] = s[i]
    <3>1. i + 1 \in 1 + 1 .. 1 + n /\ (i + 1) - 1 = i
      BY <2>1
    <3> QED BY <2>2, <3>1 DEF Follows
  <2> QED BY <2>3, <2>4 DEF both, n
<1>4. DataOf(one \o s) = DataOf(one) \o DataOf(s)
  BY <1>1, DataOfBoth
<1>5. <<>> \o DataOf(s) = DataOf(s)
  BY DataType, ConcatEmptySeq
<1> QED BY <1>2, <1>3, <1>4, <1>5 DEF one

\* tls_record_frag on one whole record: what is read is the same.
LEMMA RecordsCut ==
  ASSUME NEW stream \in Seq(Unit), NEW rest \in Seq(Unit),
         Len(stream) > 1, stream[1] = Header(Len(stream) - 1), InRecords(stream \o rest)
  PROVE  LET cut == Records(stream)[1] \o Records(stream)[2]
         IN /\ cut \in Seq(Unit)
            /\ InRecords(cut \o rest)
            /\ DataOf(cut \o rest) = DataOf(stream \o rest)
<1> DEFINE body == Tail(stream)
           n    == Len(body)
           mid  == n \div 2
           b1   == SubSeq(body, 1, mid)
           b2   == SubSeq(body, mid + 1, n)
           p1   == <<Header(mid)>> \o b1
           p2   == <<Header(n - mid)>> \o b2
           w    == p1 \o p2
           cut  == w \o rest
           whole == stream \o rest
<1>1. Records(stream)[1] = p1 /\ Records(stream)[2] = p2
  BY DEF Records
<1>2. /\ body \in Seq(Unit) /\ n \in Nat /\ Len(stream) = n + 1
      /\ \A i \in 1 .. n : body[i] = stream[i + 1]
  OBVIOUS
<1>3. stream[1] = Header(n) /\ stream[1] \in Unit
  BY <1>2
<1> HIDE DEF body
<1>4. stream = <<Header(n)>> \o body
  <2>1. Header(n) \in Unit
    BY <1>3
  <2> DEFINE again == <<Header(n)>> \o body
  <2>2. /\ again \in Seq(Unit) /\ Len(again) = n + 1
        /\ again[1] = Header(n) /\ \A i \in 1 .. n : again[i + 1] = body[i]
    BY <1>2, <2>1, Headed
  <2> HIDE DEF again
  <2>3. \A i \in 1 .. n + 1 : stream[i] = again[i]
    <3> SUFFICES ASSUME NEW i \in 1 .. n + 1 PROVE stream[i] = again[i]
      OBVIOUS
    <3>1. CASE i = 1
      BY <1>3, <2>2, <3>1
    <3>2. CASE i # 1
      <4>1. i - 1 \in 1 .. n /\ (i - 1) + 1 = i
        BY <1>2, <3>2
      <4> QED BY <1>2, <2>2, <4>1
    <3> QED BY <3>1, <3>2
  <2>4. stream = again
    BY <1>2, <2>2, <2>3, SeqEqual
  <2> QED BY <2>4 DEF again
<1>5. mid \in 0 .. n /\ Header(mid) \in Unit /\ Header(n - mid) \in Unit /\ Header(n) \in Unit
  BY <1>2 DEF Header, Unit
<1>6. IsHeader(Header(mid)) /\ IsHeader(Header(n - mid)) /\ IsHeader(Header(n))
  BY DEF IsHeader, Header
<1> HIDE DEF n, mid
<1>7. /\ b1 \in Seq(Unit) /\ Len(b1) = mid /\ \A i \in 1 .. mid : b1[i] = body[i]
      /\ b2 \in Seq(Unit) /\ Len(b2) = n - mid /\ \A i \in 1 .. n - mid : b2[i] = body[mid + i]
  BY <1>2, <1>5 DEF n
<1> HIDE DEF b1, b2
<1>8. b1 \o b2 = body
  <2> DEFINE bb == b1 \o b2
  <2>1. mid \in Nat /\ n - mid \in Nat
    BY <1>2, <1>5
  <2>2. Follows(bb, b1, mid, b2, n - mid)
    BY <1>7, <2>1, Joined
  <2> HIDE DEF bb
  <2>3. /\ bb \in Seq(Unit) /\ Len(bb) = mid + (n - mid)
        /\ \A i \in 1 .. mid : bb[i] = b1[i]
        /\ \A i \in mid + 1 .. mid + (n - mid) : bb[i] = b2[i - mid]
    BY <2>2 DEF Follows
  <2>4. ASSUME NEW i \in 1 .. n PROVE bb[i] = body[i]
    <3>1. CASE i <= mid
      BY <1>2, <1>5, <1>7, <2>3, <3>1
    <3>2. CASE ~(i <= mid)
      <4>1. i \in mid + 1 .. mid + (n - mid) /\ i - mid \in 1 .. n - mid /\ mid + (i - mid) = i
        BY <1>2, <1>5, <3>2
      <4> QED BY <1>7, <2>3, <4>1
    <3> QED BY <3>1, <3>2
  <2>5. Len(body) = n /\ Len(bb) = n
    BY <1>2, <1>5, <2>3 DEF n
  <2> QED BY <1>2, <2>3, <2>4, <2>5, SeqEqual DEF bb
<1>9. /\ p1 \in Seq(Unit) /\ Len(p1) = mid + 1 /\ p1[1] = Header(mid)
      /\ \A i \in 1 .. mid : p1[i + 1] = b1[i]
      /\ DataOf(p1) = DataOf(b1)
  BY <1>5, <1>6, <1>7, Headed
<1>10. /\ p2 \in Seq(Unit) /\ Len(p2) = n - mid + 1 /\ p2[1] = Header(n - mid)
       /\ \A i \in 1 .. n - mid : p2[i + 1] = b2[i]
       /\ DataOf(p2) = DataOf(b2)
  BY <1>5, <1>6, <1>7, Headed
<1> HIDE DEF p1, p2
<1>11. /\ w \in Seq(Unit) /\ Len(w) = n + 2
       /\ \A i \in 1 .. n + 2 : w[i] = IF i <= mid + 1 THEN p1[i] ELSE p2[i - (mid + 1)]
  <2>1. mid + 1 \in Nat /\ n - mid + 1 \in Nat
    BY <1>2, <1>5
  <2>2. Follows(w, p1, mid + 1, p2, n - mid + 1)
    BY <1>9, <1>10, <2>1, Joined
  <2> HIDE DEF w
  <2>3. /\ w \in Seq(Unit) /\ Len(w) = (mid + 1) + (n - mid + 1)
        /\ \A i \in 1 .. mid + 1 : w[i] = p1[i]
        /\ \A i \in (mid + 1) + 1 .. (mid + 1) + (n - mid + 1) : w[i] = p2[i - (mid + 1)]
    BY <2>2 DEF Follows
  <2>4. (mid + 1) + (n - mid + 1) = n + 2
    BY <1>2, <1>5
  <2>5. ASSUME NEW i \in 1 .. n + 2
        PROVE  w[i] = IF i <= mid + 1 THEN p1[i] ELSE p2[i - (mid + 1)]
    <3>1. CASE i <= mid + 1
      <4>1. i \in 1 .. mid + 1
        BY <1>5, <3>1
      <4> QED BY <2>3, <3>1, <4>1
    <3>2. CASE ~(i <= mid + 1)
      <4>1. i \in (mid + 1) + 1 .. (mid + 1) + (n - mid + 1)
        BY <1>2, <1>5, <2>4, <3>2
      <4> QED BY <2>3, <3>2, <4>1
    <3> QED BY <3>1, <3>2
  <2> QED BY <2>3, <2>4, <2>5
<1>12. DataOf(w) = DataOf(stream)
  <2>1. DataOf(w) = DataOf(b1) \o DataOf(b2)
    BY <1>9, <1>10, DataOfBoth
  <2>2. DataOf(body) = DataOf(b1) \o DataOf(b2)
    BY <1>7, <1>8, DataOfBoth
  <2>3. DataOf(stream) = DataOf(body)
    BY <1>2, <1>4, <1>5, <1>6, Headed
  <2> QED BY <2>1, <2>2, <2>3
<1> HIDE DEF w
<1>13. /\ cut \in Seq(Unit) /\ Len(cut) = n + 2 + Len(rest) /\ Len(rest) \in Nat
       /\ \A i \in 1 .. n + 2 : cut[i] = w[i]
       /\ \A i \in n + 3 .. n + 2 + Len(rest) : cut[i] = rest[i - (n + 2)]
  <2>1. n + 2 \in Nat /\ Len(rest) \in Nat
    BY <1>2
  <2>2. Follows(cut, w, n + 2, rest, Len(rest))
    BY <1>11, <2>1, Joined
  <2> HIDE DEF cut
  <2> QED BY <1>2, <2>1, <2>2 DEF Follows
<1>14. /\ whole \in Seq(Unit) /\ Len(whole) = n + 1 + Len(rest)
       /\ \A i \in 1 .. n + 1 : whole[i] = stream[i]
       /\ \A i \in n + 2 .. n + 1 + Len(rest) : whole[i] = rest[i - (n + 1)]
  <2>1. n + 1 \in Nat /\ Len(rest) \in Nat
    BY <1>2
  <2>2. Follows(whole, stream, n + 1, rest, Len(rest))
    BY <1>2, <2>1, Joined
  <2> HIDE DEF whole
  <2> QED BY <1>2, <2>1, <2>2 DEF Follows
<1>15. DataOf(cut) = DataOf(whole)
  <2>1. DataOf(cut) = DataOf(w) \o DataOf(rest)
    BY <1>11, DataOfBoth
  <2>2. DataOf(whole) = DataOf(stream) \o DataOf(rest)
    BY DataOfBoth
  <2> QED BY <1>12, <2>1, <2>2
<1>16. InRecords(whole)
  OBVIOUS
<1> HIDE DEF cut, whole
<1>17. CutUnits(cut, whole, n, mid)
  <2>1. cut[1] = Header(mid)
    BY <1>2, <1>5, <1>9, <1>11, <1>13
  <2>2. cut[mid + 2] = Header(n - mid)
    <3>1. mid + 2 \in 1 .. n + 2 /\ ~(mid + 2 <= mid + 1) /\ (mid + 2) - (mid + 1) = 1
      BY <1>2, <1>5
    <3>2. cut[mid + 2] = w[mid + 2] /\ w[mid + 2] = p2[(mid + 2) - (mid + 1)]
      BY <1>11, <1>13, <3>1
    <3> QED BY <1>10, <3>1, <3>2
  <2>3. ASSUME NEW i \in 2 .. mid + 1 PROVE cut[i] = whole[i]
    <3> DEFINE k == i - 1
    <3>1. k \in 1 .. mid /\ k \in 1 .. n /\ i = k + 1 /\ i \in 1 .. n + 1 /\ i \in 1 .. n + 2
          /\ i <= mid + 1
      BY <1>2, <1>5
    <3> HIDE DEF k
    <3>2. cut[i] = p1[i] /\ whole[i] = stream[i]
      BY <1>11, <1>13, <1>14, <3>1
    <3>3. p1[i] = body[k] /\ stream[i] = body[k]
      BY <1>2, <1>7, <1>9, <3>1
    <3> QED BY <3>2, <3>3
  <2>4. ASSUME NEW i \in mid + 3 .. Len(whole) + 1 PROVE cut[i] = whole[i - 1]
    <3>1. CASE i <= n + 2
      <4> DEFINE k == i - (mid + 2)
      <4>1. /\ k \in 1 .. n - mid /\ k + 1 = i - (mid + 1) /\ mid + k \in 1 .. n
            /\ (mid + k) + 1 = i - 1 /\ i - 1 \in 1 .. n + 1 /\ i \in 1 .. n + 2
            /\ ~(i <= mid + 1)
        BY <1>2, <1>5, <3>1
      <4> HIDE DEF k
      <4>2. cut[i] = p2[k + 1] /\ whole[i - 1] = stream[(mid + k) + 1]
        BY <1>11, <1>13, <1>14, <4>1
      <4>3. p2[k + 1] = body[mid + k] /\ stream[(mid + k) + 1] = body[mid + k]
        BY <1>2, <1>7, <1>10, <4>1
      <4> QED BY <4>2, <4>3
    <3>2. CASE ~(i <= n + 2)
      <4>1. i \in n + 3 .. n + 2 + Len(rest) /\ i - 1 \in n + 2 .. n + 1 + Len(rest)
            /\ (i - 1) - (n + 1) = i - (n + 2)
        BY <1>2, <1>5, <1>13, <1>14, <3>2
      <4> QED BY <1>13, <1>14, <4>1
    <3> QED BY <3>1, <3>2
  <2>5. Len(cut) = Len(whole) + 1
    BY <1>2, <1>13, <1>14
  <2> QED BY <1>13, <2>1, <2>2, <2>3, <2>4, <2>5 DEF CutUnits
<1>18. 1 + n <= Len(whole) /\ whole[1] = Header(n)
  BY <1>2, <1>3, <1>13, <1>14
<1>19. InRecords(cut)
  BY <1>2, <1>5, <1>14, <1>16, <1>17, <1>18, CutInRecords
<1> QED BY <1>1, <1>11, <1>15, <1>19 DEF cut, whole, w

-----------------------------------------------------------------------------
(* The pieces of a stream.                                                 *)

\* Where each piece ends: they are the stream's units after the first "from".
Cuts(pieces, from, stream, cut) ==
  /\ cut \in [0 .. Len(pieces) -> 0 .. Len(stream)]
  /\ cut[0] = from
  /\ cut[Len(pieces)] = Len(stream)
  /\ \A i \in 1 .. Len(pieces) :
       /\ cut[i - 1] <= cut[i]
       /\ pieces[i] = SubSeq(stream, cut[i - 1] + 1, cut[i])

Sliced(pieces, from, stream) ==
  /\ pieces \in Seq(Seq(Unit)) /\ pieces # <<>>
  /\ \E cut : Cuts(pieces, from, stream, cut)

LEMMA OnePiece ==
  ASSUME NEW stream \in Seq(Unit)
  PROVE  Sliced(<<stream>>, 0, stream)
<1> DEFINE pieces == <<stream>>
           l      == Len(stream)
           cut    == [i \in 0 .. 1 |-> IF i = 0 THEN 0 ELSE l]
<1>1. pieces \in Seq(Seq(Unit)) /\ pieces # <<>> /\ Len(pieces) = 1 /\ pieces[1] = stream
  OBVIOUS
<1>2. stream = SubSeq(stream, 1, l) /\ l \in Nat
  BY SubSeqFull
<1>3. cut \in [0 .. 1 -> 0 .. l] /\ cut[0] = 0 /\ cut[1] = l
  BY <1>2
<1> HIDE DEF pieces, cut, l
<1>4. Cuts(pieces, 0, stream, cut)
  BY <1>1, <1>2, <1>3 DEF Cuts, l
<1> QED BY <1>1, <1>4 DEF Sliced, pieces

LEMMA TwoPieces ==
  ASSUME NEW s \in Seq(Unit), NEW t \in Seq(Unit)
  PROVE  Sliced(<<s, t>>, 0, s \o t)
<1> DEFINE pieces == <<s, t>>
           st     == s \o t
           m      == Len(s)
           n      == Len(t)
           cut    == [i \in 0 .. 2 |-> IF i = 0 THEN 0 ELSE IF i = 1 THEN m ELSE m + n]
<1>1. /\ pieces \in Seq(Seq(Unit)) /\ pieces # <<>> /\ Len(pieces) = 2
      /\ pieces[1] = s /\ pieces[2] = t
  OBVIOUS
<1>2. m \in Nat /\ n \in Nat
  OBVIOUS
<1>3. /\ cut \in [0 .. 2 -> 0 .. m + n] /\ cut[0] = 0 /\ cut[1] = m /\ cut[2] = m + n
  BY <1>2
<1>4. Follows(st, s, m, t, n)
  BY <1>2, Joined
<1> HIDE DEF pieces, cut, st
<1>5. SubSeq(st, 1, m) = s
  BY <1>2, <1>4 DEF Follows
<1>6. SubSeq(st, m + 1, m + n) = t
  <2>1. /\ SubSeq(st, m + 1, m + n) \in Seq(Unit)
        /\ Len(SubSeq(st, m + 1, m + n)) = n
        /\ \A i \in 1 .. n : SubSeq(st, m + 1, m + n)[i] = st[m + i]
    BY <1>2, <1>4 DEF Follows
  <2>2. \A i \in 1 .. n : st[m + i] = t[i]
    BY <1>2, <1>4 DEF Follows
  <2> QED BY <2>1, <2>2, SeqEqual
<1>7. Len(st) = m + n
  BY <1>4 DEF Follows
<1> HIDE DEF m, n
<1>8. Cuts(pieces, 0, st, cut)
  <2>1. ASSUME NEW i \in 1 .. 2
        PROVE  cut[i - 1] <= cut[i] /\ pieces[i] = SubSeq(st, cut[i - 1] + 1, cut[i])
    <3>1. CASE i = 1
      BY <1>1, <1>2, <1>3, <1>5, <3>1
    <3>2. CASE i = 2
      <4>1. cut[i - 1] = m /\ cut[i] = m + n /\ pieces[i] = t
        BY <1>1, <1>3, <3>2
      <4> QED BY <1>2, <1>6, <4>1
    <3> QED BY <3>1, <3>2
  <2> QED BY <1>1, <1>3, <1>7, <2>1 DEF Cuts
<1> QED BY <1>1, <1>8 DEF Sliced, pieces, st

\* The first of several pieces continues what has been written.
LEMMA NextPiece ==
  ASSUME NEW stream \in Seq(Unit), NEW pieces, NEW from, Sliced(pieces, from, stream),
         Len(pieces) > 1
  PROVE  \E to \in 0 .. Len(stream) :
           /\ SubSeq(stream, 1, from) \o pieces[1] = SubSeq(stream, 1, to)
           /\ Sliced(Tail(pieces), to, stream)
<1>1. PICK cut : Cuts(pieces, from, stream, cut)
  BY DEF Sliced
<1> DEFINE n    == Len(pieces)
           to   == cut[1]
           rest == Tail(pieces)
           next == [i \in 0 .. n - 1 |-> cut[i + 1]]
<1>2. /\ pieces \in Seq(Seq(Unit)) /\ n \in Nat /\ n > 1
      /\ rest \in Seq(Seq(Unit)) /\ Len(rest) = n - 1 /\ rest # <<>>
      /\ \A i \in 1 .. n - 1 : rest[i] = pieces[i + 1]
  <2>1. pieces \in Seq(Seq(Unit)) /\ n \in Nat /\ n > 1 /\ pieces # <<>>
    BY DEF Sliced
  <2>2. rest \in Seq(Seq(Unit)) /\ Len(rest) = n - 1
    BY <2>1, HeadTailProperties
  <2>3. \A i \in 1 .. n - 1 : rest[i] = pieces[i + 1]
    BY <2>1
  <2> HIDE DEF rest, n
  <2>4. rest # <<>>
    BY <2>1, <2>2
  <2> QED BY <2>1, <2>2, <2>3, <2>4 DEF n
<1> HIDE DEF rest
<1>3. /\ cut \in [0 .. n -> 0 .. Len(stream)] /\ cut[0] = from /\ cut[n] = Len(stream)
      /\ \A i \in 1 .. n : /\ cut[i - 1] <= cut[i]
                           /\ pieces[i] = SubSeq(stream, cut[i - 1] + 1, cut[i])
  BY <1>1 DEF Cuts
<1>4. to \in 0 .. Len(stream) /\ from \in 0 .. to
  <2>1. 1 \in 1 .. n /\ 0 \in 0 .. n /\ 1 \in 0 .. n
    BY <1>2
  <2>2. cut[1 - 1] <= cut[1] /\ 1 - 1 = 0
    BY <1>3, <2>1
  <2>3. cut[0] <= cut[1]
    BY <2>2
  <2>4. cut[0] \in 0 .. Len(stream) /\ cut[1] \in 0 .. Len(stream)
    BY <1>3, <2>1
  <2> QED BY <1>3, <2>3, <2>4
<1>5. pieces[1] = SubSeq(stream, from + 1, to)
  <2>1. 1 \in 1 .. n /\ 1 - 1 = 0
    BY <1>2
  <2> QED BY <1>3, <2>1
<1>6. SubSeq(stream, 1, from) \o SubSeq(stream, from + 1, to) = SubSeq(stream, 1, to)
  <2>1. 1 \in 1 .. Len(stream) + 1 /\ from \in 1 - 1 .. Len(stream) /\ to \in from .. Len(stream)
    BY <1>4
  <2> QED BY <2>1, ConcatAdjacentSubSeq
<1>7. Sliced(rest, to, stream)
  <2>1. next \in [0 .. n - 1 -> 0 .. Len(stream)]
    <3>1. \A i \in 0 .. n - 1 : i + 1 \in 0 .. n
      BY <1>2
    <3> QED BY <1>3, <3>1
  <2>2. next[0] = to /\ next[n - 1] = Len(stream)
    BY <1>2, <1>3
  <2>3. ASSUME NEW i \in 1 .. n - 1
        PROVE  next[i - 1] <= next[i] /\ rest[i] = SubSeq(stream, next[i - 1] + 1, next[i])
    <3>1. /\ i + 1 \in 1 .. n /\ i - 1 \in 0 .. n - 1 /\ i \in 0 .. n - 1
          /\ (i - 1) + 1 = i /\ (i + 1) - 1 = i
      BY <1>2
    <3>2. next[i - 1] = cut[i] /\ next[i] = cut[i + 1]
      BY <3>1
    <3> HIDE DEF next
    <3>3. cut[(i + 1) - 1] <= cut[i + 1]
          /\ pieces[i + 1] = SubSeq(stream, cut[(i + 1) - 1] + 1, cut[i + 1])
      BY <1>3, <3>1
    <3> QED BY <1>2, <3>1, <3>2, <3>3
  <2> HIDE DEF next, n, to
  <2>4. Cuts(rest, to, stream, next)
    BY <1>2, <2>1, <2>2, <2>3 DEF Cuts
  <2> QED BY <1>2, <2>4 DEF Sliced
<1> QED BY <1>4, <1>5, <1>6, <1>7 DEF rest

LEMMA LastPiece ==
  ASSUME NEW stream \in Seq(Unit), NEW pieces, NEW from, Sliced(pieces, from, stream),
         Len(pieces) = 1
  PROVE  SubSeq(stream, 1, from) \o pieces[1] = stream
<1>1. PICK cut : Cuts(pieces, from, stream, cut)
  BY DEF Sliced
<1> DEFINE l == Len(stream)
<1>2. /\ cut \in [0 .. 1 -> 0 .. l] /\ cut[0] = from /\ cut[1] = l
      /\ cut[1 - 1] <= cut[1] /\ pieces[1] = SubSeq(stream, cut[1 - 1] + 1, cut[1])
  BY <1>1 DEF Cuts
<1>3. 1 - 1 = 0 /\ l \in Nat
  OBVIOUS
<1>4. from \in 0 .. l /\ pieces[1] = SubSeq(stream, from + 1, l)
  BY <1>2, <1>3
<1>5. SubSeq(stream, 1, from) \o SubSeq(stream, from + 1, l) = SubSeq(stream, 1, l)
  <2>1. 1 \in 1 .. Len(stream) + 1 /\ from \in 1 - 1 .. Len(stream) /\ l \in from .. Len(stream)
    BY <1>3, <1>4
  <2> QED BY <2>1, ConcatAdjacentSubSeq
<1> QED BY <1>4, <1>5, SubSeqFull

\* The pieces of "multi" end at the multiples of Chunk, and at the end.
LEMMA Chunked ==
  ASSUME NEW stream \in Seq(Unit), Len(stream) > 0
  PROVE  Sliced(Chunks(stream), 0, stream)
<1> DEFINE l      == Len(stream)
           n      == (l + Chunk - 1) \div Chunk
           pieces == Chunks(stream)
           cut    == [i \in 0 .. n |-> LesserOf(i * Chunk, l)]
<1>1. Chunk \in Nat /\ Chunk > 0 /\ l \in Nat /\ l > 0
  BY CaseAssumption
<1>2. n \in Nat /\ n > 0 /\ n * Chunk >= l /\ (n - 1) * Chunk < l
  <2>1. n \in Nat
    BY <1>1
  <2>2. n * Chunk >= l
    BY <1>1
  <2>3. (n - 1) * Chunk < l
    BY <1>1
  <2>4. n > 0
    BY <1>1, <2>1, <2>2
  <2> QED BY <2>1, <2>2, <2>3, <2>4
<1>3. pieces = [i \in 1 .. n |-> SubSeq(stream, (i - 1) * Chunk + 1, LesserOf(i * Chunk, l))]
  BY DEF Chunks
<1> HIDE DEF n, pieces
<1>4. \A i \in 0 .. n : i * Chunk \in Nat
  BY <1>1, <1>2
<1>5. \A i \in 0 .. n : cut[i] = LesserOf(i * Chunk, l) /\ cut[i] \in 0 .. l
  BY <1>1, <1>4 DEF LesserOf
<1>6. cut \in [0 .. n -> 0 .. l]
  BY <1>5
<1>7. cut[0] = 0 /\ cut[n] = l
  <2>1. 0 * Chunk = 0 /\ 0 \in 0 .. n /\ n \in 0 .. n
    BY <1>1, <1>2
  <2>2. LesserOf(n * Chunk, l) = l /\ LesserOf(0, l) = 0
    BY <1>1, <1>2, <1>4, <2>1 DEF LesserOf
  <2> QED BY <1>5, <2>1, <2>2
<1> HIDE DEF cut
<1>8. ASSUME NEW i \in 1 .. n
      PROVE  /\ (i - 1) * Chunk \in Nat /\ (i - 1) * Chunk < l
             /\ (i - 1) * Chunk < i * Chunk
  <2>1. (i - 1) * Chunk <= (n - 1) * Chunk
    BY <1>1, <1>2
  <2>2. (i - 1) * Chunk + Chunk = i * Chunk
    BY <1>1, <1>2
  <2>3. (i - 1) * Chunk \in Nat /\ i * Chunk \in Nat
    BY <1>2, <1>4
  <2>4. (n - 1) * Chunk \in Int
    BY <1>1, <1>2
  <2> QED BY <1>1, <1>2, <2>1, <2>2, <2>3, <2>4
<1>9. ASSUME NEW i \in 1 .. n
      PROVE  cut[i - 1] <= cut[i] /\ pieces[i] = SubSeq(stream, cut[i - 1] + 1, cut[i])
  <2> DEFINE a == (i - 1) * Chunk
             b == i * Chunk
  <2>1. a \in Nat /\ b \in Nat /\ a < l /\ a < b
    BY <1>4, <1>8
  <2>2. cut[i - 1] = LesserOf(a, l) /\ cut[i] = LesserOf(b, l)
    BY <1>2, <1>5
  <2>3. pieces[i] = SubSeq(stream, a + 1, LesserOf(b, l))
    BY <1>3
  <2> HIDE DEF a, b
  <2>4. LesserOf(a, l) = a /\ a <= LesserOf(b, l)
    BY <1>1, <2>1 DEF LesserOf
  <2> QED BY <2>2, <2>3, <2>4
<1>10. pieces \in Seq(Seq(Unit)) /\ Len(pieces) = n /\ pieces # <<>>
  <2>1. ASSUME NEW i \in 1 .. n PROVE pieces[i] \in Seq(Unit)
    <3> DEFINE a == cut[i - 1] + 1
               b == cut[i]
    <3>1. a \in 1 .. l + 1 /\ b \in 0 .. l
      BY <1>1, <1>2, <1>5
    <3>2. \A j \in a .. b : stream[j] \in Unit
      BY <1>1, <3>1
    <3>3. SubSeq(stream, a, b) \in Seq(Unit)
      BY <1>1, <3>1, <3>2, SubSeqProperties
    <3> QED BY <1>9, <3>3
  <2>2. pieces = [i \in 1 .. n |-> pieces[i]]
    BY <1>3
  <2>3. pieces \in [1 .. n -> Seq(Unit)]
    BY <2>1, <2>2
  <2> QED BY <1>2, <2>3
<1>11. Cuts(pieces, 0, stream, cut)
  BY <1>6, <1>7, <1>9, <1>10 DEF Cuts
<1> QED BY <1>10, <1>11 DEF Sliced, pieces

-----------------------------------------------------------------------------
(* What a connection carries.                                              *)

\* What the upstream is sent of what was read, and what follows it.
Wire ==
  IF technique.slicing = "tls_record_frag" /\ Len(first) > 1 /\ IsHeader(first[1])
    THEN Records(first)[1] \o Records(first)[2]
    ELSE first

Rest == SubSeq(hello, Len(first) + 1, Len(hello))

Carried ==
  /\ hello \in Seq(Unit)
  /\ Len(first) \in 1 .. Len(hello) /\ first = SubSeq(hello, 1, Len(first))
  /\ IsHeader(hello[1]) => InRecords(hello)

LEMMA CarriedParts ==
  ASSUME Carried
  PROVE  /\ first \in Seq(Unit) /\ Rest \in Seq(Unit) /\ first \o Rest = hello
         /\ first[1] = hello[1] /\ Len(first) > 0
<1> DEFINE n == Len(first)
           l == Len(hello)
<1>1. n \in 1 .. l /\ l \in Nat /\ first = SubSeq(hello, 1, n) /\ hello \in Seq(Unit)
  BY DEF Carried
<1>2. SubSeq(hello, 1, n) \in Seq(Unit) /\ SubSeq(hello, 1, n)[1] = hello[1]
  BY <1>1
<1>3. Rest \in Seq(Unit)
  <2>1. \A j \in n + 1 .. l : hello[j] \in Unit
    BY <1>1
  <2> QED BY <1>1, <2>1, SubSeqProperties DEF Rest
<1>4. SubSeq(hello, 1, n) \o SubSeq(hello, n + 1, l) = SubSeq(hello, 1, l)
  <2>1. 1 \in 1 .. l + 1 /\ n \in 1 - 1 .. l /\ l \in n .. l
    BY <1>1
  <2> QED BY <1>1, <2>1, ConcatAdjacentSubSeq
<1>5. SubSeq(hello, 1, l) = hello
  BY <1>1, SubSeqFull
<1>6. first \o Rest = hello
  BY <1>1, <1>4, <1>5 DEF Rest
<1>7. first \in Seq(Unit) /\ first[1] = hello[1]
  BY <1>1, <1>2
<1>8. Len(first) > 0
  BY <1>1
<1> QED BY <1>3, <1>6, <1>7, <1>8

\* Whatever the slicing, and wherever the SNI seems to be, what is to be written is
\* in pieces.
LEMMA PiecesSliced ==
  ASSUME Carried, NEW pieces \in Pieces(first)
  PROVE  Wire \in Seq(Unit) /\ Sliced(pieces, 0, Wire)
<1>1. first \in Seq(Unit) /\ Len(first) > 0 /\ Len(first) \in Nat
  BY CarriedParts
<1>2. \A k \in 0 .. Len(first) : Sliced(SplitAt(first, k), 0, first)
  <2> SUFFICES ASSUME NEW k \in 0 .. Len(first) PROVE Sliced(SplitAt(first, k), 0, first)
    OBVIOUS
  <2> DEFINE n == Len(first)
             s == SubSeq(first, 1, k)
             t == SubSeq(first, k + 1, n)
  <2>1. n \in Nat /\ k \in 0 .. n
    BY <1>1
  <2>2. s \in Seq(Unit)
    <3>1. \A j \in 1 .. k : first[j] \in Unit
      BY <1>1
    <3> QED BY <2>1, <3>1, SubSeqProperties
  <2>3. t \in Seq(Unit)
    <3>1. \A j \in k + 1 .. n : first[j] \in Unit
      BY <1>1
    <3> QED BY <2>1, <3>1, SubSeqProperties
  <2>4. s \o t = first
    <3>1. 1 \in 1 .. n + 1 /\ k \in 1 - 1 .. n /\ n \in k .. n
      BY <2>1
    <3>2. s \o t = SubSeq(first, 1, n)
      BY <1>1, <3>1, ConcatAdjacentSubSeq
    <3> QED BY <1>1, <3>2, SubSeqFull
  <2> HIDE DEF s, t
  <2>5. Sliced(<<s, t>>, 0, s \o t)
    BY <2>2, <2>3, TwoPieces
  <2> QED BY <2>4, <2>5 DEF SplitAt, s, t
<1>3. Sliced(<<first>>, 0, first)
  BY <1>1, OnePiece
<1>4. CASE technique.slicing = "tls_record_frag" /\ Len(first) > 1 /\ IsHeader(first[1])
  <2> DEFINE body == Tail(first)
             n    == Len(body)
             mid  == n \div 2
             b1   == SubSeq(body, 1, mid)
             b2   == SubSeq(body, mid + 1, n)
             p1   == <<Header(mid)>> \o b1
             p2   == <<Header(n - mid)>> \o b2
  <2>1. Records(first) = <<p1, p2>>
    BY DEF Records
  <2>2. body \in Seq(Unit) /\ n \in Nat
    BY <1>1, <1>4
  <2> HIDE DEF body
  <2>3. mid \in 0 .. n /\ Header(mid) \in Unit /\ Header(n - mid) \in Unit
    BY <2>2 DEF Header, Unit
  <2> HIDE DEF mid
  <2>4. b1 \in Seq(Unit) /\ b2 \in Seq(Unit)
    BY <2>2, <2>3
  <2> HIDE DEF n, b1, b2
  <2>5. p1 \in Seq(Unit) /\ p2 \in Seq(Unit)
    BY <2>3, <2>4, Headed
  <2> HIDE DEF p1, p2
  <2>6. p1 \o p2 \in Seq(Unit)
    BY <2>5, ConcatProperties
  <2>7. pieces = <<p1, p2>>
    BY <1>1, <1>4, <2>1 DEF Pieces
  <2>8. Wire = p1 \o p2
    BY <1>4, <2>1 DEF Wire
  <2> QED BY <2>5, <2>6, <2>7, <2>8, TwoPieces
<1>5. CASE ~(technique.slicing = "tls_record_frag" /\ Len(first) > 1 /\ IsHeader(first[1]))
  <2>1. Wire = first
    BY <1>5 DEF Wire
  <2>2. CASE Len(first) < 2 \/ ~IsHeader(first[1])
    <3>1. pieces = <<first>>
      BY <2>2 DEF Pieces
    <3> QED BY <1>1, <1>3, <2>1, <3>1
  <2>3. CASE ~(Len(first) < 2 \/ ~IsHeader(first[1]))
    <3>1. technique.slicing # "tls_record_frag" /\ Len(first) > 1
      BY <1>1, <1>5, <2>3
    <3>2. CASE technique.slicing = "sni_split"
      <4>1. pieces \in {SplitAt(first, k) : k \in 1 .. Len(first) - 1}
        BY <2>3, <3>2 DEF Pieces
      <4>2. PICK k \in 1 .. Len(first) - 1 : pieces = SplitAt(first, k)
        BY <4>1
      <4>3. k \in 0 .. Len(first)
        BY <1>1
      <4> QED BY <1>1, <1>2, <2>1, <4>2, <4>3
    <3>3. CASE technique.slicing = "half"
      <4>1. pieces = SplitAt(first, Len(first) \div 2)
        BY <2>3, <3>3 DEF Pieces
      <4>2. Len(first) \div 2 \in 0 .. Len(first)
        BY <1>1
      <4> QED BY <1>1, <1>2, <2>1, <4>1, <4>2
    <3>4. CASE technique.slicing = "multi"
      <4>1. pieces = Chunks(first)
        BY <2>3, <3>4 DEF Pieces
      <4> QED BY <1>1, <2>1, <4>1, Chunked
    <3>5. CASE technique.slicing \notin {"sni_split", "half", "multi"}
      <4>1. pieces = <<first>>
        BY <2>3, <3>1, <3>5 DEF Pieces
      <4> QED BY <1>1, <1>3, <2>1, <4>1
    <3> QED BY <3>2, <3>3, <3>4, <3>5
  <2> QED BY <2>2, <2>3
<1> QED BY <1>4, <1>5

-----------------------------------------------------------------------------
(* What the upstream reads.                                                *)

\* A whole stream from which the server gets the client's data.
Faithful(stream) ==
  /\ stream \in Seq(Unit)
  /\ IF IsHeader(hello[1])
       THEN InRecords(stream) /\ DataOf(stream) = DataOf(hello)
       ELSE stream = hello

LEMMA FaithfulData ==
  ASSUME NEW stream, Faithful(stream)
  PROVE  DataOf(stream) = DataOf(hello)
  BY DEF Faithful

\* It reads right, however much of it has arrived.
LEMMA FaithfulReads ==
  ASSUME NEW stream, Faithful(stream), NEW n \in 0 .. Len(stream)
  PROVE  ReadsAsSent(SubSeq(stream, 1, n))
<1> DEFINE l == Len(stream)
           s == SubSeq(stream, 1, n)
           t == SubSeq(stream, n + 1, l)
<1>1. stream \in Seq(Unit) /\ l \in Nat /\ n \in 0 .. l
  BY DEF Faithful
<1>2. s \in Seq(Unit)
  <2>1. \A j \in 1 .. n : stream[j] \in Unit
    BY <1>1
  <2> QED BY <1>1, <2>1, SubSeqProperties
<1>3. t \in Seq(Unit)
  <2>1. \A j \in n + 1 .. l : stream[j] \in Unit
    BY <1>1
  <2> QED BY <1>1, <2>1, SubSeqProperties
<1>4. s \o t = stream
  <2>1. 1 \in 1 .. l + 1 /\ n \in 1 - 1 .. l /\ l \in n .. l
    BY <1>1
  <2>2. s \o t = SubSeq(stream, 1, l)
    BY <1>1, <2>1, ConcatAdjacentSubSeq
  <2> QED BY <1>1, <2>2, SubSeqFull
<1>5. CASE IsHeader(hello[1])
  <2>1. InRecords(stream) /\ DataOf(stream) = DataOf(hello)
    BY <1>5 DEF Faithful
  <2>2. InRecords(s)
    BY <1>1, <2>1, RecordsStop
  <2> HIDE DEF s, t
  <2>3. DataOf(stream) = DataOf(s) \o DataOf(t)
    BY <1>2, <1>3, <1>4, DataOfBoth
  <2>4. IsPrefix(DataOf(s), DataOf(s) \o DataOf(t))
    BY <1>2, <1>3, DataType, BeginsAs
  <2> QED BY <1>5, <2>1, <2>2, <2>3, <2>4 DEF ReadsAsSent, s
<1>6. CASE ~IsHeader(hello[1])
  <2>1. stream = hello
    BY <1>6 DEF Faithful
  <2> HIDE DEF s, t
  <2>2. IsPrefix(s, s \o t)
    BY <1>2, <1>3, BeginsAs
  <2> QED BY <1>4, <1>6, <2>1, <2>2 DEF ReadsAsSent, s
<1> QED BY <1>5, <1>6

\* What is written whole: as it was read, or cut as the strategy cuts it.
LEMMA WholeFaithful ==
  ASSUME Carried, KeepsRecords, NEW stream \in {Wire, first}
  PROVE  Faithful(stream \o Rest) /\ stream \in Seq(Unit)
<1>1. /\ first \in Seq(Unit) /\ Rest \in Seq(Unit) /\ first \o Rest = hello
      /\ first[1] = hello[1]
  BY CarriedParts
<1>2. Faithful(first \o Rest)
  BY <1>1 DEF Carried, Faithful
<1>3. CASE technique.slicing = "tls_record_frag" /\ Len(first) > 1 /\ IsHeader(first[1])
  <2> DEFINE cut == Records(first)[1] \o Records(first)[2]
             n   == Len(first)
  <2>1. Wire = cut
    BY <1>3 DEF Wire
  <2>2. n \in Nat /\ n > 1 /\ first[1] \in Unit
    BY <1>1, <1>3
  <2>3. n = 1 + first[1][2]
    BY <1>3, <2>2 DEF KeepsRecords, OneRecordRead
  <2>4. first[1] = Header(n - 1)
    <3>1. first[1][1] = "header" /\ first[1][2] = n - 1
      BY <1>3, <2>2, <2>3 DEF IsHeader, Unit
    <3> QED BY <2>2, <3>1 DEF Header, Unit
  <2>5. InRecords(first \o Rest)
    BY <1>1, <1>3 DEF Carried
  <2>6. /\ cut \in Seq(Unit) /\ InRecords(cut \o Rest)
        /\ DataOf(cut \o Rest) = DataOf(first \o Rest)
    BY <1>1, <2>2, <2>4, <2>5, RecordsCut
  <2> HIDE DEF cut
  <2>7. cut \o Rest \in Seq(Unit)
    BY <1>1, <2>6, ConcatProperties
  <2>8. Faithful(cut \o Rest)
    BY <1>1, <1>3, <2>6, <2>7 DEF Faithful
  <2> QED BY <1>1, <1>2, <2>1, <2>6, <2>8
<1>4. CASE ~(technique.slicing = "tls_record_frag" /\ Len(first) > 1 /\ IsHeader(first[1]))
  <2>1. Wire = first
    BY <1>4 DEF Wire
  <2> QED BY <1>1, <1>2, <2>1
<1> QED BY <1>3, <1>4

\* What an upstream that takes writes has been sent: the pieces before those yet to
\* be written, or, once it serves, all that was read, and then the rest.
Sending(c) ==
  /\ pc[c] = "apply" /\ alive[c] =>
       \E n \in 0 .. Len(Wire) : sent[c] = SubSeq(Wire, 1, n) /\ Sliced(todo[c], n, Wire)
  /\ pc[c] \in {"served", "cleared", "relay"} /\ alive[c] =>
       \E stream \in {Wire, first} :
         sent[c] = IF relayed[c] THEN stream \o Rest ELSE stream
  /\ relayed[c] => pc[c] \in {"relay", "done"}
  /\ stage[c] # "fake"

SendInv ==
  /\ Carried
  /\ todo = [c \in Conns |-> todo[c]]
  /\ relayed \in [Conns -> BOOLEAN]
  /\ KeepsRecords => \A c \in Conns : Sending(c)

\* The beginning of a stream is one of all that is written.
LEMMA Beginning ==
  ASSUME NEW s \in Seq(Unit), NEW t \in Seq(Unit), NEW n \in 0 .. Len(s)
  PROVE  n \in 0 .. Len(s \o t) /\ SubSeq(s, 1, n) = SubSeq(s \o t, 1, n)
<1> DEFINE st == s \o t
           k  == Len(s)
           l  == Len(t)
<1>1. k \in Nat /\ l \in Nat
  OBVIOUS
<1>2. Follows(st, s, k, t, l)
  BY <1>1, Joined
<1> HIDE DEF st
<1>3. /\ st \in Seq(Unit) /\ Len(st) = k + l /\ \A i \in 1 .. k : st[i] = s[i]
  BY <1>2 DEF Follows
<1>4. SubSeq(s, 1, n) = SubSeq(st, 1, n)
  BY <1>1, <1>3
<1> QED BY <1>1, <1>3, <1>4 DEF st

LEMMA SendInvMeans ==
  ASSUME IInv, SendInv
  PROVE  StreamIntact
<1> SUFFICES ASSUME KeepsRecords, NEW c \in Conns, open[c] # {}, alive[c]
             PROVE  /\ ReadsAsSent(sent[c])
                    /\ relayed[c] => DataOf(sent[c]) = DataOf(hello)
  BY DEF StreamIntact
<1>1. Carried /\ Sending(c)
  BY DEF SendInv
<1>2. pc[c] \in {"apply", "served", "cleared", "relay"}
  BY DEF IInv, Holding
<1>3. \A stream \in {Wire, first} : Faithful(stream \o Rest) /\ stream \in Seq(Unit)
  BY <1>1, WholeFaithful
<1>4. Rest \in Seq(Unit)
  BY <1>1, CarriedParts
<1>5. \A stream \in {Wire, first} : \A n \in 0 .. Len(stream) : ReadsAsSent(SubSeq(stream, 1, n))
  <2> SUFFICES ASSUME NEW stream \in {Wire, first}, NEW n \in 0 .. Len(stream)
               PROVE  ReadsAsSent(SubSeq(stream, 1, n))
    OBVIOUS
  <2>1. n \in 0 .. Len(stream \o Rest) /\ SubSeq(stream, 1, n) = SubSeq(stream \o Rest, 1, n)
    BY <1>3, <1>4, Beginning
  <2> QED BY <1>3, <2>1, FaithfulReads
<1>6. CASE pc[c] = "apply"
  <2>1. PICK n \in 0 .. Len(Wire) : sent[c] = SubSeq(Wire, 1, n)
    BY <1>1, <1>6 DEF Sending
  <2>2. ~relayed[c]
    BY <1>1, <1>6 DEF Sending
  <2> QED BY <1>5, <2>1, <2>2
<1>7. CASE pc[c] \in {"served", "cleared", "relay"}
  <2>1. PICK stream \in {Wire, first} : sent[c] = IF relayed[c] THEN stream \o Rest ELSE stream
    BY <1>1, <1>7 DEF Sending
  <2>2. CASE relayed[c]
    <3> DEFINE all == stream \o Rest
    <3>1. sent[c] = all /\ Faithful(all)
      BY <1>3, <2>1, <2>2
    <3> HIDE DEF all
    <3>2. all \in Seq(Unit)
      BY <3>1 DEF Faithful
    <3>3. all = SubSeq(all, 1, Len(all)) /\ Len(all) \in 0 .. Len(all)
      BY <3>2, SubSeqFull
    <3>4. ReadsAsSent(all)
      BY <3>1, <3>3, FaithfulReads
    <3> QED BY <3>1, <3>4, FaithfulData
  <2>3. CASE ~relayed[c]
    <3>1. sent[c] = stream /\ stream \in Seq(Unit)
      BY <1>3, <2>1, <2>3
    <3>2. stream = SubSeq(stream, 1, Len(stream)) /\ Len(stream) \in 0 .. Len(stream)
      BY <3>1, SubSeqFull
    <3> QED BY <1>5, <2>3, <3>1, <3>2
  <2> QED BY <2>2, <2>3
<1> QED BY <1>2, <1>6, <1>7

LEMMA InitSendInv == WInit => SendInv
<1> SUFFICES ASSUME WInit PROVE SendInv
  OBVIOUS
<1>1. PICK case \in Cases : /\ hello = case.hello
                            /\ first = SubSeq(case.hello, 1, case.got)
  BY DEF WInit
<1>2. /\ hello \in Seq(Unit) /\ case.got \in 1 .. Len(hello)
      /\ IsHeader(hello[1]) => InRecords(hello)
  BY <1>1, CaseAssumption
<1>3. Len(first) = case.got
  BY <1>1, <1>2
<1>4. Carried
  BY <1>1, <1>2, <1>3 DEF Carried
<1>5. /\ todo = [c \in Conns |-> todo[c]] /\ relayed \in [Conns -> BOOLEAN]
      /\ \A c \in Conns : pc[c] = "read" /\ stage[c] = "idle" /\ ~relayed[c]
  BY DEF WInit, Init
<1>6. \A c \in Conns : Sending(c)
  BY <1>5 DEF Sending
<1> QED BY <1>4, <1>5, <1>6 DEF SendInv

\* What a connection carries stays, and with it what its pieces are pieces of.
LEMMA SameCarried ==
  ASSUME UNCHANGED carried
  PROVE  /\ Carried' = Carried /\ KeepsRecords' = KeepsRecords
         /\ Wire' = Wire /\ Rest' = Rest /\ first' = first /\ hello' = hello
<1>1. technique' = technique /\ hello' = hello /\ first' = first
  BY DEF carried
<1> QED BY <1>1 DEF Carried, KeepsRecords, OneRecordRead, Wire, Rest

SameWrites(c) ==
  /\ pc'[c] = pc[c] /\ stage'[c] = stage[c] /\ todo'[c] = todo[c]
  /\ sent'[c] = sent[c] /\ alive'[c] = alive[c] /\ relayed'[c] = relayed[c]

LEMMA OthersSend ==
  ASSUME UNCHANGED carried, NEW c \in Conns, SameWrites(c), Sending(c)
  PROVE  Sending(c)'
<1>1. Wire' = Wire /\ Rest' = Rest /\ first' = first
  BY SameCarried
<1>2. /\ pc'[c] = pc[c] /\ stage'[c] = stage[c] /\ todo'[c] = todo[c]
      /\ sent'[c] = sent[c] /\ alive'[c] = alive[c] /\ relayed'[c] = relayed[c]
  BY DEF SameWrites
<1>3. pc[c] = "apply" /\ alive[c] =>
        \E n \in 0 .. Len(Wire) : sent[c] = SubSeq(Wire, 1, n) /\ Sliced(todo[c], n, Wire)
  BY DEF Sending
<1>4. pc[c] \in {"served", "cleared", "relay"} /\ alive[c] =>
        \E stream \in {Wire, first} :
          sent[c] = IF relayed[c] THEN stream \o Rest ELSE stream
  BY DEF Sending
<1>5. (relayed[c] => pc[c] \in {"relay", "done"}) /\ stage[c] # "fake"
  BY DEF Sending
<1> QED BY <1>1, <1>2, <1>3, <1>4, <1>5 DEF Sending

\* A step of one connection that leaves its own writes in order.
LEMMA StepOf ==
  ASSUME SendInv, UNCHANGED carried, NEW c \in Conns,
         todo' = [d \in Conns |-> todo'[d]], relayed' \in [Conns -> BOOLEAN],
         \A d \in Conns \ {c} : SameWrites(d),
         KeepsRecords => Sending(c)'
  PROVE  SendInv'
<1>1. Carried' /\ KeepsRecords' = KeepsRecords
  BY SameCarried DEF SendInv
<1>2. ASSUME KeepsRecords', NEW d \in Conns PROVE Sending(d)'
  <2>1. KeepsRecords /\ Sending(d)
    BY <1>1, <1>2 DEF SendInv
  <2>2. CASE d = c
    BY <2>1, <2>2
  <2>3. CASE d # c
    BY <2>1, <2>3, OthersSend
  <2> QED BY <2>2, <2>3
<1> QED BY <1>1, <1>2 DEF SendInv

LEMMA DialledSend ==
  ASSUME SendInv, IInv, Unwritten, NEW c \in Conns, Dialled(c)
  PROVE  SendInv'
<1>1. /\ pc[c] = "dial" /\ pc' = [pc EXCEPT ![c] = "apply"]
      /\ stage' = [stage EXCEPT ![c] = StageOf]
      /\ sent' = [sent EXCEPT ![c] = <<>>] /\ alive' = [alive EXCEPT ![c] = TRUE]
      /\ UNCHANGED <<carried, relayed>>
  BY DEF Dialled, Dial, Goto
<1>2. PICK pieces \in Pieces(first) : todo' = [todo EXCEPT ![c] = pieces]
  BY DEF Dialled
<1>3. /\ todo' = [d \in Conns |-> todo'[d]] /\ todo'[c] = pieces
      /\ \A d \in Conns \ {c} : todo'[d] = todo[d]
  BY <1>2 DEF SendInv
<1>4. /\ pc'[c] = "apply" /\ stage'[c] = StageOf /\ sent'[c] = <<>>
  BY <1>1 DEF Unwritten
<1>5. \A d \in Conns \ {c} : SameWrites(d)
  BY <1>1, <1>3 DEF Unwritten, SameWrites
<1>6. ASSUME KeepsRecords PROVE Sending(c)'
  <2>1. Wire \in Seq(Unit) /\ Sliced(pieces, 0, Wire)
    BY PiecesSliced DEF SendInv
  <2>2. 0 \in 0 .. Len(Wire) /\ SubSeq(Wire, 1, 0) = <<>>
    BY <2>1, SubSeqEmpty
  <2>3. ~relayed[c]
    BY <1>1, <1>6 DEF SendInv, Sending
  <2>4. StageOf # "fake"
    BY <1>6 DEF StageOf, KeepsRecords
  <2>5. Wire' = Wire
    BY <1>1, SameCarried
  <2> QED BY <1>1, <1>3, <1>4, <2>1, <2>2, <2>3, <2>4, <2>5 DEF Sending
<1> QED BY <1>1, <1>3, <1>5, <1>6, StepOf DEF SendInv

LEMMA WaitedSend ==
  ASSUME SendInv, Unwritten, NEW c \in Conns, Waited(c)
  PROVE  SendInv'
<1>1. /\ stage' = [stage EXCEPT ![c] = "write"]
      /\ UNCHANGED <<carried, pc, todo, sent, alive, relayed>>
  BY DEF Waited, vars
<1>2. \A d \in Conns \ {c} : SameWrites(d)
  BY <1>1 DEF Unwritten, SameWrites
<1>3. ASSUME KeepsRecords PROVE Sending(c)'
  <2>1. Sending(c) /\ Wire' = Wire /\ Rest' = Rest /\ first' = first
    BY <1>1, <1>3, SameCarried DEF SendInv
  <2>2. stage'[c] # "fake"
    BY <1>1 DEF Unwritten
  <2> QED BY <1>1, <2>1, <2>2 DEF Sending
<1> QED BY <1>1, <1>2, <1>3, StepOf DEF SendInv

LEMMA WriteFakeSend ==
  ASSUME SendInv, Unwritten, NEW c \in Conns, WriteFake(c)
  PROVE  SendInv'
<1>1. stage[c] = "fake" /\ UNCHANGED <<carried, todo, relayed>>
  BY DEF WriteFake
<1>2. ~KeepsRecords
  BY <1>1 DEF SendInv, Sending
<1> QED BY <1>1, <1>2, SameCarried DEF SendInv

LEMMA WritePieceSend ==
  ASSUME SendInv, Unwritten, NEW c \in Conns, WritePiece(c)
  PROVE  SendInv'
<1>1. /\ stage[c] = "write" /\ Len(todo[c]) > 1 /\ alive[c]
      /\ sent' = [sent EXCEPT ![c] = @ \o todo[c][1]]
      /\ todo' = [todo EXCEPT ![c] = Tail(@)]
      /\ UNCHANGED <<carried, pc, stage, alive, relayed>>
  BY DEF WritePiece, vars
<1>2. /\ todo' = [d \in Conns |-> todo'[d]] /\ todo'[c] = Tail(todo[c])
      /\ sent'[c] = sent[c] \o todo[c][1]
      /\ \A d \in Conns \ {c} : SameWrites(d)
  BY <1>1 DEF Unwritten, SameWrites, SendInv
<1>3. ASSUME KeepsRecords PROVE Sending(c)'
  <2>1. pc[c] = "apply" /\ ~relayed[c] /\ stage[c] # "fake"
    BY <1>1, <1>3 DEF Unwritten, SendInv, Sending
  <2>2. PICK n \in 0 .. Len(Wire) : sent[c] = SubSeq(Wire, 1, n) /\ Sliced(todo[c], n, Wire)
    BY <1>1, <1>3, <2>1 DEF SendInv, Sending
  <2>3. Wire \in Seq(Unit)
    BY <1>3, WholeFaithful DEF SendInv
  <2>4. PICK m \in 0 .. Len(Wire) :
          /\ SubSeq(Wire, 1, n) \o todo[c][1] = SubSeq(Wire, 1, m)
          /\ Sliced(Tail(todo[c]), m, Wire)
    BY <1>1, <2>2, <2>3, NextPiece
  <2>5. sent'[c] = SubSeq(Wire, 1, m) /\ Sliced(todo'[c], m, Wire)
    BY <1>2, <2>2, <2>4
  <2>6. Wire' = Wire
    BY <1>1, SameCarried
  <2> QED BY <1>1, <2>1, <2>5, <2>6 DEF Sending
<1> QED BY <1>1, <1>2, <1>3, StepOf DEF SendInv

LEMMA WriteLastSend ==
  ASSUME SendInv, Unwritten, NEW c \in Conns, WriteLast(c)
  PROVE  SendInv'
<1>1. /\ stage[c] = "write" /\ Len(todo[c]) = 1 /\ alive[c]
      /\ pc[c] = "apply" /\ pc' = [pc EXCEPT ![c] = "served"]
      /\ sent' = [sent EXCEPT ![c] = @ \o todo[c][1]]
      /\ todo' = [todo EXCEPT ![c] = <<>>]
      /\ stage' = [stage EXCEPT ![c] = "idle"]
      /\ UNCHANGED <<carried, alive, relayed>>
  BY DEF WriteLast, ApplyOK, Goto
<1>2. /\ todo' = [d \in Conns |-> todo'[d]]
      /\ sent'[c] = sent[c] \o todo[c][1] /\ pc'[c] = "served" /\ stage'[c] = "idle"
      /\ \A d \in Conns \ {c} : SameWrites(d)
  BY <1>1 DEF Unwritten, SameWrites, SendInv
<1>3. ASSUME KeepsRecords PROVE Sending(c)'
  <2>1. ~relayed[c]
    BY <1>1, <1>3 DEF SendInv, Sending
  <2>2. PICK n \in 0 .. Len(Wire) : sent[c] = SubSeq(Wire, 1, n) /\ Sliced(todo[c], n, Wire)
    BY <1>1, <1>3 DEF SendInv, Sending
  <2>3. Wire \in Seq(Unit)
    BY <1>3, WholeFaithful DEF SendInv
  <2>4. sent'[c] = Wire
    <3>1. SubSeq(Wire, 1, n) \o todo[c][1] = Wire
      BY <1>1, <2>2, <2>3, LastPiece
    <3> QED BY <1>2, <2>2, <3>1
  <2>5. Wire' = Wire /\ first' = first
    BY <1>1, SameCarried
  <2> QED BY <1>1, <1>2, <2>1, <2>4, <2>5 DEF Sending
<1> QED BY <1>1, <1>2, <1>3, StepOf DEF SendInv

\* A strategy that fails on a live upstream leaves it to the handler's first write.
LEMMA ReturnsFalseSend ==
  ASSUME SendInv, IInv, Unwritten, NEW c \in Conns, ReturnsFalse(c)
  PROVE  SendInv'
<1>1. /\ pc[c] = "apply" /\ MayReturnFalse(c)
      /\ stage' = [stage EXCEPT ![c] = "idle"]
      /\ todo' = [todo EXCEPT ![c] = <<>>]
      /\ UNCHANGED <<carried, relayed>>
  BY DEF ReturnsFalse, ApplyFailsOver, ApplyFailsLast, Advance, Goto
<1>2. alive'[c] => sent[c] = <<>>
  <2>1. alive' = [alive EXCEPT ![c] = FALSE] \/ stage[c] \in {"wait", "fake"}
    BY <1>1 DEF MayReturnFalse
  <2> QED BY <2>1 DEF Unwritten
<1>3. \A d \in Conns \ {c} : alive'[d] = alive[d]
  BY <1>1 DEF MayReturnFalse, Unwritten
<1>4. \/ /\ pc' = [pc EXCEPT ![c] = "attempt"] \/ pc' = [pc EXCEPT ![c] = "dropped"]
            \/ pc' = [pc EXCEPT ![c] = "done"]
         /\ UNCHANGED sent
      \/ pc' = [pc EXCEPT ![c] = "served"] /\ Send(c, first)
  BY DEF ReturnsFalse, ApplyFailsOver, ApplyFailsLast, Advance, Goto
<1>5. /\ todo' = [d \in Conns |-> todo'[d]] /\ stage'[c] = "idle"
      /\ \A d \in Conns \ {c} : SameWrites(d)
  <2>1. \A d \in Conns \ {c} : sent'[d] = sent[d]
    BY <1>4 DEF Send, Unwritten
  <2>2. \A d \in Conns \ {c} : pc'[d] = pc[d]
    BY <1>4 DEF Unwritten
  <2> QED BY <1>1, <1>3, <2>1, <2>2 DEF Unwritten, SameWrites, SendInv
<1>6. ASSUME KeepsRecords PROVE Sending(c)'
  <2>1. ~relayed[c]
    BY <1>1, <1>6 DEF SendInv, Sending
  <2>2. Wire' = Wire /\ first' = first /\ first \in Seq(Unit)
    BY <1>1, SameCarried, CarriedParts DEF SendInv
  <2>3. CASE pc' = [pc EXCEPT ![c] = "served"] /\ Send(c, first)
    <3>1. pc'[c] = "served"
      BY <2>3 DEF Unwritten
    <3>2. ASSUME alive'[c] PROVE sent'[c] = first
      <4>1. sent'[c] = sent[c] \o first /\ sent[c] = <<>>
        BY <1>2, <2>3, <3>2 DEF Send, Unwritten
      <4>2. <<>> \o first = first
        BY <2>2, ConcatEmptySeq
      <4> QED BY <4>1, <4>2
    <3> QED BY <1>1, <1>5, <2>1, <2>2, <3>1, <3>2 DEF Sending
  <2>4. CASE ~(pc' = [pc EXCEPT ![c] = "served"] /\ Send(c, first))
    <3>1. pc'[c] \in {"attempt", "dropped", "done"}
      BY <1>4, <2>4 DEF Unwritten
    <3> QED BY <1>1, <1>5, <2>1, <3>1 DEF Sending
  <2> QED BY <2>3, <2>4
<1> QED BY <1>1, <1>5, <1>6, StepOf DEF SendInv

\* Outside the strategy a handler comes to the relay from its report alone.
LEMMA OutsideMoves ==
  ASSUME NEW c \in Conns, Outside(c)
  PROVE  \/ pc' = pc
         \/ \E to : /\ pc' = [pc EXCEPT ![c] = to]
                    /\ \/ /\ pc[c] \in {"read", "pick", "attempt", "dial", "dropped", "claim"}
                          /\ to \in {"pick", "attempt", "dial", "dropped", "claim", "done"}
                       \/ pc[c] \in {"served", "cleared"} /\ to \in {"cleared", "relay"}
                       \/ pc[c] = "relay" /\ to = "done"
<1>1. CASE Read(c) \/ Pick(c) \/ Begin(c) \/ BeginFails(c) \/ DialFails(c)
  BY <1>1 DEF Read, Pick, Begin, BeginFails, DialFails, Advance, Goto
<1>2. CASE Report(c)
  BY <1>2 DEF Report, Failure, Claim, SuccessReset, SuccessClear, Goto
<1>3. CASE (\E direction \in {"up", "down"} : CopyEnds(c, direction)) \/ Return(c)
  BY <1>3 DEF CopyEnds, Return, Goto
<1> QED BY <1>1, <1>2, <1>3 DEF Outside

LEMMA OutsideSend ==
  ASSUME SendInv, Unwritten, NEW c \in Conns, Outside(c)
  PROVE  SendInv'
<1>1. UNCHANGED <<carried, stage, todo, sent, alive, relayed>>
  BY DEF Outside, writeVars
<1>2. \A d \in Conns \ {c} : SameWrites(d)
  BY <1>1, OutsideMoves DEF Unwritten, SameWrites
<1>3. ASSUME KeepsRecords PROVE Sending(c)'
  <2>1. Sending(c) /\ Wire' = Wire /\ Rest' = Rest /\ first' = first
    BY <1>1, <1>3, SameCarried DEF SendInv
  <2>2. \/ pc'[c] = pc[c]
        \/ /\ pc[c] \in {"read", "pick", "attempt", "dial", "dropped", "claim"}
           /\ pc'[c] \in {"pick", "attempt", "dial", "dropped", "claim", "done"}
        \/ pc[c] \in {"served", "cleared"} /\ pc'[c] \in {"cleared", "relay"}
        \/ pc[c] = "relay" /\ pc'[c] = "done"
    BY OutsideMoves DEF Unwritten
  <2>3. CASE pc'[c] = pc[c]
    <3>1. SameWrites(c)
      BY <1>1, <2>3 DEF SameWrites
    <3> QED BY <1>1, <2>1, <3>1, OthersSend
  <2>4. CASE /\ pc[c] \in {"read", "pick", "attempt", "dial", "dropped", "claim"}
             /\ pc'[c] \in {"pick", "attempt", "dial", "dropped", "claim", "done"}
    BY <1>1, <2>1, <2>4 DEF Sending
  <2>5. CASE pc[c] \in {"served", "cleared"} /\ pc'[c] \in {"cleared", "relay"}
    BY <1>1, <2>1, <2>5 DEF Sending
  <2>6. CASE pc[c] = "relay" /\ pc'[c] = "done"
    BY <1>1, <2>1, <2>6 DEF Sending
  <2> QED BY <2>2, <2>3, <2>4, <2>5, <2>6
<1> QED BY <1>1, <1>2, <1>3, StepOf DEF SendInv

LEMMA RelayRestSend ==
  ASSUME SendInv, Unwritten, NEW c \in Conns, RelayRest(c)
  PROVE  SendInv'
<1>1. /\ pc[c] = "relay" /\ ~relayed[c]
      /\ relayed' = [relayed EXCEPT ![c] = TRUE]
      /\ sent' = IF alive'[c] THEN [sent EXCEPT ![c] = @ \o Rest] ELSE sent
      /\ UNCHANGED <<carried, pc, stage, todo, alive>>
  BY DEF RelayRest, Send, Rest, vars
<1>2. \A d \in Conns \ {c} : SameWrites(d)
  BY <1>1 DEF Unwritten, SendInv, SameWrites
<1>3. relayed' \in [Conns -> BOOLEAN] /\ relayed'[c]
  BY <1>1 DEF SendInv
<1>4. ASSUME KeepsRecords PROVE Sending(c)'
  <2>1. stage[c] # "fake" /\ Wire' = Wire /\ Rest' = Rest /\ first' = first
    BY <1>1, <1>4, SameCarried DEF SendInv, Sending
  <2>2. ASSUME alive'[c]
        PROVE  \E stream \in {Wire, first} : sent'[c] = stream \o Rest
    <3>1. PICK stream \in {Wire, first} : sent[c] = stream
      BY <1>1, <1>4, <2>2 DEF SendInv, Sending
    <3>2. sent'[c] = sent[c] \o Rest
      BY <1>1, <2>2 DEF Unwritten
    <3> QED BY <3>1, <3>2
  <2> QED BY <1>1, <1>3, <2>1, <2>2 DEF Sending
<1> QED BY <1>1, <1>2, <1>3, <1>4, StepOf DEF SendInv

LEMMA StepSendInv == SendInv /\ IInv /\ Unwritten /\ [WNext]_wvars => SendInv'
<1> SUFFICES ASSUME SendInv, IInv, Unwritten, [WNext]_wvars PROVE SendInv'
  OBVIOUS
<1>1. ASSUME NEW c \in Conns, Strategy(c) PROVE SendInv'
  BY <1>1, DialledSend, WaitedSend, WriteFakeSend, WritePieceSend, WriteLastSend,
     ReturnsFalseSend
  DEF Strategy
<1>2. ASSUME NEW c \in Conns, Outside(c) PROVE SendInv'
  BY <1>2, OutsideSend
<1>3. ASSUME NEW c \in Conns, RelayRest(c) PROVE SendInv'
  BY <1>3, RelayRestSend
<1>4. CASE UNCHANGED wvars
  <2>1. UNCHANGED <<carried, pc, stage, todo, sent, alive, relayed>>
    BY <1>4 DEF wvars, vars, writeVars
  <2>2. Carried' /\ KeepsRecords' = KeepsRecords
    BY <2>1, SameCarried DEF SendInv
  <2>3. \A c \in Conns : SameWrites(c)
    BY <2>1 DEF SameWrites
  <2>4. ASSUME KeepsRecords', NEW c \in Conns PROVE Sending(c)'
    BY <2>1, <2>2, <2>3, <2>4, OthersSend DEF SendInv
  <2> QED BY <2>1, <2>2, <2>4 DEF SendInv
<1> QED BY <1>1, <1>2, <1>3, <1>4 DEF WNext

\* Whatever the endpoints, the balancer and the failover, however long the hello, at
\* whatever point the Read ended and wherever it is cut: what a live upstream has been
\* sent reads as the client's data in order, none of it twice, none lost once the rest
\* is relayed; also after a strategy that failed (tlsutil/fragment.go:5-83,
\* combined.go:29-72, server.go:252-337).  Where a fake hello goes into the stream, or
\* tls_record_frag is given more or less than a record, KeepsRecords is false.
THEOREM UpstreamReadsWhatWasSent == WSpec => []StreamIntact
<1>1. WInit => Init
  BY DEF WInit
<1>2. IInv /\ SendInv => StreamIntact
  BY SendInvMeans
<1> QED BY <1>1, <1>2, InitIInv, InitUnwritten, InitSendInv, StepHandler, StepIInv, StepUnwritten,
           StepSendInv, PTL DEF WSpec
=============================================================================
