--------------------------- MODULE WrongSeqProofs ---------------------------
(***************************************************************************)
(* The port registry of WrongSeq and the handlers' own record of it agree, *)
(* for any number of connections and ports and whatever the capture, the   *)
(* server and the injecting goroutines do.                                 *)
(*                                                                         *)
(* RegistryMatchesHandlers is not inductive: a cleanup deletes whatever    *)
(* the port has, so the proof needs to know from each handler's location   *)
(* whether it holds a registration.  HandlerInv says so.                   *)
(*                                                                         *)
(* Then the types; and what the sniffer concludes of a flow, although late *)
(* packets of a port's earlier flows meet the port's next flow.  The proof *)
(* follows every packet from its capture to the portState it changes       *)
(* (PacketInv) and uses that the capture keeps the order: once a flow's    *)
(* own SYN is seen, no SYN of an earlier flow of the port comes behind it  *)
(* (OrderInv).  StateInv joins the portStates, the decoys and the wire.    *)
(* Last, the whole implements StrictGate.                                  *)
(***************************************************************************)
EXTENDS WrongSeq, TLAPS

Holding == {"registered", "dialing", "waiting", "writing", "relay", "failing"}
Free    == {"start", "reserved", "unregistered"}

RegistryType ==
  /\ hpc \in [Conns -> HandlerPCs]
  /\ port \in [Conns -> Ports \cup {None}]
  /\ registered \in [Conns -> BOOLEAN]
  /\ ports \in [Ports -> Conns \cup {None}]

HandlerInv ==
  \A c \in Conns :
    /\ hpc[c] = "reserved" \/ registered[c] => port[c] \in Ports
    /\ hpc[c] \in Holding => registered[c]
    /\ hpc[c] \in Free => ~registered[c]

RegInv == RegistryType /\ HandlerInv /\ RegistryMatchesHandlers

registryVars == <<hpc, port, registered, ports>>

\* The initial states satisfy the invariant: no port is registered.
LEMMA InitRegInv == Init => RegInv
  BY WrongSeqAssumption
  DEF Init, RegInv, RegistryType, HandlerInv, RegistryMatchesHandlers, HandlerPCs,
      Holding, Free

\* A step that leaves the registry and the handlers' record alone, and moves a
\* handler between two locations of the same kind, keeps the invariant.
LEMMA MoveKeepsRegInv ==
  ASSUME RegInv, NEW c \in Conns, NEW from \in HandlerPCs, NEW to \in HandlerPCs,
         Goto(c, from, to),
         to \in Holding => from \in Holding,
         to \in Free => from \in Free,
         to # "reserved",
         UNCHANGED <<port, registered, ports>>
  PROVE  RegInv'
<1>1. RegistryType'
  BY DEF RegInv, RegistryType, Goto
<1>2. HandlerInv'
  <2> SUFFICES ASSUME NEW d \in Conns
               PROVE  /\ hpc'[d] = "reserved" \/ registered'[d] => port'[d] \in Ports
                      /\ hpc'[d] \in Holding => registered'[d]
                      /\ hpc'[d] \in Free => ~registered'[d]
    BY DEF HandlerInv
  <2>1. CASE d = c
    BY <2>1 DEF RegInv, RegistryType, HandlerInv, Goto, Holding, Free
  <2>2. CASE d # c
    BY <2>2 DEF RegInv, RegistryType, HandlerInv, Goto, Holding, Free
  <2> QED BY <2>1, <2>2
<1>3. RegistryMatchesHandlers'
  BY DEF RegInv, RegistryMatchesHandlers
<1> QED BY <1>1, <1>2, <1>3 DEF RegInv

\* Reserving a port registers nothing.
LEMMA ReserveKeepsRegInv ==
  ASSUME RegInv, NEW c \in Conns, NEW p \in Ports, Reserve(c, p)
  PROVE  RegInv'
<1> USE DEF RegInv, RegistryType
<1>1. ~registered[c] /\ \A q \in Ports : ports[q] # c
  BY WrongSeqAssumption DEF Reserve, Goto, HandlerInv, RegistryMatchesHandlers, Free
<1>2. RegistryType'
  BY DEF Reserve, Goto, HandlerPCs
<1>3. HandlerInv'
  BY <1>1 DEF Reserve, Goto, HandlerInv, Holding, Free
<1>4. RegistryMatchesHandlers'
  BY <1>1 DEF Reserve, RegistryMatchesHandlers
<1> QED BY <1>2, <1>3, <1>4

\* RegisterPort takes a free port only, so no other handler's entry changes.
LEMMA RegisterKeepsRegInv ==
  ASSUME RegInv, NEW c \in Conns, Register(c)
  PROVE  RegInv'
<1> USE DEF RegInv, RegistryType
<1>1. port[c] \in Ports /\ ~registered[c]
  BY DEF Register, HandlerInv, Free
<1>2. CASE ports[port[c]] = None
  <2>1. /\ hpc' = [hpc EXCEPT ![c] = "registered"]
        /\ ports' = [ports EXCEPT ![port[c]] = c]
        /\ registered' = [registered EXCEPT ![c] = TRUE]
        /\ port' = port
    BY <1>2 DEF Register, Goto
  <2>2. RegistryType'
    BY <2>1, <1>1 DEF HandlerPCs
  <2>3. HandlerInv'
    BY <2>1, <1>1 DEF HandlerInv, Holding, Free
  <2>4. RegistryMatchesHandlers'
    BY <2>1, <1>1, <1>2, WrongSeqAssumption DEF RegistryMatchesHandlers
  <2> QED BY <2>2, <2>3, <2>4
<1>3. CASE ports[port[c]] # None
  <2>1. /\ hpc' = [hpc EXCEPT ![c] = IF tries[c] + 1 < MaxTries THEN "start" ELSE "done"]
        /\ UNCHANGED <<port, registered, ports>>
    BY <1>3 DEF Register, Goto
  <2>2. RegistryType'
    BY <2>1 DEF HandlerPCs
  <2>3. HandlerInv'
    BY <2>1, <1>1 DEF HandlerInv, Holding, Free
  <2>4. RegistryMatchesHandlers'
    BY <2>1 DEF RegistryMatchesHandlers
  <2> QED BY <2>2, <2>3, <2>4
<1> QED BY <1>2, <1>3

\* A handler that cleans up a port it holds deletes its own entry and no other.
LEMMA CleanupKeepsRegInv ==
  ASSUME RegInv, NEW c \in Conns, registered[c], CleanupPort(port[c]),
         registered' = [registered EXCEPT ![c] = FALSE], UNCHANGED port,
         NEW to \in HandlerPCs \ (Holding \cup {"reserved"}),
         hpc' = [hpc EXCEPT ![c] = to]
  PROVE  RegInv'
<1> USE DEF RegInv, RegistryType
<1>1. port[c] \in Ports
  BY DEF HandlerInv
<1>2. ports[port[c]] = c
  BY <1>1 DEF RegistryMatchesHandlers
<1>3. RegistryType'
  BY <1>1 DEF CleanupPort
<1>4. HandlerInv'
  BY DEF HandlerInv, Holding, Free
<1>5. RegistryMatchesHandlers'
  BY <1>1, <1>2, <1>3, WrongSeqAssumption DEF RegistryMatchesHandlers, CleanupPort
<1> QED BY <1>3, <1>4, <1>5

\* Every step of a handler keeps the invariant.
LEMMA HandlerKeepsRegInv ==
  ASSUME RegInv, NEW c \in Conns, Handler(c)
  PROVE  RegInv'
<1>1. CASE \E p \in Ports : Reserve(c, p)
  BY <1>1, ReserveKeepsRegInv
<1>2. CASE ReserveFails(c)
  BY <1>2, MoveKeepsRegInv DEF ReserveFails, HandlerPCs, Holding, Free
<1>3. CASE Register(c)
  BY <1>3, RegisterKeepsRegInv
<1>4. CASE Dial(c)
  BY <1>4, MoveKeepsRegInv DEF Dial, HandlerPCs, Holding, Free
<1>5. CASE Handshake(c)
  BY <1>5, MoveKeepsRegInv DEF Handshake, HandlerPCs, Holding, Free
<1>6. CASE DialFails(c)
  <2>1. CASE Goto(c, "dialing", "failing")
    BY <1>6, <2>1, MoveKeepsRegInv DEF DialFails, HandlerPCs, Holding, Free
  <2>2. CASE Goto(c, "registered", "failing")
    BY <1>6, <2>2, MoveKeepsRegInv DEF DialFails, HandlerPCs, Holding, Free
  <2> QED BY <1>6, <2>1, <2>2 DEF DialFails
<1>7. CASE Confirmed(c)
  BY <1>7, MoveKeepsRegInv DEF Confirmed, HandlerPCs, Holding, Free
<1>8. CASE Unconfirmed(c)
  BY <1>8, MoveKeepsRegInv DEF Unconfirmed, HandlerPCs, Holding, Free
<1>9. CASE Write(c)
  BY <1>9, MoveKeepsRegInv DEF Write, HandlerPCs, Holding, Free
<1>10. CASE FailCleanup(c)
  <2>1. registered[c]
    BY <1>10 DEF FailCleanup, Goto, RegInv, HandlerInv, Holding
  <2> QED BY <1>10, <2>1, CleanupKeepsRegInv DEF FailCleanup, Goto, HandlerPCs, Holding
<1>11. CASE Return(c)
  <2>1. CASE registered[c]
    BY <1>11, <2>1, CleanupKeepsRegInv DEF Return, Goto, HandlerPCs, Holding
  <2>2. CASE ~registered[c]
    <3>1. UNCHANGED <<port, registered, ports>>
      BY <1>11, <2>2 DEF Return, RegInv, RegistryType
    <3> QED BY <1>11, <3>1, MoveKeepsRegInv DEF Return, HandlerPCs, Holding, Free
  <2> QED BY <2>1, <2>2
<1>12. CASE Close(c)
  <2>1. CASE Goto(c, "unregistered", IF registered[c] THEN "returning" ELSE "done")
    <3>1. Goto(c, "unregistered", "done")
      BY <2>1 DEF Goto, RegInv, HandlerInv, Free
    <3> QED BY <1>12, <3>1, MoveKeepsRegInv DEF Close, HandlerPCs, Holding, Free
  <2>2. CASE Goto(c, "relay", "returning")
    BY <1>12, <2>2, MoveKeepsRegInv DEF Close, HandlerPCs, Holding, Free
  <2> QED BY <1>12, <2>1, <2>2 DEF Close
<1> QED
  BY <1>1, <1>2, <1>3, <1>4, <1>5, <1>6, <1>7, <1>8, <1>9, <1>10, <1>11, <1>12
  DEF Handler

\* The sniffer, the injecting goroutines and the network touch neither the
\* registry nor the handlers.
LEMMA OthersKeepRegistry ==
  ASSUME Sniff \/ \E c \in Conns : Injecting(c) \/ Server(c)
  PROVE  UNCHANGED registryVars
BY DEF Sniff, SniffTake, SniffApply, Injecting, Inject, InjectFails, Reinject,
       StopInjecting, Server, DuplicateAck, ServerData, AckAgain, Reset,
       handlerVars, registryVars

\* The invariant depends on the registry's variables only.
LEMMA StutterKeepsRegInv ==
  ASSUME RegInv, UNCHANGED registryVars
  PROVE  RegInv'
BY DEF RegInv, RegistryType, HandlerInv, RegistryMatchesHandlers, registryVars

\* The invariant is inductive.
LEMMA NextRegInv == RegInv /\ [Next]_vars => RegInv'
<1> SUFFICES ASSUME RegInv, [Next]_vars PROVE RegInv'
  OBVIOUS
<1>1. CASE \E c \in Conns : Handler(c)
  BY <1>1, HandlerKeepsRegInv
<1>2. CASE Sniff \/ \E c \in Conns : Injecting(c) \/ Server(c)
  BY <1>2, OthersKeepRegistry, StutterKeepsRegInv
<1>3. CASE UNCHANGED vars
  BY <1>3, StutterKeepsRegInv DEF vars, handlerVars, registryVars
<1> QED BY <1>1, <1>2, <1>3 DEF Next

\* A port is registered for a connection exactly while its handler holds it:
\* no cleanup by port number ever deletes another flow's entry.
THEOREM RegistryAgrees == Spec => []RegistryMatchesHandlers
<1>1. Init => RegInv
  BY InitRegInv
<1>2. RegInv /\ [Next]_vars => RegInv'
  BY NextRegInv
<1>3. RegInv => RegistryMatchesHandlers
  BY DEF RegInv
<1> QED BY <1>1, <1>2, <1>3, PTL DEF Spec
-----------------------------------------------------------------------------
(* Types.  Reservations and decoys stay within their bounds because no     *)
(* more are tried once a bound is met; a packet has a port because a       *)
(* socket is made by a handler that has one.                               *)

BoundInv ==
  \A c \in Conns :
    /\ hpc[c] \in {"start", "reserved"} => tries[c] < MaxTries
    /\ hpc[c] \notin {"start", "done"} \/ sock[c] # "none" => port[c] \in Ports
    /\ goroutine[c].pc # "none" => ps[c].fakeSent
    /\ goroutine[c].pc = "none" => goroutine[c].sent = 0
    /\ goroutine[c].pc = "inject" => goroutine[c].sent < MaxInjects

TypeInv == RegInv /\ TypeOK /\ BoundInv

LEMMA InitTypeInv == Init => TypeInv
<1> SUFFICES ASSUME Init PROVE TypeInv
  OBVIOUS
<1>1. MaxTries \in Nat \ {0} /\ MaxInjects \in Nat \ {0} /\ MaxQueue \in Nat
  BY WrongSeqAssumption
<1>2. queue \in Seq(Packet) /\ Len(queue) <= MaxQueue
  BY <1>1 DEF Init
<1>3. ps \in [Conns -> PortState]
  <2> DEFINE new == [syn |-> None, fakeSent |-> FALSE, mismatch |-> FALSE,
                     confirmed |-> FALSE, failed |-> FALSE]
  <2>1. new \in PortState
    BY DEF PortState
  <2>2. ps = [c \in Conns |-> new]
    BY DEF Init
  <2> HIDE DEF new
  <2> QED BY <2>1, <2>2
<1>4. goroutine \in [Conns -> Goroutine]
  <2> DEFINE idle == [pc |-> "none", isn |-> None, sent |-> 0]
  <2>1. idle \in Goroutine
    BY <1>1 DEF Goroutine
  <2>2. goroutine = [c \in Conns |-> idle]
    BY DEF Init
  <2> HIDE DEF idle
  <2> QED BY <2>1, <2>2
<1>5. \A c \in Conns : hpc[c] = "start" /\ sock[c] = "none" /\ tries[c] = 0
  BY DEF Init
<1>6. hpc \in [Conns -> HandlerPCs]
  BY DEF Init, HandlerPCs
<1>7. /\ tries \in [Conns -> 0 .. MaxTries]
      /\ decoyed \in [Conns -> BOOLEAN] /\ answered \in [Conns -> BOOLEAN]
      /\ late \in [Conns -> SUBSET PacketKinds]
  BY <1>1 DEF Init
<1>8. /\ port \in [Conns -> Ports \cup {None}] /\ ports \in [Ports -> Conns \cup {None}]
      /\ registered \in [Conns -> BOOLEAN] /\ payload \in [Conns -> BOOLEAN]
      /\ sock \in [Conns -> {"none", "syn", "established", "closed"}]
      /\ spoke \in [Conns -> SUBSET {"data", "reset"}]
      /\ held \in [packet : Packet, owner : Conns] \cup {None}
  BY DEF Init
<1>9. TypeOK
  BY <1>2, <1>3, <1>4, <1>6, <1>7, <1>8 DEF TypeOK
<1>10. \A c \in Conns : goroutine[c].pc = "none" /\ goroutine[c].sent = 0
  BY DEF Init
<1>11. BoundInv
  <2> SUFFICES ASSUME NEW c \in Conns
               PROVE  /\ hpc[c] \in {"start", "reserved"} => tries[c] < MaxTries
                      /\ hpc[c] \notin {"start", "done"} \/ sock[c] # "none" => port[c] \in Ports
                      /\ goroutine[c].pc # "none" => ps[c].fakeSent
                      /\ goroutine[c].pc = "none" => goroutine[c].sent = 0
                      /\ goroutine[c].pc = "inject" => goroutine[c].sent < MaxInjects
    BY DEF BoundInv
  <2>1. 0 < MaxTries
    BY <1>1
  <2>2. hpc[c] = "start" /\ sock[c] = "none" /\ tries[c] = 0
    BY <1>5
  <2>3. goroutine[c].pc = "none" /\ goroutine[c].sent = 0
    BY <1>10
  <2> QED BY <2>1, <2>2, <2>3
<1> QED BY <1>9, <1>11, InitRegInv DEF TypeInv

\* The buffer takes a packet where it has room.
LEMMA CaptureBounded ==
  ASSUME TypeOK, NEW c \in Conns, NEW kind \in PacketKinds,
         Capture(kind, c), port[c] \in Ports
  PROVE  queue' \in Seq(Packet) /\ Len(queue') <= MaxQueue
<1> DEFINE packet == [kind |-> kind, port |-> port[c], seq |-> c]
<1>1. queue \in Seq(Packet) /\ packet \in Packet /\ Len(queue) \in Nat /\ MaxQueue \in Nat
  BY WrongSeqAssumption DEF TypeOK, Packet
<1>2. CASE queue' = Append(queue, packet) /\ Len(queue) < MaxQueue
  <2>1. queue' \in Seq(Packet) /\ Len(queue') = Len(queue) + 1
    BY <1>1, <1>2
  <2> QED BY <1>1, <1>2, <2>1
<1>3. CASE UNCHANGED queue
  BY <1>3 DEF TypeOK
<1> QED BY <1>2, <1>3 DEF Capture

LEMMA HandlerKeepsTypeInv ==
  ASSUME TypeInv, NEW c \in Conns, Handler(c)
  PROVE  TypeInv'
<1> USE DEF sniffVars, wireVars
<1>1. RegInv'
  BY HandlerKeepsRegInv DEF TypeInv
<1>2. UNCHANGED <<ps, goroutine, held, late, decoyed, answered, spoke>>
  BY DEF Handler, Reserve, ReserveFails, Register, Dial, Handshake, DialFails, Confirmed,
         Unconfirmed, Write, FailCleanup, Return, Close
<1>3. queue' \in Seq(Packet) /\ Len(queue') <= MaxQueue
  <2>1. CASE Dial(c) \/ Handshake(c)
    <3>1. port[c] \in Ports
      BY <2>1 DEF Dial, Handshake, Goto, TypeInv, RegInv, HandlerInv, Holding
    <3> QED BY <2>1, <3>1, CaptureBounded DEF Dial, Handshake, PacketKinds, TypeInv
  <2>2. CASE ~(Dial(c) \/ Handshake(c))
    BY <2>2 DEF Handler, Reserve, ReserveFails, Register, DialFails, Confirmed,
                Unconfirmed, Write, FailCleanup, Return, Close, TypeInv, TypeOK
  <2> QED BY <2>1, <2>2
<1>4. sock' \in [Conns -> {"none", "syn", "established", "closed"}]
  BY DEF Handler, Reserve, ReserveFails, Register, Dial, Handshake, DialFails, Confirmed,
         Unconfirmed, Write, FailCleanup, Return, Close, TypeInv, TypeOK
<1>5. payload' \in [Conns -> BOOLEAN]
  <2>1. CASE Write(c)
    <3>1. payload' = [payload EXCEPT ![c] = IF sock[c] = "established" THEN TRUE ELSE FALSE]
      BY <2>1 DEF Write
    <3> QED BY <3>1 DEF TypeInv, TypeOK
  <2>2. CASE payload' = payload
    BY <2>2 DEF TypeInv, TypeOK
  <2> QED
    BY <2>1, <2>2 DEF Handler, Reserve, ReserveFails, Register, Dial, Handshake, DialFails,
                      Confirmed, Unconfirmed, FailCleanup, Return, Close
<1>6. /\ tries' \in [Conns -> 0 .. MaxTries]
      /\ \A d \in Conns : hpc'[d] \in {"start", "reserved"} => tries'[d] < MaxTries
  <2>1. hpc \in [Conns -> HandlerPCs] /\ tries \in [Conns -> 0 .. MaxTries] /\ MaxTries \in Nat
    BY WrongSeqAssumption DEF TypeInv, TypeOK
  <2>2. \A d \in Conns : hpc[d] \in {"start", "reserved"} => tries[d] < MaxTries
    BY DEF TypeInv, BoundInv
  <2>3. CASE Register(c)
    <3>1. CASE ports[port[c]] = None
      BY <2>1, <2>2, <2>3, <3>1 DEF Register, Goto
    <3>2. CASE ports[port[c]] # None
      <4>1. /\ hpc[c] = "reserved"
            /\ hpc' = [hpc EXCEPT ![c] = IF tries[c] + 1 < MaxTries THEN "start" ELSE "done"]
            /\ tries' = [tries EXCEPT ![c] = tries[c] + 1]
        BY <2>3, <3>2 DEF Register, Goto
      <4>2. tries[c] + 1 \in 0 .. MaxTries
        BY <2>1, <2>2, <4>1
      <4> QED BY <2>1, <2>2, <4>1, <4>2
    <3> QED BY <3>1, <3>2
  <2>4. CASE \E p \in Ports : Reserve(c, p)
    BY <2>1, <2>2, <2>4 DEF Reserve, Goto
  <2>5. CASE ~Register(c) /\ ~\E p \in Ports : Reserve(c, p)
    <3>1. tries' = tries
      BY <2>5 DEF Handler, ReserveFails, Dial, Handshake, DialFails, Confirmed,
                  Unconfirmed, Write, FailCleanup, Return, Close
    <3>2. \E to \in HandlerPCs \ {"start", "reserved"} : hpc' = [hpc EXCEPT ![c] = to]
      BY <2>5 DEF Handler, ReserveFails, Dial, Handshake, DialFails, Confirmed,
                  Unconfirmed, Write, FailCleanup, Return, Close, Goto, HandlerPCs
    <3> QED BY <2>1, <2>2, <3>1, <3>2
  <2> QED BY <2>3, <2>4, <2>5
<1>7. TypeOK'
  BY <1>1, <1>2, <1>3, <1>4, <1>5, <1>6 DEF TypeInv, TypeOK, RegInv, RegistryType
<1>8. \A d \in Conns :
        hpc'[d] \notin {"start", "done"} \/ sock'[d] # "none" => port'[d] \in Ports
  <2>1. /\ hpc \in [Conns -> HandlerPCs] /\ port \in [Conns -> Ports \cup {None}]
        /\ \A d \in Conns :
             hpc[d] \notin {"start", "done"} \/ sock[d] # "none" => port[d] \in Ports
    BY DEF TypeInv, TypeOK, BoundInv
  <2>2. CASE \E p \in Ports : Reserve(c, p)
    BY <2>1, <2>2 DEF Reserve, Goto
  <2>3. CASE port' = port
    <3>1. \A d \in Conns : d # c => hpc'[d] = hpc[d] /\ sock'[d] = sock[d]
      BY <2>1 DEF Handler, Reserve, ReserveFails, Register, Dial, Handshake, DialFails,
                  Confirmed, Unconfirmed, Write, FailCleanup, Return, Close, Goto, TypeInv, TypeOK
    <3>2. CASE hpc[c] = "start"
      <4>1. (\E p \in Ports : Reserve(c, p)) \/ ReserveFails(c)
        BY <3>2 DEF Handler, Register, Dial, Handshake, DialFails,
                    Confirmed, Unconfirmed, Write, FailCleanup, Return, Close, Goto
      <4> QED BY <2>1, <2>2, <2>3, <3>1, <4>1 DEF ReserveFails, Goto
    <3>3. CASE hpc[c] # "start"
      <4>1. hpc[c] # "done"
        BY <3>3 DEF Handler, Reserve, ReserveFails, Register, Dial, Handshake, DialFails,
                    Confirmed, Unconfirmed, Write, FailCleanup, Return, Close, Goto
      <4> QED BY <2>1, <2>3, <3>1, <3>3, <4>1
    <3> QED BY <3>2, <3>3
  <2> QED
    BY <2>2, <2>3 DEF Handler, ReserveFails, Register, Dial, Handshake, DialFails,
                      Confirmed, Unconfirmed, Write, FailCleanup, Return, Close
<1>9. BoundInv'
  BY <1>2, <1>6, <1>8 DEF TypeInv, BoundInv
<1> QED BY <1>1, <1>7, <1>9 DEF TypeInv


\* A goroutine that ends keeps nothing of its count.
LEMMA EndedKeepsBounds ==
  ASSUME goroutine \in [Conns -> Goroutine], NEW c \in Conns,
         NEW how \in {"done", "failed"}, Ended(c, how)
  PROVE  /\ goroutine' \in [Conns -> Goroutine]
         /\ goroutine'[c].pc = how /\ goroutine'[c].sent = 0
         /\ \A d \in Conns : d # c => goroutine'[d] = goroutine[d]
<1> DEFINE over == [goroutine[c] EXCEPT !.pc = how, !.sent = 0]
<1>1. goroutine' = [goroutine EXCEPT ![c] = over]
  BY DEF Ended
<1>2. over \in Goroutine /\ over.pc = how /\ over.sent = 0
  <2>1. goroutine[c] \in Goroutine /\ 0 \in 0 .. MaxInjects
    BY WrongSeqAssumption
  <2>2. \A routine \in Goroutine : [routine EXCEPT !.pc = how] \in Goroutine
    BY DEF Goroutine
  <2>3. \A routine \in Goroutine :
          /\ [routine EXCEPT !.sent = 0] \in Goroutine
          /\ [routine EXCEPT !.sent = 0].pc = routine.pc
    BY <2>1 DEF Goroutine
  <2>4. [goroutine[c] EXCEPT !.pc = how].pc = how
    BY <2>1 DEF Goroutine
  <2> QED BY <2>1, <2>2, <2>3, <2>4 DEF Goroutine
<1> HIDE DEF over
<1> QED BY <1>1, <1>2

LEMMA InjectingKeepsTypeInv ==
  ASSUME TypeInv, NEW c \in Conns, Injecting(c)
  PROVE  TypeInv'
<1> USE DEF handlerVars, sniffVars, wireVars
<1>1. UNCHANGED <<handlerVars, sock, ports, queue, held, late, answered, spoke, payload>>
  BY DEF Injecting, Inject, InjectFails, Reinject, StopInjecting
<1>2. RegInv'
  BY <1>1 DEF TypeInv, RegInv, RegistryType, HandlerInv, RegistryMatchesHandlers
<1>3. /\ MaxInjects \in Nat /\ ps \in [Conns -> PortState]
      /\ goroutine \in [Conns -> Goroutine] /\ decoyed \in [Conns -> BOOLEAN]
  BY WrongSeqAssumption DEF TypeInv, TypeOK
<1>4. \A d \in Conns :
        /\ goroutine[d].pc # "none" => ps[d].fakeSent
        /\ goroutine[d].pc = "none" => goroutine[d].sent = 0
        /\ goroutine[d].pc = "inject" => goroutine[d].sent < MaxInjects
  BY DEF TypeInv, BoundInv
<1>5. ps' \in [Conns -> PortState] /\ \A d \in Conns : ps'[d].fakeSent = ps[d].fakeSent
  <2>1. CASE ps' = [ps EXCEPT ![c].failed = TRUE]
    BY <1>3, <2>1 DEF PortState
  <2>2. CASE ps' = ps
    BY <1>3, <2>2
  <2> QED BY <2>1, <2>2 DEF Injecting, Inject, InjectFails, Reinject, StopInjecting
<1>6. /\ goroutine' \in [Conns -> Goroutine]
      /\ \A d \in Conns :
           /\ goroutine'[d].pc # "none" => ps[d].fakeSent
           /\ goroutine'[d].pc = "none" => goroutine'[d].sent = 0
           /\ goroutine'[d].pc = "inject" => goroutine'[d].sent < MaxInjects
  <2>1. CASE Inject(c)
    <3>1. goroutine[c].sent + 1 \in 0 .. MaxInjects
      BY <1>3, <1>4, <2>1 DEF Inject, Goroutine
    <3> QED BY <1>3, <1>4, <2>1, <3>1 DEF Inject, Goroutine
  <2>2. CASE InjectFails(c)
    BY <1>3, <1>4, <2>2, EndedKeepsBounds DEF InjectFails
  <2>3. CASE Reinject(c)
    <3>1. CASE goroutine[c].sent < MaxInjects
      BY <1>3, <1>4, <2>3, <3>1 DEF Reinject, Goroutine
    <3>2. CASE ~(goroutine[c].sent < MaxInjects)
      BY <1>3, <1>4, <2>3, <3>2, EndedKeepsBounds DEF Reinject
    <3> QED BY <3>1, <3>2
  <2>4. CASE StopInjecting(c)
    BY <1>3, <1>4, <2>4, EndedKeepsBounds DEF StopInjecting
  <2> QED BY <2>1, <2>2, <2>3, <2>4 DEF Injecting
<1>7. decoyed' \in [Conns -> BOOLEAN]
  BY <1>3 DEF Injecting, Inject, InjectFails, Reinject, StopInjecting
<1>8. TypeOK'
  BY <1>1, <1>5, <1>6, <1>7 DEF TypeInv, TypeOK
<1>9. BoundInv'
  BY <1>1, <1>5, <1>6 DEF TypeInv, BoundInv
<1> QED BY <1>2, <1>8, <1>9 DEF TypeInv

LEMMA ServerKeepsTypeInv ==
  ASSUME TypeInv, NEW c \in Conns, Server(c)
  PROVE  TypeInv'
<1> USE DEF handlerVars, sniffVars, wireVars
<1>1. UNCHANGED <<handlerVars, ports, ps, goroutine, held, late, decoyed, payload>>
  BY DEF Server, DuplicateAck, ServerData, AckAgain, Reset
<1>2. RegInv'
  BY <1>1 DEF TypeInv, RegInv, RegistryType, HandlerInv, RegistryMatchesHandlers
<1>3. /\ sock \in [Conns -> {"none", "syn", "established", "closed"}]
      /\ answered \in [Conns -> BOOLEAN]
      /\ spoke \in [Conns -> SUBSET {"data", "reset"}]
  BY DEF TypeInv, TypeOK
<1>4. sock[c] # "none" /\ port[c] \in Ports
  BY DEF Server, DuplicateAck, ServerData, AckAgain, Reset, Reachable, TypeInv, BoundInv
<1>5. queue' \in Seq(Packet) /\ Len(queue') <= MaxQueue
  BY <1>4, CaptureBounded DEF Server, DuplicateAck, ServerData, AckAgain, Reset, PacketKinds, TypeInv
<1>6. sock' \in [Conns -> {"none", "syn", "established", "closed"}]
  BY <1>3 DEF Server, DuplicateAck, ServerData, AckAgain, Reset
<1>7. \A d \in Conns : sock[d] = "none" => sock'[d] = "none"
  BY <1>3, <1>4 DEF Server, DuplicateAck, ServerData, AckAgain, Reset
<1>8. answered' \in [Conns -> BOOLEAN]
  BY <1>3 DEF Server, DuplicateAck, ServerData, AckAgain, Reset
<1>9. spoke' \in [Conns -> SUBSET {"data", "reset"}]
  BY <1>3 DEF Server, DuplicateAck, ServerData, AckAgain, Reset
<1>10. TypeOK'
  BY <1>1, <1>5, <1>6, <1>8, <1>9 DEF TypeInv, TypeOK
<1>11. BoundInv'
  BY <1>1, <1>7 DEF TypeInv, BoundInv
<1> QED BY <1>2, <1>10, <1>11 DEF TypeInv

\* A port's record remains one whichever of its fields the sniffer sets.
LEMMA RecordWritten ==
  ASSUME NEW f \in [Conns -> PortState], NEW d \in Conns
  PROVE  /\ \A seq \in Conns : [f EXCEPT ![d].syn = seq] \in [Conns -> PortState]
         /\ \A b \in BOOLEAN : /\ [f EXCEPT ![d].fakeSent = b] \in [Conns -> PortState]
                               /\ [f EXCEPT ![d].mismatch = b] \in [Conns -> PortState]
                               /\ [f EXCEPT ![d].confirmed = b] \in [Conns -> PortState]
                               /\ [f EXCEPT ![d].failed = b] \in [Conns -> PortState]
<1>1. \A p \in PortState : [f EXCEPT ![d] = p] \in [Conns -> PortState]
  OBVIOUS
<1>2. f[d] \in PortState
  OBVIOUS
<1>3. ASSUME NEW p \in PortState
      PROVE  /\ \A seq \in Conns : [p EXCEPT !.syn = seq] \in PortState
             /\ \A b \in BOOLEAN : /\ [p EXCEPT !.fakeSent = b] \in PortState
                                   /\ [p EXCEPT !.mismatch = b] \in PortState
                                   /\ [p EXCEPT !.confirmed = b] \in PortState
                                   /\ [p EXCEPT !.failed = b] \in PortState
  BY DEF PortState
<1>4. ASSUME NEW seq \in Conns PROVE [f EXCEPT ![d].syn = seq] \in [Conns -> PortState]
  BY <1>1, <1>2, <1>3
<1>5. ASSUME NEW b \in BOOLEAN
      PROVE  /\ [f EXCEPT ![d].fakeSent = b] \in [Conns -> PortState]
             /\ [f EXCEPT ![d].mismatch = b] \in [Conns -> PortState]
             /\ [f EXCEPT ![d].confirmed = b] \in [Conns -> PortState]
             /\ [f EXCEPT ![d].failed = b] \in [Conns -> PortState]
  BY <1>1, <1>2, <1>3
<1> QED BY <1>4, <1>5

LEMMA SniffKeepsTypeInv ==
  ASSUME TypeInv, Sniff
  PROVE  TypeInv'
<1> USE DEF handlerVars, sniffVars, wireVars
<1>1. UNCHANGED <<handlerVars, sock, ports, decoyed, answered, spoke, payload>>
  BY DEF Sniff, SniffTake, SniffApply
<1>2. RegInv'
  BY <1>1 DEF TypeInv, RegInv, RegistryType, HandlerInv, RegistryMatchesHandlers
<1>3. late' \in [Conns -> SUBSET PacketKinds]
  <2>1. late \in [Conns -> SUBSET PacketKinds]
    BY DEF TypeInv, TypeOK
  <2>2. CASE late' = late
    BY <2>1, <2>2
  <2>3. CASE SniffApply /\ late' # late
    <3>1. held.packet.kind \in PacketKinds /\ held.owner \in Conns
      BY <2>3 DEF SniffApply, TypeInv, TypeOK, Packet
    <3>2. late' = [late EXCEPT ![held.owner] = late[held.owner] \cup {held.packet.kind}]
      BY <2>3 DEF SniffApply
    <3> QED BY <2>1, <3>1, <3>2
  <2> QED BY <2>2, <2>3 DEF Sniff, SniffTake
<1>4. CASE SniffTake
  <2>1. /\ queue \in Seq(Packet) /\ queue # <<>> /\ Len(queue) <= MaxQueue
        /\ MaxQueue \in Nat /\ ports \in [Ports -> Conns \cup {None}]
    BY <1>4, WrongSeqAssumption DEF SniffTake, TypeInv, TypeOK
  <2>2. Head(queue) \in Packet /\ Tail(queue) \in Seq(Packet)
    BY <2>1
  <2>3. Len(Tail(queue)) = Len(queue) - 1 /\ Len(queue) \in Nat
    BY <2>1
  <2>4. Head(queue).port \in Ports
    BY <2>2 DEF Packet
  <2>5. held' \in [packet : Packet, owner : Conns] \cup {None}
    BY <1>4, <2>1, <2>2, <2>4 DEF SniffTake
  <2>6. queue' \in Seq(Packet) /\ Len(queue') <= MaxQueue
    BY <1>4, <2>1, <2>2, <2>3 DEF SniffTake
  <2>7. UNCHANGED <<ps, goroutine>>
    BY <1>4 DEF SniffTake
  <2>8. TypeOK'
    BY <1>1, <1>3, <2>5, <2>6, <2>7 DEF TypeInv, TypeOK
  <2>9. BoundInv'
    BY <1>1, <2>7 DEF TypeInv, BoundInv
  <2> QED BY <1>2, <2>8, <2>9 DEF TypeInv
<1>5. CASE SniffApply
  <2> DEFINE c   == held.owner
             seq == held.packet.seq
  <2>1. /\ c \in Conns /\ seq \in Conns
        /\ \/ OnSyn(c, seq) \/ OnAck(c, seq) \/ OnInboundAck(c, seq) \/ OnInboundRst(c)
    BY <1>5 DEF SniffApply, TypeInv, TypeOK, Packet
  <2>2. /\ ps \in [Conns -> PortState] /\ goroutine \in [Conns -> Goroutine]
        /\ \A d \in Conns :
             /\ goroutine[d].pc # "none" => ps[d].fakeSent
             /\ goroutine[d].pc = "none" => goroutine[d].sent = 0
             /\ goroutine[d].pc = "inject" => goroutine[d].sent < MaxInjects
    BY DEF TypeInv, TypeOK, BoundInv
  <2>3. CASE OnAck(c, seq) /\ ~ps[c].fakeSent /\ ps[c].syn = seq
    <3>1. /\ ps' = [ps EXCEPT ![c].fakeSent = TRUE]
          /\ goroutine' = [goroutine EXCEPT ![c].pc = "inject", ![c].isn = seq]
      BY <2>1, <2>3, WrongSeqAssumption DEF OnAck
    <3>2. goroutine[c].pc = "none" /\ goroutine[c].sent = 0 /\ 0 < MaxInjects
      BY <2>1, <2>2, <2>3, WrongSeqAssumption
    <3>3. ps' \in [Conns -> PortState]
      BY <2>1, <2>2, <3>1, RecordWritten
    <3>4. goroutine' \in [Conns -> Goroutine]
      BY <2>1, <2>2, <3>1 DEF Goroutine
    <3>5. \A d \in Conns :
            /\ goroutine'[d].pc # "none" => ps'[d].fakeSent
            /\ goroutine'[d].pc = "none" => goroutine'[d].sent = 0
            /\ goroutine'[d].pc = "inject" => goroutine'[d].sent < MaxInjects
      BY <2>1, <2>2, <3>1, <3>2 DEF PortState, Goroutine
    <3>6. TypeOK'
      BY <1>1, <1>3, <1>5, <3>3, <3>4 DEF SniffApply, TypeInv, TypeOK
    <3>7. BoundInv'
      BY <1>1, <3>5 DEF TypeInv, BoundInv
    <3> QED BY <1>2, <3>6, <3>7 DEF TypeInv
  <2>4. CASE ~(OnAck(c, seq) /\ ~ps[c].fakeSent /\ ps[c].syn = seq)
    <3> DEFINE psc == ps[c]
    <3>1. psc \in PortState
      BY <2>1, <2>2
    <3>2. /\ goroutine' = goroutine
          /\ \/ ps' = ps
             \/ ps' = [ps EXCEPT ![c].syn = seq]
             \/ ps' = [ps EXCEPT ![c].mismatch = TRUE,
                                 ![c].failed = ps[c].failed \/ ps[c].mismatch]
             \/ ps' = [ps EXCEPT ![c].confirmed =
                                   ps[c].confirmed \/ (ps[c].fakeSent /\ ps[c].syn = seq)]
             \/ ps' = [ps EXCEPT ![c].failed = TRUE]
      BY <2>1, <2>4 DEF OnSyn, OnAck, OnInboundAck, OnInboundRst
    <3>3. ps' \in [Conns -> PortState]
      <4>1. (psc.failed \/ psc.mismatch) \in BOOLEAN
            /\ (psc.confirmed \/ (psc.fakeSent /\ psc.syn = seq)) \in BOOLEAN
        OBVIOUS
      <4>2. CASE ps' = ps
        BY <2>2, <4>2
      <4>3. CASE ps' = [ps EXCEPT ![c].syn = seq]
        BY <2>1, <2>2, <4>3, RecordWritten
      <4>4. CASE ps' = [ps EXCEPT ![c].mismatch = TRUE,
                                  ![c].failed = ps[c].failed \/ ps[c].mismatch]
        <5> DEFINE warned == [ps EXCEPT ![c].mismatch = TRUE]
                   f == psc.failed \/ psc.mismatch
        <5>1. warned \in [Conns -> PortState]
          BY <2>1, <2>2, RecordWritten
        <5>2. ps' = [warned EXCEPT ![c].failed = f]
          BY <4>4
        <5>3. f \in BOOLEAN
          OBVIOUS
        <5> HIDE DEF warned, f
        <5> QED BY <2>1, <5>1, <5>2, <5>3, RecordWritten
      <4>5. CASE ps' = [ps EXCEPT ![c].confirmed =
                                    ps[c].confirmed \/ (ps[c].fakeSent /\ ps[c].syn = seq)]
        BY <2>1, <2>2, <4>1, <4>5, RecordWritten
      <4>6. CASE ps' = [ps EXCEPT ![c].failed = TRUE]
        BY <2>1, <2>2, <4>6, RecordWritten
      <4> QED BY <3>2, <4>2, <4>3, <4>4, <4>5, <4>6
    <3>4. ps' \in [Conns -> PortState] /\ \A d \in Conns : ps'[d].fakeSent = ps[d].fakeSent
      BY <2>1, <2>2, <3>2, <3>3 DEF PortState
    <3>5. TypeOK'
      BY <1>1, <1>3, <1>5, <3>2, <3>4 DEF SniffApply, TypeInv, TypeOK
    <3>6. BoundInv'
      BY <1>1, <2>2, <3>2, <3>4 DEF TypeInv, BoundInv
    <3> QED BY <1>2, <3>5, <3>6 DEF TypeInv
  <2> QED BY <2>3, <2>4
<1> QED BY <1>4, <1>5 DEF Sniff

\* Every variable keeps its type, the reservations, the decoys and the capture
\* buffer their bounds: maxReserveRetries, maxInjects and the socket's
\* (server.go:128-150, rawinjector_linux.go:884-942).
THEOREM TypeCorrect == Spec => []TypeOK
<1>1. TypeInv /\ [Next]_vars => TypeInv'
  <2> SUFFICES ASSUME TypeInv, [Next]_vars PROVE TypeInv'
    OBVIOUS
  <2>1. CASE UNCHANGED vars
    BY <2>1 DEF vars, handlerVars, sniffVars, wireVars, TypeInv, RegInv, RegistryType,
                HandlerInv, RegistryMatchesHandlers, TypeOK, BoundInv
  <2> QED
    BY <2>1, SniffKeepsTypeInv, HandlerKeepsTypeInv, InjectingKeepsTypeInv,
       ServerKeepsTypeInv DEF Next
<1>2. TypeInv => TypeOK
  BY DEF TypeInv
<1> QED BY <1>1, <1>2, InitTypeInv, PTL DEF Spec
-----------------------------------------------------------------------------
(* What the sniffer concludes about a flow.  It finds a portState by the   *)
(* port's number, so the proof follows every packet from its capture to    *)
(* the portState it meets.                                                 *)

Over(c) == hpc[c] \in {"unregistered", "returning", "done"}

\* A connection gets its socket after its registration, which it has once.
SocketInv ==
  \A c \in Conns : hpc[c] \in {"start", "reserved", "registered"} => sock[c] = "none"

\* A packet says what its own connection and that one's server did.
Genuine(packet) ==
  /\ sock[packet.seq] # "none"
  /\ port[packet.seq] = packet.port
  /\ packet.kind = "inbound_rst" => "reset" \in spoke[packet.seq]
  /\ packet.kind = "inbound_ack" => answered[packet.seq] \/ "data" \in spoke[packet.seq]

\* One that meets another's portState comes from a flow that is over.
PacketInv ==
  /\ \A i \in 1 .. Len(queue) : Genuine(queue[i])
  /\ held # None => /\ Genuine(held.packet)
                    /\ held.owner # held.packet.seq => Over(held.packet.seq)

\* From place i on, the SYNs of c's port in the queue are c's own.
OnlyOwn(c, i) ==
  \A j \in i .. Len(queue) : queue[j].kind = "syn" /\ queue[j].port = port[c] => queue[j].seq = c

Meeting(kind) == held # None /\ held.packet.kind = kind

SynSeen(c) ==
  ps[c].syn = c \/ (Meeting("syn") /\ held.owner = c /\ held.packet.seq = c)

\* The capture keeps the order: what precedes a registered flow's own SYN is the
\* earlier flows', what follows it is not.
OrderInv ==
  /\ \A c \in Conns :
       registered[c] =>
         /\ SynSeen(c) => OnlyOwn(c, 1)
         /\ \A i \in 1 .. Len(queue) :
              queue[i].kind = "syn" /\ queue[i].seq = c => OnlyOwn(c, i + 1)
  /\ Meeting("syn") /\ held.owner # held.packet.seq => ps[held.owner].syn # held.owner

StateInv ==
  \A c \in Conns :
    /\ ps[c].syn # None => sock[ps[c].syn] # "none"
    /\ ps[c].syn \notin {None, c} => late[c] # {}
    /\ ps[c].fakeSent <=> goroutine[c].isn # None
    /\ goroutine[c].isn = c => ps[c].syn = c
    /\ Mistaken(c) => Over(goroutine[c].isn)
    /\ ps[c].confirmed => ps[c].fakeSent
    /\ decoyed[c] => ps[c].fakeSent \/ Over(c)
    /\ answered[c] => decoyed[c]
    /\ "data" \in spoke[c] => c \in Talkative

JudgeInv ==
  TypeInv /\ SocketInv /\ PacketInv /\ OrderInv /\ StateInv /\ JudgedByOwnPackets

LEMMA InitJudgeInv == Init => JudgeInv
<1> SUFFICES ASSUME Init PROVE JudgeInv
  OBVIOUS
<1>1. SocketInv /\ PacketInv /\ OrderInv
  BY WrongSeqAssumption DEF Init, SocketInv, PacketInv, OrderInv, SynSeen, Meeting
<1>2. StateInv
  BY WrongSeqAssumption DEF Init, StateInv, Mistaken
<1>3. JudgedByOwnPackets
  BY DEF Init, JudgedByOwnPackets, ConfirmedByOwnPackets, FailsForOwnCause
<1> QED BY <1>1, <1>2, <1>3, InitTypeInv DEF JudgeInv

\* A step may end a flow and add to what the wire has seen; it takes nothing back.
Kept ==
  \A c \in Conns :
    /\ sock[c] # "none" => /\ sock'[c] # "none" /\ port'[c] = port[c]
                           /\ registered'[c] => registered[c]
    /\ spoke[c] \subseteq spoke'[c]
    /\ answered[c] => answered'[c]
    /\ Over(c) => Over(c)'

\* It captures at most one packet, and a SYN of a registered flow only.
Arrives ==
  \/ UNCHANGED queue
  \/ \E packet \in Packet :
       /\ queue' = Append(queue, packet)
       /\ Genuine(packet)'
       /\ packet.kind = "syn" => registered'[packet.seq]

\* So the queue keeps what is known of its packets and of their order.
LEMMA QueueKept ==
  ASSUME JudgeInv, TypeInv', Kept, Arrives, UNCHANGED held,
         \A c \in Conns : ps'[c].syn = ps[c].syn
  PROVE  PacketInv' /\ OrderInv'
<1> DEFINE
  Old(i) == i \in 1 .. Len(queue) /\ queue'[i] = queue[i]
  New(i) == /\ i = Len(queue')
            /\ (queue[i] \in Packet /\ Genuine(queue[i]))'
            /\ (queue[i].kind = "syn" => registered[queue[i].seq])'
<1>1. /\ \A i \in 1 .. Len(queue) : queue[i] \in Packet
      /\ held # None => held.packet \in Packet /\ held.owner \in Conns
  BY DEF JudgeInv, TypeInv, TypeOK
<1>2. \A packet \in Packet :
        /\ packet.seq \in Conns
        /\ Genuine(packet) => Genuine(packet)'
  BY DEF Kept, Genuine, Packet
<1>3. /\ \A i \in 1 .. Len(queue') : Old(i) \/ New(i)
      /\ \A i, j \in 1 .. Len(queue') : i < j => Old(i)
  <2>1. queue \in Seq(Packet)
    BY DEF JudgeInv, TypeInv, TypeOK
  <2>2. CASE UNCHANGED queue
    BY <2>2
  <2>3. CASE ~UNCHANGED queue
    <3>1. PICK packet \in Packet :
            /\ queue' = Append(queue, packet)
            /\ Genuine(packet)'
            /\ packet.kind = "syn" => registered'[packet.seq]
      BY <2>3 DEF Arrives
    <3>2. /\ Len(queue') = Len(queue) + 1 /\ Len(queue) \in Nat
          /\ queue'[Len(queue')] = packet
          /\ \A i \in 1 .. Len(queue) : queue'[i] = queue[i]
      BY <2>1, <3>1
    <3>3. ASSUME NEW i, i = Len(queue')
          PROVE  New(i)
      BY <3>1, <3>2, <3>3 DEF Genuine
    <3> HIDE DEF New
    <3> QED BY <3>2, <3>3
  <2> QED BY <2>2, <2>3
<1>4. PacketInv'
  <2>1. (\A i \in 1 .. Len(queue) : Genuine(queue[i]))'
    <3> SUFFICES ASSUME NEW i \in 1 .. Len(queue') PROVE Genuine(queue[i])'
      OBVIOUS
    <3>1. CASE Old(i)
      <4>1. Genuine(queue[i])'
        BY <1>1, <1>2, <3>1 DEF JudgeInv, PacketInv
      <4> QED BY <3>1, <4>1 DEF Genuine
    <3>2. CASE New(i)
      BY <3>2
    <3> QED BY <1>3, <3>1, <3>2
  <2>2. ASSUME held # None
        PROVE  /\ Genuine(held.packet)'
               /\ held.owner # held.packet.seq => Over(held.packet.seq)'
    BY <1>1, <1>2, <2>2 DEF JudgeInv, PacketInv, Kept
  <2> QED BY <2>1, <2>2 DEF PacketInv, Genuine, Over
<1>5. ASSUME NEW c \in Conns, registered'[c], sock[c] # "none", NEW i \in Nat, i >= 1, OnlyOwn(c, i)
      PROVE  OnlyOwn(c, i)'
  <2> SUFFICES ASSUME NEW j \in i .. Len(queue'),
                      queue'[j].kind = "syn", queue'[j].port = port'[c]
               PROVE  queue'[j].seq = c
    BY DEF OnlyOwn
  <2>1. j \in 1 .. Len(queue') /\ port'[c] = port[c]
    BY <1>5 DEF Kept
  <2>2. CASE Old(j)
    BY <1>5, <2>1, <2>2 DEF OnlyOwn
  <2>3. CASE New(j)
    <3>1. /\ queue'[j].seq \in Conns /\ registered'[queue'[j].seq]
          /\ port'[queue'[j].seq] = port'[c]
      BY <1>2, <2>3 DEF Genuine
    <3>2. port'[c] \in Ports
      BY <2>3 DEF Packet
    <3> QED BY <1>5, <3>1, <3>2 DEF TypeInv, RegInv, RegistryMatchesHandlers
  <2> QED BY <1>3, <2>1, <2>2, <2>3
<1>6. ASSUME NEW c \in Conns, registered'[c]
      PROVE  /\ SynSeen(c)' => OnlyOwn(c, 1)'
             /\ \A i \in 1 .. Len(queue') :
                  queue'[i].kind = "syn" /\ queue'[i].seq = c => OnlyOwn(c, i + 1)'
  <2>1. ASSUME SynSeen(c)'
        PROVE  OnlyOwn(c, 1)'
    <3>1. SynSeen(c)
      BY <2>1 DEF SynSeen, Meeting
    <3>2. sock[c] # "none"
      BY <3>1, WrongSeqAssumption DEF SynSeen, Meeting, JudgeInv, StateInv, PacketInv, Genuine
    <3>3. OnlyOwn(c, 1)
      BY <1>6, <3>1, <3>2 DEF JudgeInv, OrderInv, Kept
    <3> QED BY <1>5, <1>6, <3>2, <3>3
  <2>2. ASSUME NEW i \in 1 .. Len(queue'), queue'[i].kind = "syn", queue'[i].seq = c
        PROVE  OnlyOwn(c, i + 1)'
    <3>1. CASE i = Len(queue')
      BY <3>1 DEF OnlyOwn
    <3>2. CASE i # Len(queue')
      <4>1. Len(queue') \in Nat /\ i < Len(queue') /\ Len(queue') \in 1 .. Len(queue')
        BY <3>2 DEF TypeInv, TypeOK
      <4>2. i \in 1 .. Len(queue) /\ queue[i].kind = "syn" /\ queue[i].seq = c
        BY <1>3, <2>2, <4>1
      <4>3. sock[c] # "none"
        BY <4>2 DEF JudgeInv, PacketInv, Genuine
      <4>4. OnlyOwn(c, i + 1)
        BY <1>6, <4>2, <4>3 DEF JudgeInv, OrderInv, Kept
      <4> QED BY <1>5, <1>6, <4>3, <4>4
    <3> QED BY <3>1, <3>2
  <2> QED BY <2>1, <2>2
<1>7. (Meeting("syn") /\ held.owner # held.packet.seq)' => ps'[held'.owner].syn # held'.owner
  BY <1>1 DEF Meeting, JudgeInv, OrderInv
<1> QED BY <1>4, <1>6, <1>7 DEF OrderInv

\* What is known of the portStates and the wire holds on while they rest.
LEMMA JudgementKept ==
  ASSUME JudgeInv, Kept, UNCHANGED <<ps, goroutine, late, decoyed, answered, spoke>>
  PROVE  StateInv' /\ JudgedByOwnPackets'
<1>1. \A c \in Conns : ps[c].syn \in Conns \cup {None} /\ goroutine[c].isn \in Conns \cup {None}
  BY DEF JudgeInv, TypeInv, TypeOK, PortState, Goroutine
<1>2. StateInv'
  BY <1>1 DEF JudgeInv, StateInv, Mistaken, Kept
<1>3. JudgedByOwnPackets'
  BY DEF JudgeInv, JudgedByOwnPackets, ConfirmedByOwnPackets, FailsForOwnCause, Mistaken
<1> QED BY <1>2, <1>3

\* A handler's step: what it does to its own record, and that nothing else is its
\* business.
LEMMA HandlerMoves ==
  ASSUME JudgeInv, NEW c \in Conns, Handler(c)
  PROVE  /\ UNCHANGED <<ps, goroutine, held, late, decoyed, answered, spoke>>
         /\ \A d \in Conns :
              d # c => /\ hpc'[d] = hpc[d] /\ port'[d] = port[d] /\ sock'[d] = sock[d]
                       /\ registered'[d] = registered[d]
         /\ sock[c] # "none" => /\ sock'[c] # "none" /\ port'[c] = port[c]
                                /\ registered'[c] => registered[c]
         /\ Over(c) => Over(c)'
         /\ hpc'[c] \in {"start", "reserved", "registered"} => sock'[c] = "none"
<1> USE DEF Goto, Over, sniffVars, wireVars
<1>1. /\ hpc \in [Conns -> HandlerPCs] /\ port \in [Conns -> Ports \cup {None}]
      /\ registered \in [Conns -> BOOLEAN]
      /\ sock \in [Conns -> {"none", "syn", "established", "closed"}]
      /\ hpc[c] \in {"start", "reserved", "registered"} => sock[c] = "none"
      /\ hpc[c] = "unregistered" => ~registered[c]
  BY DEF JudgeInv, TypeInv, TypeOK, SocketInv, RegInv, HandlerInv, Free
<1>2. CASE \E p \in Ports : Reserve(c, p)
  BY <1>1, <1>2 DEF Reserve
<1>3. CASE ReserveFails(c)
  BY <1>1, <1>3 DEF ReserveFails
<1>4. CASE Register(c)
  BY <1>1, <1>4 DEF Register
<1>5. CASE Dial(c) \/ Handshake(c) \/ DialFails(c)
  BY <1>1, <1>5 DEF Dial, Handshake, DialFails
<1>6. CASE Confirmed(c) \/ Unconfirmed(c) \/ Write(c)
  BY <1>1, <1>6 DEF Confirmed, Unconfirmed, Write
<1>7. CASE FailCleanup(c)
  BY <1>1, <1>7 DEF FailCleanup
<1>8. CASE Return(c)
  BY <1>1, <1>8 DEF Return
<1>9. CASE Close(c)
  BY <1>1, <1>9 DEF Close
<1> QED BY <1>2, <1>3, <1>4, <1>5, <1>6, <1>7, <1>8, <1>9 DEF Handler

\* Its SYN and its ACK are captured as its own.
LEMMA HandlerArrives ==
  ASSUME JudgeInv, NEW c \in Conns, Handler(c)
  PROVE  Arrives
<1>1. CASE Dial(c) \/ Handshake(c)
  <2>1. registered[c] /\ port[c] \in Ports /\ UNCHANGED <<port, registered>> /\ sock'[c] # "none"
    BY <1>1 DEF Dial, Handshake, Goto, JudgeInv, TypeInv, TypeOK, RegInv, HandlerInv, Holding
  <2>2. PICK kind \in {"syn", "ack"} : Capture(kind, c)
    BY <1>1 DEF Dial, Handshake
  <2>3. PICK packet \in Packet : packet = [kind |-> kind, port |-> port[c], seq |-> c]
    BY <2>1 DEF Packet, PacketKinds
  <2>4. Genuine(packet)' /\ registered'[packet.seq]
    BY <2>1, <2>3 DEF Genuine
  <2>5. UNCHANGED queue \/ queue' = Append(queue, packet)
    BY <2>2, <2>3 DEF Capture
  <2> QED BY <2>4, <2>5 DEF Arrives
<1>2. CASE ~(Dial(c) \/ Handshake(c))
  BY <1>2 DEF Handler, Reserve, ReserveFails, Register, DialFails, Confirmed, Unconfirmed,
              Write, FailCleanup, Return, Close, sniffVars, Arrives
<1> QED BY <1>1, <1>2

LEMMA HandlerKeepsJudgeInv ==
  ASSUME JudgeInv, NEW c \in Conns, Handler(c)
  PROVE  JudgeInv'
<1>1. TypeInv'
  BY HandlerKeepsTypeInv DEF JudgeInv
<1>2. Kept
  BY HandlerMoves DEF Kept, Over
<1>3. SocketInv'
  BY HandlerMoves DEF JudgeInv, SocketInv
<1>4. PacketInv' /\ OrderInv'
  BY <1>1, <1>2, HandlerMoves, HandlerArrives, QueueKept
<1>5. StateInv' /\ JudgedByOwnPackets'
  BY <1>2, HandlerMoves, JudgementKept
<1> QED BY <1>1, <1>3, <1>4, <1>5 DEF JudgeInv

\* The server's steps and the network's reach a connection that has a socket, and
\* close at most that.
LEMMA ServerKeepsJudgeInv ==
  ASSUME JudgeInv, NEW c \in Conns, Server(c)
  PROVE  JudgeInv'
<1> USE DEF DuplicateAck, ServerData, AckAgain, Reset, Reachable, handlerVars
<1>1. UNCHANGED <<hpc, port, registered, ports, held, ps, goroutine, late, decoyed>>
  BY DEF Server, wireVars
<1>2. TypeInv'
  BY ServerKeepsTypeInv DEF JudgeInv
<1>3. /\ sock[c] # "none" /\ port[c] \in Ports
      /\ \A d \in Conns : sock[d] # "none" <=> sock'[d] # "none"
  BY DEF Server, JudgeInv, TypeInv, TypeOK, BoundInv
<1>4. /\ \A d \in Conns : spoke[d] \subseteq spoke'[d] /\ (answered[d] => answered'[d])
      /\ \A d \in Conns : answered'[d] => decoyed[d]
      /\ \A d \in Conns : "data" \in spoke'[d] => d \in Talkative
  <2>1. /\ spoke \in [Conns -> SUBSET {"data", "reset"}] /\ answered \in [Conns -> BOOLEAN]
        /\ \A d \in Conns : (answered[d] => decoyed[d]) /\ ("data" \in spoke[d] => d \in Talkative)
    BY DEF JudgeInv, TypeInv, TypeOK, StateInv
  <2>2. CASE DuplicateAck(c)
    BY <2>1, <2>2
  <2>3. CASE ServerData(c)
    BY <2>1, <2>3
  <2>4. CASE AckAgain(c)
    BY <2>1, <2>4 DEF wireVars
  <2>5. CASE Reset(c)
    BY <2>1, <2>5
  <2> QED BY <2>2, <2>3, <2>4, <2>5 DEF Server
<1>5. Kept
  BY <1>1, <1>3, <1>4 DEF Kept, Over
<1>6. Arrives
  <2>1. PICK kind \in PacketKinds \ {"syn"} :
          /\ Capture(kind, c)
          /\ kind = "inbound_rst" => "reset" \in spoke'[c]
          /\ kind = "inbound_ack" => answered'[c] \/ "data" \in spoke'[c]
    BY DEF Server, PacketKinds, JudgeInv, TypeInv, TypeOK
  <2>2. PICK packet \in Packet : packet = [kind |-> kind, port |-> port[c], seq |-> c]
    BY <1>3 DEF Packet
  <2>3. Genuine(packet)' /\ packet.kind # "syn"
    BY <1>1, <1>3, <2>1, <2>2 DEF Genuine
  <2>4. UNCHANGED queue \/ queue' = Append(queue, packet)
    BY <2>1, <2>2 DEF Capture
  <2> QED BY <2>3, <2>4 DEF Arrives
<1>7. SocketInv'
  BY <1>1, <1>3 DEF JudgeInv, SocketInv
<1>8. PacketInv' /\ OrderInv'
  BY <1>1, <1>2, <1>5, <1>6, QueueKept
<1>9. StateInv'
  <2>1. \A d \in Conns : ps[d].syn \in Conns \cup {None} /\ goroutine[d].isn \in Conns \cup {None}
    BY DEF JudgeInv, TypeInv, TypeOK, PortState, Goroutine
  <2> QED BY <1>1, <1>3, <1>4, <2>1 DEF JudgeInv, StateInv, Mistaken, Over
<1>10. JudgedByOwnPackets'
  BY <1>1, <1>4 DEF JudgeInv, JudgedByOwnPackets, ConfirmedByOwnPackets, FailsForOwnCause, Mistaken
<1> QED BY <1>2, <1>7, <1>8, <1>9, <1>10 DEF JudgeInv

\* A decoy more, for a flow whose portState noted it, or for one that is over.
LEMMA InjectingKeepsJudgeInv ==
  ASSUME JudgeInv, NEW c \in Conns, Injecting(c)
  PROVE  JudgeInv'
<1> USE DEF Inject, InjectFails, Reinject, StopInjecting, Ended, handlerVars, sniffVars, wireVars
<1>1. UNCHANGED <<hpc, port, registered, ports, sock, queue, held, late, answered, spoke>>
  BY DEF Injecting
<1>2. TypeInv'
  BY InjectingKeepsTypeInv DEF JudgeInv
<1>3. goroutine \in [Conns -> Goroutine] /\ ps \in [Conns -> PortState]
  BY DEF JudgeInv, TypeInv, TypeOK
<1>4. /\ \A d \in Conns : goroutine'[d].isn = goroutine[d].isn
      /\ goroutine[c].pc \in {"inject", "pause"}
      /\ \A d \in Conns : d # c => goroutine'[d].pc = goroutine[d].pc
  BY <1>3 DEF Injecting, Goroutine
<1>5. \A d \in Conns :
        /\ ps'[d].syn = ps[d].syn /\ ps'[d].fakeSent = ps[d].fakeSent
        /\ ps'[d].confirmed = ps[d].confirmed
        /\ ps'[d].failed => ps[d].failed \/ (d = c /\ goroutine'[c].pc = "failed")
  <2>1. CASE UNCHANGED ps
    BY <2>1
  <2>2. CASE InjectFails(c)
    <3>1. ps' = [ps EXCEPT ![c].failed = TRUE] /\ ps[c] \in PortState
      BY <1>3, <2>2
    <3>2. \A d \in Conns : d # c => ps'[d] = ps[d]
      BY <1>3, <3>1
    <3>3. /\ ps'[c].syn = ps[c].syn /\ ps'[c].fakeSent = ps[c].fakeSent
          /\ ps'[c].confirmed = ps[c].confirmed
      BY <1>3, <3>1 DEF PortState
    <3>4. goroutine'[c].pc = "failed"
      BY <1>3, <2>2 DEF Goroutine
    <3> QED BY <3>2, <3>3, <3>4
  <2> QED BY <2>1, <2>2 DEF Injecting
<1>6. Kept /\ Arrives
  BY <1>1 DEF Kept, Over, Arrives
<1>7. SocketInv'
  BY <1>1 DEF JudgeInv, SocketInv
<1>8. PacketInv' /\ OrderInv'
  BY <1>1, <1>2, <1>5, <1>6, QueueKept
<1>9. \A d \in Conns : decoyed'[d] => decoyed[d] \/ d = c \/ (Inject(c) /\ d = goroutine[c].isn)
  BY DEF Injecting, JudgeInv, TypeInv, TypeOK
<1>10. \A d \in Conns : decoyed[d] => decoyed'[d]
  BY DEF Injecting, JudgeInv, TypeInv, TypeOK
<1>11. StateInv'
  <2>1. ps[c].fakeSent /\ (goroutine[c].isn = c \/ Over(goroutine[c].isn))
    BY <1>3, <1>4 DEF JudgeInv, TypeInv, BoundInv, StateInv, Mistaken, Goroutine
  <2>2. \A d \in Conns : decoyed'[d] => ps'[d].fakeSent \/ Over(d)'
    BY <1>1, <1>5, <1>9, <2>1 DEF JudgeInv, StateInv, Over
  <2>3. \A d \in Conns : ps[d].syn \in Conns \cup {None} /\ goroutine[d].isn \in Conns \cup {None}
    BY <1>3 DEF PortState, Goroutine
  <2> QED BY <1>1, <1>4, <1>5, <1>10, <2>2, <2>3 DEF JudgeInv, StateInv, Mistaken, Over
<1>12. JudgedByOwnPackets'
  BY <1>1, <1>4, <1>5 DEF JudgeInv, JudgedByOwnPackets, ConfirmedByOwnPackets, FailsForOwnCause,
                          Mistaken
<1> QED BY <1>2, <1>7, <1>8, <1>11, <1>12 DEF JudgeInv

\* The packet that is taken meets the portState of its own connection, or its
\* connection has given its registration back.
LEMMA TakeKeepsJudgeInv ==
  ASSUME JudgeInv, SniffTake
  PROVE  JudgeInv'
<1> USE DEF handlerVars, wireVars
<1>1. UNCHANGED <<hpc, port, registered, ports, sock, ps, goroutine, late, decoyed, answered, spoke>>
  BY DEF SniffTake
<1>2. TypeInv'
  BY SniffKeepsTypeInv DEF JudgeInv, Sniff
<1>3. Kept
  BY <1>1 DEF Kept, Over
<1>4. /\ queue \in Seq(Packet) /\ queue # <<>> /\ queue' = Tail(queue)
      /\ 1 \in 1 .. Len(queue) /\ Head(queue) = queue[1] /\ queue[1] \in Packet
  BY DEF SniffTake, JudgeInv, TypeInv, TypeOK
<1>5. /\ Len(queue') + 1 = Len(queue) /\ Len(queue') \in Nat
      /\ \A i \in 1 .. Len(queue') : i + 1 \in 1 .. Len(queue) /\ queue'[i] = queue[i + 1]
  BY <1>4
<1>6. /\ queue[1].seq \in Conns /\ queue[1].port \in Ports /\ Genuine(queue[1])
      /\ sock[queue[1].seq] # "none" /\ port[queue[1].seq] = queue[1].port
  BY <1>4 DEF JudgeInv, PacketInv, Packet, Genuine
<1>7. ASSUME held' # None
      PROVE  /\ held'.packet = queue[1] /\ held'.owner \in Conns
             /\ ports[queue[1].port] = held'.owner
             /\ registered[held'.owner] /\ port[held'.owner] = queue[1].port
             /\ held'.owner # queue[1].seq => Over(queue[1].seq)
  <2>1. /\ held'.packet = queue[1] /\ held'.owner = ports[queue[1].port]
        /\ ports[queue[1].port] # None
    BY <1>4, <1>7 DEF SniffTake
  <2>2. held'.owner \in Conns
    BY <1>6, <2>1 DEF JudgeInv, TypeInv, TypeOK
  <2>3. registered[held'.owner] /\ port[held'.owner] = queue[1].port
    BY <1>6, <2>1, <2>2 DEF JudgeInv, TypeInv, RegInv, RegistryMatchesHandlers
  <2>4. ASSUME held'.owner # queue[1].seq
        PROVE  Over(queue[1].seq)
    <3>1. ~registered[queue[1].seq]
      BY <1>6, <2>1, <2>4 DEF JudgeInv, TypeInv, RegInv, RegistryMatchesHandlers
    <3>2. hpc[queue[1].seq] \in HandlerPCs /\ hpc[queue[1].seq] \notin {"start", "reserved", "registered"}
      BY <1>6 DEF JudgeInv, SocketInv, TypeInv, TypeOK
    <3> QED BY <1>6, <3>1, <3>2 DEF JudgeInv, TypeInv, RegInv, HandlerInv, Holding, HandlerPCs, Over
  <2> QED BY <2>1, <2>2, <2>3, <2>4
<1>8. PacketInv'
  <2>1. (\A i \in 1 .. Len(queue) : Genuine(queue[i]))'
    BY <1>1, <1>5 DEF JudgeInv, PacketInv, Genuine
  <2>2. (held # None => /\ Genuine(held.packet)
                        /\ held.owner # held.packet.seq => Over(held.packet.seq))'
    BY <1>1, <1>6, <1>7 DEF Genuine, Over
  <2> QED BY <2>1, <2>2 DEF PacketInv
<1>9. ASSUME NEW c \in Conns, NEW i \in Nat, i >= 1, OnlyOwn(c, i + 1)
      PROVE  OnlyOwn(c, i)'
  BY <1>1, <1>5, <1>9 DEF OnlyOwn
<1>10. ASSUME NEW c \in Conns, registered[c]
       PROVE  /\ SynSeen(c)' => OnlyOwn(c, 1)'
              /\ \A i \in 1 .. Len(queue') :
                   queue'[i].kind = "syn" /\ queue'[i].seq = c => OnlyOwn(c, i + 1)'
  <2>1. ASSUME SynSeen(c)'
        PROVE  OnlyOwn(c, 1)'
    <3>1. CASE ps[c].syn = c
      <4>1. OnlyOwn(c, 1)
        BY <1>10, <3>1 DEF SynSeen, JudgeInv, OrderInv
      <4>2. OnlyOwn(c, 2)
        BY <4>1 DEF OnlyOwn
      <4> QED BY <1>9, <4>2
    <3>2. CASE ps[c].syn # c
      <4>1. queue[1].kind = "syn" /\ queue[1].seq = c
        BY <1>1, <1>7, <2>1, <3>2 DEF SynSeen, Meeting
      <4>2. OnlyOwn(c, 2)
        BY <1>4, <1>10, <4>1 DEF JudgeInv, OrderInv
      <4> QED BY <1>9, <4>2
    <3> QED BY <3>1, <3>2
  <2>2. ASSUME NEW i \in 1 .. Len(queue'), queue'[i].kind = "syn", queue'[i].seq = c
        PROVE  OnlyOwn(c, i + 1)'
    <3>1. OnlyOwn(c, (i + 1) + 1)
      BY <1>5, <1>10, <2>2 DEF JudgeInv, OrderInv
    <3> QED BY <1>9, <3>1
  <2> QED BY <2>1, <2>2
<1>11. ASSUME Meeting("syn")', held'.owner # held'.packet.seq
       PROVE  ps'[held'.owner].syn # held'.owner
  <2>1. held' # None /\ queue[1].kind = "syn" /\ held'.owner # queue[1].seq
    BY <1>7, <1>11 DEF Meeting
  <2>2. ~OnlyOwn(held'.owner, 1)
    BY <1>4, <1>7, <2>1 DEF OnlyOwn
  <2>3. ~SynSeen(held'.owner)
    BY <1>7, <2>1, <2>2 DEF JudgeInv, OrderInv
  <2> QED BY <1>1, <2>3 DEF SynSeen
<1>12. OrderInv'
  BY <1>1, <1>10, <1>11 DEF OrderInv
<1>13. SocketInv'
  BY <1>1 DEF JudgeInv, SocketInv
<1>14. StateInv' /\ JudgedByOwnPackets'
  BY <1>1, <1>3, JudgementKept
<1> QED BY <1>2, <1>8, <1>12, <1>13, <1>14 DEF JudgeInv

\* What the packet changes at the portState it meets.
LEMMA ApplyMoves ==
  ASSUME JudgeInv, SniffApply,
         NEW c, c = held.owner, NEW seq, seq = held.packet.seq,
         NEW kind, kind = held.packet.kind
  PROVE  /\ c \in Conns /\ seq \in Conns
         /\ \A d \in Conns :
              d # c => ps'[d] = ps[d] /\ goroutine'[d] = goroutine[d] /\ late'[d] = late[d]
         /\ late'[c] = {} => late[c] = {} /\ (seq = c \/ ps' = ps)
         /\ \/ /\ kind = "syn"
               /\ ps'[c].syn = seq /\ goroutine'[c] = goroutine[c]
               /\ ps'[c].fakeSent = ps[c].fakeSent /\ ps'[c].confirmed = ps[c].confirmed
               /\ ps'[c].failed = ps[c].failed
            \/ /\ kind = "ack" /\ ~ps[c].fakeSent /\ ps[c].syn = seq
               /\ ps'[c].syn = ps[c].syn /\ ps'[c].confirmed = ps[c].confirmed
               /\ ps'[c].failed = ps[c].failed
               /\ ps'[c].fakeSent
               /\ goroutine'[c].pc = "inject" /\ goroutine'[c].isn = seq
            \/ /\ kind \in {"ack", "inbound_ack", "inbound_rst"}
               /\ ps'[c].syn = ps[c].syn /\ ps'[c].fakeSent = ps[c].fakeSent
               /\ goroutine'[c] = goroutine[c]
               /\ ps'[c].confirmed =>
                    \/ ps[c].confirmed
                    \/ kind = "inbound_ack" /\ ps[c].fakeSent /\ ps[c].syn = seq
               /\ ps'[c].failed =>
                    \/ ps[c].failed
                    \/ kind = "inbound_rst"
                    \/ ps[c].syn \notin {None, seq}
<1>1. c \in Conns /\ seq \in Conns /\ kind \in PacketKinds
  BY DEF SniffApply, JudgeInv, TypeInv, TypeOK, Packet
<1>2. /\ ps \in [Conns -> PortState] /\ goroutine \in [Conns -> Goroutine]
      /\ late \in [Conns -> SUBSET PacketKinds]
      /\ ps[c] \in PortState /\ goroutine[c] \in Goroutine
  BY <1>1 DEF JudgeInv, TypeInv, TypeOK
<1>3. /\ \A d \in Conns : d # c => late'[d] = late[d]
      /\ late'[c] = {} => late[c] = {} /\ (seq = c \/ ps' = ps)
  <2>1. late' = IF seq = c \/ ps' = ps THEN late ELSE [late EXCEPT ![c] = @ \cup {kind}]
    BY DEF SniffApply
  <2> QED BY <1>1, <1>2, <2>1
<1>4. CASE kind = "syn" /\ OnSyn(c, seq)
  <2>1. ps' = [ps EXCEPT ![c].syn = seq] /\ goroutine' = goroutine
    BY <1>4 DEF OnSyn
  <2> QED BY <1>1, <1>2, <1>3, <1>4, <2>1 DEF PortState
<1>5. CASE kind = "ack" /\ OnAck(c, seq)
  <2>1. CASE ps[c].fakeSent \/ ps[c].syn = None
    <3>1. UNCHANGED <<ps, goroutine>>
      BY <1>1, <1>2, <1>5, <2>1, WrongSeqAssumption DEF OnAck
    <3> QED BY <1>1, <1>3, <1>5, <3>1
  <2>2. CASE ~ps[c].fakeSent /\ ps[c].syn # None /\ ps[c].syn = seq
    <3>1. /\ ps' = [ps EXCEPT ![c].fakeSent = TRUE]
          /\ goroutine' = [goroutine EXCEPT ![c].pc = "inject", ![c].isn = seq]
      BY <1>5, <2>2 DEF OnAck
    <3>2. /\ \A d \in Conns : d # c => ps'[d] = ps[d] /\ goroutine'[d] = goroutine[d]
          /\ goroutine'[c].pc = "inject" /\ goroutine'[c].isn = seq
      BY <1>1, <1>2, <3>1 DEF Goroutine
    <3>3. /\ ps'[c].syn = ps[c].syn /\ ps'[c].confirmed = ps[c].confirmed
          /\ ps'[c].failed = ps[c].failed /\ ps'[c].fakeSent
      BY <1>1, <1>2, <3>1 DEF PortState
    <3> QED BY <1>1, <1>3, <1>5, <2>2, <3>2, <3>3
  <2>3. CASE ~ps[c].fakeSent /\ ps[c].syn # None /\ ps[c].syn # seq
    <3>1. /\ ps' = [ps EXCEPT ![c].mismatch = TRUE, ![c].failed = ps[c].failed \/ ps[c].mismatch]
          /\ goroutine' = goroutine
      BY <1>5, <2>3 DEF OnAck
    <3>2. \A d \in Conns : d # c => ps'[d] = ps[d]
      BY <1>1, <1>2, <3>1
    <3>3. /\ ps'[c].syn = ps[c].syn /\ ps'[c].fakeSent = ps[c].fakeSent
          /\ ps'[c].confirmed = ps[c].confirmed
      BY <1>1, <1>2, <3>1 DEF PortState
    <3> QED BY <1>1, <1>3, <1>5, <2>3, <3>1, <3>2, <3>3
  <2> QED BY <2>1, <2>2, <2>3
<1>6. CASE kind = "inbound_ack" /\ OnInboundAck(c, seq)
  <2>1. /\ ps' = [ps EXCEPT ![c].confirmed = ps[c].confirmed \/ (ps[c].fakeSent /\ ps[c].syn = seq)]
        /\ goroutine' = goroutine
    BY <1>6 DEF OnInboundAck
  <2>2. \A d \in Conns : d # c => ps'[d] = ps[d]
    BY <1>1, <1>2, <2>1
  <2>3. /\ ps'[c].syn = ps[c].syn /\ ps'[c].fakeSent = ps[c].fakeSent
        /\ ps'[c].failed = ps[c].failed
        /\ ps'[c].confirmed => ps[c].confirmed \/ (ps[c].fakeSent /\ ps[c].syn = seq)
    BY <1>1, <1>2, <2>1 DEF PortState
  <2> QED BY <1>1, <1>3, <1>6, <2>1, <2>2, <2>3
<1>7. CASE kind = "inbound_rst" /\ OnInboundRst(c)
  <2>1. ps' = [ps EXCEPT ![c].failed = TRUE] /\ goroutine' = goroutine
    BY <1>7 DEF OnInboundRst
  <2> QED BY <1>1, <1>2, <1>3, <1>7, <2>1 DEF PortState
<1> QED BY <1>4, <1>5, <1>6, <1>7 DEF SniffApply

\* A packet of the flow itself says what is true of it anyway; one of another flow
\* leaves its mark, and cannot put the sequence number of a started decoy wrong.
LEMMA ApplyKeepsJudgeInv ==
  ASSUME JudgeInv, SniffApply
  PROVE  JudgeInv'
<1> USE DEF handlerVars, wireVars
<1>1. UNCHANGED <<hpc, port, registered, ports, sock, queue, decoyed, answered, spoke>> /\ held' = None
  BY DEF SniffApply
<1>2. TypeInv'
  BY SniffKeepsTypeInv DEF JudgeInv, Sniff
<1>3. PICK c, seq, kind : c = held.owner /\ seq = held.packet.seq /\ kind = held.packet.kind
  OBVIOUS
<1>4. /\ c \in Conns /\ seq \in Conns
      /\ \A d \in Conns :
           d # c => ps'[d] = ps[d] /\ goroutine'[d] = goroutine[d] /\ late'[d] = late[d]
      /\ late'[c] = {} => late[c] = {} /\ (seq = c \/ ps' = ps)
      /\ ps[c].syn \in Conns \cup {None} /\ goroutine[c].isn \in Conns \cup {None}
  BY <1>3, ApplyMoves DEF JudgeInv, TypeInv, TypeOK, PortState, Goroutine
<1>5. /\ sock[seq] # "none"
      /\ kind = "inbound_rst" => "reset" \in spoke[seq]
      /\ kind = "inbound_ack" => answered[seq] \/ "data" \in spoke[seq]
      /\ c # seq => Over(seq)
      /\ kind = "syn" /\ c # seq => ps[c].syn # c
  BY <1>3 DEF SniffApply, JudgeInv, PacketInv, Genuine, OrderInv, Meeting
<1>6. /\ ps[c].syn # None => sock[ps[c].syn] # "none"
      /\ ps[c].syn \notin {None, c} => late[c] # {}
      /\ ps[c].fakeSent <=> goroutine[c].isn # None
      /\ goroutine[c].isn = c => ps[c].syn = c
      /\ goroutine[c].isn \notin {None, c} => Over(goroutine[c].isn)
      /\ ps[c].confirmed => ps[c].fakeSent
      /\ decoyed[c] => ps[c].fakeSent \/ Over(c)
      /\ answered[c] => decoyed[c]
      /\ "data" \in spoke[c] => c \in Talkative
      /\ ps[c].confirmed /\ goroutine[c].isn \in {None, c} => answered[c] \/ "data" \in spoke[c]
      /\ ps[c].failed /\ late[c] = {} => "reset" \in spoke[c] \/ goroutine[c].pc = "failed"
      /\ goroutine[c].pc # "none" => ps[c].fakeSent
  BY <1>4 DEF JudgeInv, StateInv, Mistaken, JudgedByOwnPackets, ConfirmedByOwnPackets,
              FailsForOwnCause, TypeInv, BoundInv
<1> DEFINE
  Good ==
    /\ ps'[c].syn # None => sock[ps'[c].syn] # "none"
    /\ ps'[c].syn \notin {None, c} => late'[c] # {}
    /\ ps'[c].fakeSent <=> goroutine'[c].isn # None
    /\ goroutine'[c].isn = c => ps'[c].syn = c
    /\ goroutine'[c].isn \notin {None, c} => Over(goroutine'[c].isn)
    /\ ps'[c].confirmed => ps'[c].fakeSent
    /\ decoyed[c] => ps'[c].fakeSent \/ Over(c)
    /\ ps'[c].confirmed /\ goroutine'[c].isn \in {None, c} => answered[c] \/ "data" \in spoke[c]
    /\ ps'[c].failed /\ late'[c] = {} => "reset" \in spoke[c] \/ goroutine'[c].pc = "failed"
<1>7. Good
  <2>1. CASE /\ kind = "syn"
             /\ ps'[c].syn = seq /\ goroutine'[c] = goroutine[c]
             /\ ps'[c].fakeSent = ps[c].fakeSent /\ ps'[c].confirmed = ps[c].confirmed
             /\ ps'[c].failed = ps[c].failed
    <3>1. seq # c => late'[c] # {}
      BY <1>4, <1>6, <2>1, WrongSeqAssumption
    <3>2. goroutine[c].isn = c => seq = c
      BY <1>5, <1>6, <2>1
    <3> QED BY <1>4, <1>5, <1>6, <2>1, <3>1, <3>2
  <2>2. CASE /\ kind = "ack" /\ ~ps[c].fakeSent /\ ps[c].syn = seq
             /\ ps'[c].syn = ps[c].syn /\ ps'[c].confirmed = ps[c].confirmed
             /\ ps'[c].failed = ps[c].failed
             /\ ps'[c].fakeSent
             /\ goroutine'[c].pc = "inject" /\ goroutine'[c].isn = seq
    <3>1. goroutine[c].pc = "none" /\ ~ps[c].confirmed
      BY <1>6, <2>2
    <3>2. goroutine'[c].isn # None
      BY <1>4, <2>2, WrongSeqAssumption
    <3> QED BY <1>4, <1>5, <1>6, <2>2, <3>1, <3>2
  <2>3. CASE /\ kind \in {"ack", "inbound_ack", "inbound_rst"}
             /\ ps'[c].syn = ps[c].syn /\ ps'[c].fakeSent = ps[c].fakeSent
             /\ goroutine'[c] = goroutine[c]
             /\ ps'[c].confirmed =>
                  \/ ps[c].confirmed
                  \/ kind = "inbound_ack" /\ ps[c].fakeSent /\ ps[c].syn = seq
             /\ ps'[c].failed =>
                  \/ ps[c].failed
                  \/ kind = "inbound_rst"
                  \/ ps[c].syn \notin {None, seq}
    <3>1. ps'[c].confirmed /\ goroutine[c].isn \in {None, c} => answered[c] \/ "data" \in spoke[c]
      BY <1>5, <1>6, <2>3
    <3>2. ASSUME ps'[c].failed, late'[c] = {}
          PROVE  "reset" \in spoke[c] \/ goroutine[c].pc = "failed"
      <4>1. CASE ps[c].failed
        BY <1>4, <1>6, <3>2, <4>1
      <4>2. CASE ~ps[c].failed
        <5>1. ps' # ps
          BY <3>2, <4>2
        <5>2. seq = c /\ late[c] = {}
          BY <1>4, <3>2, <5>1
        <5>3. ps[c].syn \in {None, c}
          BY <1>6, <5>2
        <5> QED BY <1>5, <2>3, <3>2, <4>2, <5>2, <5>3
      <4> QED BY <4>1, <4>2
    <3>3. ps'[c].syn \notin {None, c} => late'[c] # {}
      BY <1>4, <1>6, <2>3
    <3> QED BY <1>6, <2>3, <3>1, <3>2, <3>3
  <2> HIDE DEF Good
  <2> QED BY <1>3, <2>1, <2>2, <2>3, ApplyMoves
<1>8. PacketInv'
  BY <1>1 DEF JudgeInv, PacketInv, Genuine
<1>9. OrderInv'
  <2>1. ASSUME NEW d \in Conns, ps'[d].syn = d
        PROVE  SynSeen(d)
    <3>1. CASE d = c
      <4>1. ps[c].syn = c \/ (kind = "syn" /\ seq = c)
        BY <1>3, <2>1, <3>1, ApplyMoves
      <4> QED BY <1>3, <3>1, <4>1 DEF SynSeen, Meeting, SniffApply
    <3>2. CASE d # c
      BY <1>4, <2>1, <3>2 DEF SynSeen
    <3> QED BY <3>1, <3>2
  <2>2. ASSUME NEW d \in Conns, registered[d]
        PROVE  /\ SynSeen(d)' => OnlyOwn(d, 1)
               /\ \A i \in 1 .. Len(queue) :
                    queue[i].kind = "syn" /\ queue[i].seq = d => OnlyOwn(d, i + 1)
    BY <1>1, <2>1, <2>2 DEF JudgeInv, OrderInv, SynSeen, Meeting
  <2> QED BY <1>1, <2>2 DEF OrderInv, OnlyOwn, Meeting
<1>10. SocketInv'
  BY <1>1 DEF JudgeInv, SocketInv
<1>11. StateInv'
  <2>1. \A d \in Conns : d # c =>
          /\ ps'[d] = ps[d] /\ goroutine'[d] = goroutine[d] /\ late'[d] = late[d]
    BY <1>4
  <2>2. answered[c] => decoyed[c]
    BY <1>6
  <2> QED BY <1>1, <1>4, <1>6, <1>7, <2>1 DEF JudgeInv, StateInv, Mistaken, Over
<1>12. JudgedByOwnPackets'
  <2>1. goroutine'[c].isn \in {None, c} /\ ps'[c].confirmed => ps'[c].syn = c /\ ps'[c].fakeSent
    BY <1>7
  <2> QED BY <1>1, <1>4, <1>7, <2>1 DEF JudgeInv, JudgedByOwnPackets, ConfirmedByOwnPackets,
                                    FailsForOwnCause, Mistaken
<1> QED BY <1>2, <1>8, <1>9, <1>10, <1>11, <1>12 DEF JudgeInv

LEMMA NextJudgeInv == JudgeInv /\ [Next]_vars => JudgeInv'
<1> SUFFICES ASSUME JudgeInv, [Next]_vars PROVE JudgeInv'
  OBVIOUS
<1>1. CASE UNCHANGED vars
  <2>1. TypeInv'
    BY <1>1 DEF vars, handlerVars, sniffVars, wireVars, JudgeInv, TypeInv, RegInv, RegistryType,
                HandlerInv, RegistryMatchesHandlers, TypeOK, BoundInv
  <2>2. Kept /\ Arrives
    BY <1>1 DEF vars, handlerVars, sniffVars, wireVars, Kept, Over, Arrives
  <2>3. UNCHANGED <<hpc, sock, held, ps, goroutine, late, decoyed, answered, spoke>>
    BY <1>1 DEF vars, handlerVars, sniffVars, wireVars
  <2>4. SocketInv'
    BY <2>3 DEF JudgeInv, SocketInv
  <2> QED BY <2>1, <2>2, <2>3, <2>4, QueueKept, JudgementKept DEF JudgeInv
<1>2. CASE Sniff
  BY <1>2, TakeKeepsJudgeInv, ApplyKeepsJudgeInv DEF Sniff
<1> QED
  BY <1>1, <1>2, HandlerKeepsJudgeInv, InjectingKeepsJudgeInv, ServerKeepsJudgeInv DEF Next

\* Late packets of a port's earlier flows or not, the sniffer confirms a flow whose
\* decoy was its own for that flow's own packets only, and fails a flow that no late
\* packet touched for a cause of its own (rawinjector_linux.go:669-828).
THEOREM JudgesByOwnPackets == Spec => []JudgedByOwnPackets
<1>1. JudgeInv => JudgedByOwnPackets
  BY DEF JudgeInv
<1> QED BY <1>1, NextJudgeInv, InitJudgeInv, PTL DEF Spec

-----------------------------------------------------------------------------
(* The gate.  The payload of a flow whose server waits for the client      *)
(* leaves behind an answered decoy, because the handler writes once its    *)
(* own portState is confirmed, and JudgeInv says what confirmed it.        *)

\* The payload is written where Write writes it, on a confirmed flow.
GateInv ==
  \A c \in Conns :
    /\ hpc[c] = "writing" => ps[c].confirmed
    /\ payload[c] => ps[c].fakeSent /\ hpc[c] \in {"relay", "returning", "done"}
    /\ hpc[c] = "relay" => payload[c]

LEMMA InitGateInv == Init => GateInv
  BY DEF Init, GateInv

\* A handler writes once its own portState is confirmed.
LEMMA ConfirmedIsOwn ==
  ASSUME JudgeInv, NEW c \in Conns, Confirmed(c)
  PROVE  ps[c].confirmed
<1>1. hpc[c] = "waiting" /\ ports[port[c]] # None /\ ps[ports[port[c]]].confirmed
  BY DEF Confirmed, Goto
<1>2. registered[c] /\ port[c] \in Ports
  BY <1>1 DEF JudgeInv, TypeInv, RegInv, HandlerInv, Holding
<1>3. ports[port[c]] = c
  BY <1>1, <1>2 DEF JudgeInv, TypeInv, RegInv, RegistryMatchesHandlers
<1> QED BY <1>1, <1>3

\* A handler's step leaves the payload alone, or decides on it.
LEMMA HandlerDecides ==
  ASSUME JudgeInv, GateInv, NEW c \in Conns, Handler(c)
  PROVE  /\ \A d \in Conns : d # c => payload'[d] = payload[d]
         /\ \/ /\ payload'[c] = payload[c]
               /\ hpc'[c] # "relay"
               /\ hpc[c] \in Dropping \cup {"relay"} => hpc'[c] \in Dropping
               /\ payload[c] => hpc'[c] \in {"returning", "done"}
               /\ hpc'[c] = "writing" => Confirmed(c)
            \/ /\ hpc[c] = "writing"
               /\ hpc'[c] \in {"relay", "failing"}
               /\ payload'[c] <=> hpc'[c] = "relay"
<1> USE DEF Goto, Dropping
<1>1. /\ hpc \in [Conns -> HandlerPCs] /\ payload \in [Conns -> BOOLEAN]
      /\ payload[c] => hpc[c] \in {"relay", "returning", "done"}
      /\ hpc[c] = "unregistered" => ~registered[c]
  BY DEF JudgeInv, TypeInv, TypeOK, GateInv, RegInv, HandlerInv, Free
<1>2. CASE \E p \in Ports : Reserve(c, p)
  BY <1>1, <1>2 DEF Reserve
<1>3. CASE ReserveFails(c)
  BY <1>1, <1>3 DEF ReserveFails
<1>4. CASE Register(c)
  BY <1>1, <1>4 DEF Register
<1>5. CASE Dial(c) \/ Handshake(c) \/ DialFails(c)
  BY <1>1, <1>5 DEF Dial, Handshake, DialFails
<1>6. CASE Confirmed(c) \/ Unconfirmed(c)
  BY <1>1, <1>6 DEF Confirmed, Unconfirmed
<1>7. CASE Write(c)
  <2>1. /\ hpc[c] = "writing"
        /\ hpc' = [hpc EXCEPT ![c] = IF sock[c] = "established" THEN "relay" ELSE "failing"]
        /\ payload' = [payload EXCEPT ![c] = IF sock[c] = "established" THEN TRUE ELSE FALSE]
    BY <1>7 DEF Write
  <2> QED BY <1>1, <2>1
<1>8. CASE FailCleanup(c)
  BY <1>1, <1>8 DEF FailCleanup
<1>9. CASE Return(c)
  BY <1>1, <1>9 DEF Return
<1>10. CASE Close(c)
  BY <1>1, <1>10 DEF Close
<1> QED BY <1>2, <1>3, <1>4, <1>5, <1>6, <1>7, <1>8, <1>9, <1>10 DEF Handler

\* No step takes back that a flow is confirmed, or that its decoy went out.
LEMMA NothingUndone ==
  ASSUME JudgeInv, [Next]_vars, NEW c \in Conns
  PROVE  (ps[c].confirmed => ps'[c].confirmed) /\ (ps[c].fakeSent => ps'[c].fakeSent)
<1>1. CASE \E d \in Conns : Handler(d) \/ Server(d)
  <2>1. UNCHANGED ps
    BY <1>1, HandlerMoves DEF Server, DuplicateAck, ServerData, AckAgain, Reset
  <2> QED BY <2>1
<1>2. CASE \E d \in Conns : Injecting(d)
  <2>1. PICK d \in Conns : ps' = ps \/ ps' = [ps EXCEPT ![d].failed = TRUE]
    BY <1>2 DEF Injecting, Inject, InjectFails, Reinject, StopInjecting
  <2>2. ps \in [Conns -> PortState]
    BY DEF JudgeInv, TypeInv, TypeOK
  <2> QED BY <2>1, <2>2 DEF PortState
<1>3. CASE SniffTake \/ UNCHANGED vars
  BY <1>3 DEF SniffTake, vars
<1>4. CASE SniffApply
  <2>1. PICK d, seq, kind : d = held.owner /\ seq = held.packet.seq /\ kind = held.packet.kind
    OBVIOUS
  <2>2. ps \in [Conns -> PortState] /\ held.owner \in Conns /\ held.packet.seq \in Conns
    BY <1>4 DEF SniffApply, JudgeInv, TypeInv, TypeOK, Packet
  <2>3. \/ ps' = ps
        \/ ps' = [ps EXCEPT ![d].syn = seq]
        \/ ps' = [ps EXCEPT ![d].fakeSent = TRUE]
        \/ ps' = [ps EXCEPT ![d].mismatch = TRUE, ![d].failed = ps[d].failed \/ ps[d].mismatch]
        \/ ps' = [ps EXCEPT ![d].confirmed = ps[d].confirmed \/ (ps[d].fakeSent /\ ps[d].syn = seq)]
        \/ ps' = [ps EXCEPT ![d].failed = TRUE]
    BY <1>4, <2>1 DEF SniffApply, OnSyn, OnAck, OnInboundAck, OnInboundRst
  <2> QED BY <2>1, <2>2, <2>3 DEF PortState
<1> QED BY <1>1, <1>2, <1>3, <1>4 DEF Next, Sniff

\* Only the handlers touch the payload and their own locations.
LEMMA OthersKeepHandlers ==
  ASSUME Sniff \/ (\E c \in Conns : Injecting(c) \/ Server(c)) \/ UNCHANGED vars
  PROVE  UNCHANGED <<hpc, payload>>
  BY DEF Sniff, SniffTake, SniffApply, Injecting, Inject, InjectFails, Reinject, StopInjecting,
         Server, DuplicateAck, ServerData, AckAgain, Reset, handlerVars, vars

LEMMA NextGateInv ==
  ASSUME JudgeInv, GateInv, [Next]_vars
  PROVE  GateInv'
<1>1. CASE UNCHANGED <<hpc, payload>>
  BY <1>1, NothingUndone DEF GateInv
<1>2. ASSUME NEW c \in Conns, Handler(c)
      PROVE  GateInv'
  <2>1. /\ UNCHANGED ps
        /\ \A d \in Conns : d # c => hpc'[d] = hpc[d] /\ payload'[d] = payload[d]
    BY <1>2, HandlerMoves, HandlerDecides
  <2>2. /\ hpc'[c] = "writing" => ps[c].confirmed
        /\ payload'[c] => ps[c].fakeSent /\ hpc'[c] \in {"relay", "returning", "done"}
        /\ hpc'[c] = "relay" => payload'[c]
    <3>1. ps[c].confirmed => ps[c].fakeSent
      BY DEF JudgeInv, StateInv
    <3> QED BY <1>2, <3>1, HandlerDecides, ConfirmedIsOwn DEF GateInv
  <2> QED BY <2>1, <2>2 DEF GateInv
<1> QED BY <1>1, <1>2, OthersKeepHandlers DEF Next

gateNow == [c \in Waiting |-> GateOf(c)]

\* A move of one connection's gate, as StrictGate allows it.
GateMoves(c) ==
  \/ GateOf(c)' = GateOf(c)
  \/ GateOf(c) = "closed" /\ GateOf(c)' \in {"decoyed", "mistaken"}
  \/ GateOf(c) = "decoyed" /\ GateOf(c)' = "answered"
  \/ GateOf(c) = "answered" /\ GateOf(c)' = "open"
  \/ GateOf(c) \in {"closed", "decoyed", "answered", "mistaken"} /\ GateOf(c)' = "dropped"

LEMMA MovesAreSteps ==
  ASSUME NEW c \in Waiting, GateMoves(c),
         \A d \in Waiting : d # c => GateOf(d)' = GateOf(d)
  PROVE  [Gate!Next]_gateNow
<1>1. gateNow[c] = GateOf(c) /\ gateNow' = [gateNow EXCEPT ![c] = GateOf(c)']
  <2> DEFINE Now(d) == GateOf(d)
             Then(d) == GateOf(d)'
  <2>1. gateNow = [d \in Waiting |-> Now(d)] /\ gateNow' = [d \in Waiting |-> Then(d)]
    BY DEF gateNow
  <2>2. \A d \in Waiting : d # c => Then(d) = Now(d)
    OBVIOUS
  <2> HIDE DEF Now, Then
  <2>3. gateNow[c] = Now(c) /\ gateNow' = [gateNow EXCEPT ![c] = Then(c)]
    BY <2>1, <2>2
  <2> QED BY <2>3 DEF Now, Then
<1> QED
  BY <1>1 DEF GateMoves, gateNow, Gate!Next, Gate!Decoy, Gate!Answer, Gate!Open, Gate!Mistake,
              Gate!Drop, Gate!Pass

\* What a gate depends on.
LEMMA GateKept ==
  ASSUME NEW c \in Conns,
         payload'[c] = payload[c], hpc'[c] \in Dropping <=> hpc[c] \in Dropping,
         answered'[c] = answered[c], decoyed'[c] = decoyed[c],
         goroutine'[c].isn = goroutine[c].isn
  PROVE  GateOf(c)' = GateOf(c)
  BY DEF GateOf, Mistaken

\* A handler's step leaves the gate, drops its connection, or opens the gate
\* behind an answer.
LEMMA HandlerMovesGate ==
  ASSUME JudgeInv, GateInv, NEW c \in Conns, Handler(c)
  PROVE  [Gate!Next]_gateNow
<1>1. UNCHANGED <<ps, goroutine, decoyed, answered, spoke>>
  BY HandlerMoves
<1>2. \A d \in Waiting : d # c => GateOf(d)' = GateOf(d)
  BY <1>1, HandlerMoves, HandlerDecides, GateKept DEF Waiting
<1>3. CASE c \notin Waiting
  BY <1>2, <1>3 DEF gateNow
<1>4. ASSUME c \in Waiting
      PROVE  GateMoves(c)
  <2>1. CASE payload'[c] = payload[c]
    <3>1. CASE payload[c]
      <4>1. GateOf(c)' = GateOf(c)
        BY <1>1, <2>1, <3>1 DEF GateOf, Mistaken
      <4> QED BY <4>1 DEF GateMoves
    <3>2. CASE ~payload[c] /\ hpc[c] \in Dropping
      <4>1. hpc'[c] \in Dropping
        BY <2>1, <3>2, HandlerDecides DEF Dropping
      <4>2. GateOf(c)' = GateOf(c)
        BY <2>1, <3>2, <4>1 DEF GateOf
      <4> QED BY <4>2 DEF GateMoves
    <3>3. CASE ~payload[c] /\ hpc[c] \notin Dropping
      <4>1. GateOf(c) \in {"closed", "decoyed", "answered", "mistaken"}
        BY <3>3 DEF GateOf
      <4>2. CASE hpc'[c] \in Dropping
        <5>1. GateOf(c)' = "dropped"
          BY <2>1, <3>3, <4>2 DEF GateOf
        <5> QED BY <4>1, <5>1 DEF GateMoves
      <4>3. CASE hpc'[c] \notin Dropping
        <5>1. GateOf(c)' = GateOf(c)
          BY <1>1, <2>1, <3>3, <4>3, GateKept
        <5> QED BY <5>1 DEF GateMoves
      <4> QED BY <4>2, <4>3
    <3> QED BY <3>1, <3>2, <3>3
  <2>2. CASE hpc[c] = "writing" /\ hpc'[c] \in {"relay", "failing"} /\ (payload'[c] <=> hpc'[c] = "relay")
    <3>1. ~payload[c] /\ (Mistaken(c) \/ answered[c])
      BY <1>4, <2>2 DEF GateInv, JudgeInv, StateInv, JudgedByOwnPackets, ConfirmedByOwnPackets,
                        Waiting
    <3>2. GateOf(c) = IF Mistaken(c) THEN "mistaken" ELSE "answered"
      BY <2>2, <3>1 DEF GateOf, Dropping
    <3>3. CASE hpc'[c] = "relay"
      <4>1. GateOf(c)' = IF Mistaken(c) THEN "mistaken" ELSE "open"
        BY <1>1, <2>2, <3>3 DEF GateOf, Mistaken
      <4> QED BY <3>2, <4>1 DEF GateMoves
    <3>4. CASE hpc'[c] = "failing"
      <4>1. GateOf(c)' = "dropped"
        BY <2>2, <3>4 DEF GateOf, Dropping
      <4> QED BY <3>2, <4>1 DEF GateMoves
    <3> QED BY <2>2, <3>3, <3>4
  <2> QED BY <2>1, <2>2, HandlerDecides
<1> QED BY <1>2, <1>3, <1>4, MovesAreSteps

\* A decoy moves the gate of the flow it belongs to, once.
LEMMA InjectingMovesGate ==
  ASSUME JudgeInv, GateInv, NEW c \in Conns, Injecting(c)
  PROVE  [Gate!Next]_gateNow
<1> USE DEF Inject, InjectFails, Reinject, StopInjecting, Ended
<1>1. UNCHANGED <<hpc, payload, answered>>
  BY DEF Injecting, handlerVars, wireVars
<1>2. goroutine \in [Conns -> Goroutine] /\ decoyed \in [Conns -> BOOLEAN]
  BY DEF JudgeInv, TypeInv, TypeOK
<1>3. \A d \in Conns : goroutine'[d].isn = goroutine[d].isn
  BY <1>2 DEF Injecting, Goroutine
<1>4. ASSUME NEW d \in Waiting, d # c
      PROVE  GateOf(d)' = GateOf(d)
  <2>1. d \in Conns
    BY DEF Waiting
  <2>2. CASE decoyed'[d] = decoyed[d]
    BY <1>1, <1>3, <2>1, <2>2, GateKept
  <2>3. CASE decoyed'[d] # decoyed[d]
    <3>1. Mistaken(c) /\ d = goroutine[c].isn
      BY <1>2, <1>4, <2>1, <2>3, WrongSeqAssumption DEF Injecting, wireVars, Mistaken
    <3>2. Over(d)
      BY <3>1 DEF JudgeInv, StateInv
    <3> QED BY <1>1, <1>3, <2>1, <3>2 DEF GateOf, Over, Dropping, Mistaken
  <2> QED BY <2>2, <2>3
<1>5. CASE c \notin Waiting
  BY <1>4, <1>5 DEF gateNow
<1>6. ASSUME c \in Waiting
      PROVE  GateMoves(c)
  <2>1. decoyed[c] => decoyed'[c]
    BY <1>2 DEF Injecting, wireVars
  <2>2. answered[c] => decoyed[c]
    BY DEF JudgeInv, StateInv
  <2>3. CASE payload[c] \/ hpc[c] \in Dropping \/ Mistaken(c)
    <3>1. GateOf(c)' = GateOf(c)
      BY <1>1, <1>3, <2>3 DEF GateOf, Mistaken
    <3> QED BY <3>1 DEF GateMoves
  <2>4. CASE ~payload[c] /\ hpc[c] \notin Dropping /\ ~Mistaken(c)
    BY <1>1, <1>3, <2>1, <2>2, <2>4 DEF GateOf, GateMoves, Mistaken
  <2> QED BY <2>3, <2>4
<1> QED BY <1>4, <1>5, <1>6, MovesAreSteps

\* An answer does, too.
LEMMA ServerMovesGate ==
  ASSUME JudgeInv, GateInv, NEW c \in Conns, Server(c)
  PROVE  [Gate!Next]_gateNow
<1> USE DEF DuplicateAck, ServerData, AckAgain, Reset
<1>1. UNCHANGED <<hpc, payload, decoyed, goroutine>>
  BY DEF Server, handlerVars, wireVars
<1>2. /\ answered \in [Conns -> BOOLEAN]
      /\ \A d \in Conns : d # c => answered'[d] = answered[d]
      /\ answered[c] => answered'[c]
      /\ answered'[c] => decoyed[c]
  BY DEF Server, wireVars, JudgeInv, TypeInv, TypeOK, StateInv
<1>3. \A d \in Waiting : d # c => GateOf(d)' = GateOf(d)
  BY <1>1, <1>2, GateKept DEF Waiting
<1>4. CASE c \notin Waiting
  BY <1>3, <1>4 DEF gateNow
<1>5. GateMoves(c)
  <2>1. CASE payload[c] \/ hpc[c] \in Dropping \/ Mistaken(c)
    <3>1. GateOf(c)' = GateOf(c)
      BY <1>1, <2>1 DEF GateOf, Mistaken
    <3> QED BY <3>1 DEF GateMoves
  <2>2. CASE ~payload[c] /\ hpc[c] \notin Dropping /\ ~Mistaken(c)
    BY <1>1, <1>2, <2>2 DEF GateOf, GateMoves, Mistaken
  <2> QED BY <2>1, <2>2
<1> QED BY <1>3, <1>4, <1>5, MovesAreSteps

\* The sniffer starts a decoy, for the flow itself or by mistake.
LEMMA SniffMovesGate ==
  ASSUME JudgeInv, GateInv, SniffApply
  PROVE  [Gate!Next]_gateNow
<1>1. UNCHANGED <<hpc, payload, decoyed, answered>>
  BY DEF SniffApply, handlerVars, wireVars
<1>2. PICK c, seq, kind : c = held.owner /\ seq = held.packet.seq /\ kind = held.packet.kind
  OBVIOUS
<1>3. /\ c \in Conns
      /\ \A d \in Conns : d # c => goroutine'[d] = goroutine[d]
      /\ goroutine'[c].isn = goroutine[c].isn \/ ~ps[c].fakeSent
  BY <1>2, ApplyMoves
<1>4. \A d \in Waiting : d # c => GateOf(d)' = GateOf(d)
  BY <1>1, <1>3, GateKept DEF Waiting
<1>5. CASE c \notin Waiting
  BY <1>4, <1>5 DEF gateNow
<1>6. GateMoves(c)
  <2>1. CASE goroutine'[c].isn = goroutine[c].isn
    <3>1. GateOf(c)' = GateOf(c)
      BY <1>1, <1>3, <2>1, GateKept
    <3> QED BY <3>1 DEF GateMoves
  <2>2. CASE ~ps[c].fakeSent
    <3>1. ~payload[c] /\ goroutine[c].isn = None
      BY <1>3, <2>2 DEF GateInv, JudgeInv, StateInv
    <3>2. CASE hpc[c] \in Dropping
      <4>1. GateOf(c)' = GateOf(c)
        BY <1>1, <3>1, <3>2 DEF GateOf
      <4> QED BY <4>1 DEF GateMoves
    <3>3. CASE hpc[c] \notin Dropping
      <4>1. ~decoyed[c] /\ ~answered[c]
        BY <1>3, <2>2, <3>3 DEF JudgeInv, StateInv, Over, Dropping
      <4> QED BY <1>1, <3>1, <3>3, <4>1 DEF GateOf, GateMoves, Mistaken
    <3> QED BY <3>2, <3>3
  <2> QED BY <1>3, <2>1, <2>2
<1> QED BY <1>4, <1>5, <1>6, MovesAreSteps

LEMMA NextMovesGate ==
  ASSUME JudgeInv, GateInv, [Next]_vars
  PROVE  [Gate!Next]_gateNow
<1>1. CASE SniffTake \/ UNCHANGED vars
  <2>1. UNCHANGED <<hpc, payload, answered, decoyed, goroutine>>
    BY <1>1 DEF SniffTake, vars, handlerVars, wireVars
  <2>2. \A d \in Waiting : GateOf(d)' = GateOf(d)
    BY <2>1, GateKept DEF Waiting
  <2> QED BY <2>2 DEF gateNow
<1> QED
  BY <1>1, SniffMovesGate, HandlerMovesGate, InjectingMovesGate, ServerMovesGate DEF Next, Sniff

\* The handler, the sniffer and the injecting goroutine together implement the
\* gate: no payload of a server that waits for it goes out before that server has
\* answered a decoy, unless the sniffer took the flow for an earlier one of its
\* port (wrong_seq.go:28-60, rawinjector_linux.go:669-828).
THEOREM KeepsTheGate == Spec => ImplementsGate
<1>1. Init => Gate!Init
  BY DEF Init, Gate!Init, GateOf, Mistaken, Waiting, Dropping
<1>2. JudgeInv /\ GateInv /\ [Next]_vars => GateInv'
  BY NextGateInv
<1>3. JudgeInv /\ GateInv /\ [Next]_vars => [Gate!Next]_gateNow
  BY NextMovesGate
<1>4. ImplementsGate <=> Gate!Init /\ [][Gate!Next]_gateNow
  BY DEF ImplementsGate, Gate!Spec, gateNow
<1> QED BY <1>1, <1>2, <1>3, <1>4, NextJudgeInv, InitJudgeInv, InitGateInv, PTL DEF Spec
=============================================================================
