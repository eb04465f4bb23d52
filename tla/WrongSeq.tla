------------------------------ MODULE WrongSeq ------------------------------
(***************************************************************************)
(* The wrong_seq bypass: the handler of a client connection                *)
(* (internal/forwarder/server.go, internal/bypass/wrong_seq.go) together   *)
(* with the raw injector that sniffs its handshake and confirms it         *)
(* (internal/rawinjector/rawinjector_linux.go).                            *)
(*                                                                         *)
(* A handler reserves a local port, registers it with the injector, dials  *)
(* from it and waits.  The sniffer takes copies of packets off a capture   *)
(* queue, some of them late, some lost.  It notes the SYN, starts a        *)
(* goroutine that injects a decoy at the first pure ACK, and confirms the  *)
(* flow when the server acknowledges just the SYN once more.  A packet of  *)
(* a flow that is over may still wait in the queue, or arrive, when its    *)
(* port is registered for the next flow: the sniffer goes by the number.   *)
(*                                                                         *)
(* wrong_seq runs with exactly one endpoint, so handleConn makes a single  *)
(* attempt and a connection registers at most one portState: both go by    *)
(* the connection's name, and so does its initial sequence number.         *)
(***************************************************************************)
EXTENDS Integers, Sequences

CONSTANTS
  Conns,         \* the client connections
  Ports,         \* the local ports the kernel hands out
  None,          \* no port, no connection, no packet
  MaxTries,      \* maxReserveRetries
  MaxInjects,    \* maxInjects
  MaxQueue,      \* how many packets the capture socket buffers
  Talkative,     \* those whose server may speak before the client does
  Flaky          \* those that may be reset, or whose injection may fail

ASSUME WrongSeqAssumption ==
  /\ None \notin Conns \cup Ports
  /\ MaxTries \in Nat \ {0}
  /\ MaxInjects \in Nat \ {0}
  /\ MaxQueue \in Nat \ {0}
  /\ Talkative \subseteq Conns
  /\ Flaky \subseteq Conns

VARIABLES
  hpc,         \* where each handler is
  tries,       \* reservations that met a registered port
  port,        \* reservedPort of each handler
  registered,  \* handleConn's flag of that name
  sock,        \* the kernel's upstream socket of each connection
  ports,       \* injector.ports: whose portState is registered at a port
  ps,          \* the portState of each connection
  goroutine,   \* the goroutine that injects a connection's decoys
  queue,       \* captured packets the sniffer has not read
  held,        \* the packet sniffLoop is handling, with the portState it found
  decoyed,     \* whether a decoy that the connection's server answers went out
  answered,    \* whether the server's duplicate ACK did
  spoke,       \* whether the server sent a connection data, or a reset
  payload,     \* whether the real ClientHello was written
  late         \* history: the kinds of other flows' packets that changed this
               \* connection's portState

handlerVars == <<hpc, tries, port, registered>>
sniffVars   == <<queue, held, late>>
wireVars    == <<decoyed, answered, spoke>>
vars == <<handlerVars, sock, ports, ps, goroutine, sniffVars, wireVars, payload>>

HandlerPCs == {"start", "reserved", "registered", "dialing", "waiting", "writing",
               "relay", "failing", "unregistered", "returning", "done"}

PortState == [syn : Conns \cup {None}, fakeSent : BOOLEAN, mismatch : BOOLEAN,
              confirmed : BOOLEAN, failed : BOOLEAN]

Goroutine == [pc : {"none", "inject", "pause", "done", "failed"},
              isn : Conns \cup {None}, sent : 0 .. MaxInjects]

PacketKinds == {"syn", "ack", "inbound_ack", "inbound_rst"}

Packet == [kind : PacketKinds, port : Ports, seq : Conns]

TypeOK ==
  /\ hpc \in [Conns -> HandlerPCs]
  /\ tries \in [Conns -> 0 .. MaxTries]
  /\ port \in [Conns -> Ports \cup {None}]
  /\ registered \in [Conns -> BOOLEAN]
  /\ sock \in [Conns -> {"none", "syn", "established", "closed"}]
  /\ ports \in [Ports -> Conns \cup {None}]
  /\ ps \in [Conns -> PortState]
  /\ goroutine \in [Conns -> Goroutine]
  /\ queue \in Seq(Packet) /\ Len(queue) <= MaxQueue
  /\ held \in [packet : Packet, owner : Conns] \cup {None}
  /\ decoyed \in [Conns -> BOOLEAN]
  /\ answered \in [Conns -> BOOLEAN]
  /\ spoke \in [Conns -> SUBSET {"data", "reset"}]
  /\ payload \in [Conns -> BOOLEAN]
  /\ late \in [Conns -> SUBSET PacketKinds]

Init ==
  /\ hpc = [c \in Conns |-> "start"]
  /\ tries = [c \in Conns |-> 0]
  /\ port = [c \in Conns |-> None]
  /\ registered = [c \in Conns |-> FALSE]
  /\ sock = [c \in Conns |-> "none"]
  /\ ports = [p \in Ports |-> None]
  /\ ps = [c \in Conns |-> [syn |-> None, fakeSent |-> FALSE, mismatch |-> FALSE,
                            confirmed |-> FALSE, failed |-> FALSE]]
  /\ goroutine = [c \in Conns |-> [pc |-> "none", isn |-> None, sent |-> 0]]
  /\ queue = <<>>
  /\ held = None
  /\ decoyed = [c \in Conns |-> FALSE]
  /\ answered = [c \in Conns |-> FALSE]
  /\ spoke = [c \in Conns |-> {}]
  /\ payload = [c \in Conns |-> FALSE]
  /\ late = [c \in Conns |-> {}]

Goto(c, from, to) ==
  /\ hpc[c] = from
  /\ hpc' = [hpc EXCEPT ![c] = to]

\* A socket other than c's holds the port.
Busy(p, c) == \E d \in Conns \ {c} : port[d] = p /\ sock[d] \in {"syn", "established"}

\* The capture socket copies a packet of c's flow, or loses it.
Capture(kind, c) ==
  \/ /\ Len(queue) < MaxQueue
     /\ queue' = Append(queue, [kind |-> kind, port |-> port[c], seq |-> c])
  \/ UNCHANGED queue

-----------------------------------------------------------------------------
(* The handler.                                                            *)

\* reserveTCPPort: listen on port 0 and close at once, so that another
\* handler may be given the same port before this one dials.
Reserve(c, p) ==
  /\ Goto(c, "start", "reserved")
  /\ ~Busy(p, c)
  /\ port' = [port EXCEPT ![c] = p]
  /\ UNCHANGED <<tries, registered, sock, ports, ps, goroutine, sniffVars,
                 wireVars, payload>>

\* reserveTCPPort fails: the connection is dropped.
ReserveFails(c) ==
  /\ Goto(c, "start", "done")
  /\ UNCHANGED <<tries, port, registered, sock, ports, ps, goroutine, sniffVars,
                 wireVars, payload>>

\* RegisterPort refuses a port that is registered; the handler tries another.
Register(c) ==
  /\ hpc[c] = "reserved"
  /\ IF ports[port[c]] = None
       THEN /\ Goto(c, "reserved", "registered")
            /\ ports' = [ports EXCEPT ![port[c]] = c]
            /\ registered' = [registered EXCEPT ![c] = TRUE]
            /\ UNCHANGED tries
       ELSE /\ Goto(c, "reserved", IF tries[c] + 1 < MaxTries THEN "start" ELSE "done")
            /\ tries' = [tries EXCEPT ![c] = @ + 1]
            /\ UNCHANGED <<ports, registered>>
  /\ UNCHANGED <<port, sock, ps, goroutine, sniffVars, wireVars, payload>>

\* DialContext binds the reserved port and sends the SYN.
Dial(c) ==
  /\ Goto(c, "registered", "dialing")
  /\ ~Busy(port[c], c)
  /\ sock' = [sock EXCEPT ![c] = "syn"]
  /\ Capture("syn", c)
  /\ UNCHANGED <<tries, port, registered, ports, ps, goroutine, held, late, wireVars, payload>>

\* The SYN-ACK arrives: the kernel acknowledges it, the dial returns, and
\* WrongSeqStrict.Apply starts to wait.
Handshake(c) ==
  /\ Goto(c, "dialing", "waiting")
  /\ sock[c] = "syn"
  /\ sock' = [sock EXCEPT ![c] = "established"]
  /\ Capture("ack", c)
  /\ UNCHANGED <<tries, port, registered, ports, ps, goroutine, held, late, wireVars, payload>>

\* The server refused, or the kernel gave up; or the port was taken, and no SYN
\* went out at all.
DialFails(c) ==
  /\ \/ Goto(c, "dialing", "failing") /\ sock' = [sock EXCEPT ![c] = "closed"]
     \/ Goto(c, "registered", "failing") /\ Busy(port[c], c) /\ UNCHANGED sock
  /\ UNCHANGED <<tries, port, registered, ports, ps, goroutine, sniffVars,
                 wireVars, payload>>

\* WaitForConfirmationDetailed waits on the portState it finds at the port.
\* Of several ready channels the select takes any; the timer may be one.
Confirmed(c) ==
  /\ Goto(c, "waiting", "writing")
  /\ ports[port[c]] # None
  /\ ps[ports[port[c]]].confirmed
  /\ UNCHANGED <<tries, port, registered, sock, ports, ps, goroutine, sniffVars,
                 wireVars, payload>>

\* Mutant of Unconfirmed: a timeout lets the payload through.
UnconfirmedWrites(c) ==
  /\ Goto(c, "waiting", "writing")
  /\ UNCHANGED <<tries, port, registered, sock, ports, ps, goroutine, sniffVars,
                 wireVars, payload>>

Unconfirmed(c) ==
  /\ Goto(c, "waiting", "failing")
  /\ UNCHANGED <<tries, port, registered, sock, ports, ps, goroutine, sniffVars,
                 wireVars, payload>>

\* serverConn.Write(firstData).
Write(c) ==
  /\ Goto(c, "writing", IF sock[c] = "established" THEN "relay" ELSE "failing")
  /\ payload' = [payload EXCEPT ![c] = sock[c] = "established"]
  /\ UNCHANGED <<tries, port, registered, sock, ports, ps, goroutine, sniffVars, wireVars>>

\* CleanupPort deletes whatever the port has.
CleanupPort(p) == ports' = [ports EXCEPT ![p] = None]

\* Mutant of FailCleanup: registered stays set, so the deferred function cleans
\* up once more.
FailCleanupTwice(c) ==
  /\ Goto(c, "failing", "unregistered")
  /\ CleanupPort(port[c])
  /\ UNCHANGED <<tries, port, registered, sock, ps, goroutine, sniffVars, wireVars,
                 payload>>

\* After a failed dial or Apply the port is cleaned up first ...
FailCleanup(c) ==
  /\ Goto(c, "failing", "unregistered")
  /\ CleanupPort(port[c])
  /\ registered' = [registered EXCEPT ![c] = FALSE]
  /\ UNCHANGED <<tries, port, sock, ps, goroutine, sniffVars, wireVars, payload>>

\* ... and then the socket closed, with nothing left to clean up; after the relay
\* the socket comes first.
Close(c) ==
  /\ \/ Goto(c, "unregistered", IF registered[c] THEN "returning" ELSE "done")
     \/ Goto(c, "relay", "returning")
  /\ sock' = [sock EXCEPT ![c] = IF @ = "none" THEN "none" ELSE "closed"]
  /\ UNCHANGED <<tries, port, registered, ports, ps, goroutine, sniffVars,
                 wireVars, payload>>

\* The deferred function of handleConn cleans up a port still registered.
Return(c) ==
  /\ Goto(c, "returning", "done")
  /\ IF registered[c] THEN CleanupPort(port[c]) ELSE UNCHANGED ports
  /\ registered' = [registered EXCEPT ![c] = FALSE]
  /\ UNCHANGED <<tries, port, sock, ps, goroutine, sniffVars, wireVars, payload>>

-----------------------------------------------------------------------------
(* The sniffer: handlePacket finds the portState under portsMu, and only   *)
(* then locks and updates it.                                              *)

SniffTake ==
  /\ held = None
  /\ queue # <<>>
  /\ LET owner == ports[Head(queue).port]
     IN held' = IF owner = None THEN None
                ELSE [packet |-> Head(queue), owner |-> owner]
  /\ queue' = Tail(queue)
  /\ UNCHANGED <<handlerVars, sock, ports, ps, goroutine, late, wireVars, payload>>

\* An outbound SYN.
OnSyn(c, seq) ==
  /\ ps' = [ps EXCEPT ![c].syn = seq]
  /\ UNCHANGED goroutine

\* An outbound pure ACK: the first one that follows the SYN starts the decoy.
OnAck(c, seq) ==
  CASE ps[c].fakeSent \/ ps[c].syn = None -> UNCHANGED <<ps, goroutine>>
    [] ~ps[c].fakeSent /\ ps[c].syn = seq ->
         /\ ps' = [ps EXCEPT ![c].fakeSent = TRUE]
         /\ goroutine' = [goroutine EXCEPT ![c].pc = "inject", ![c].isn = seq]
    [] OTHER ->
         /\ ps' = [ps EXCEPT ![c].mismatch = TRUE, ![c].failed = @ \/ ps[c].mismatch]
         /\ UNCHANGED goroutine

\* Mutant of OnInboundAck: any acknowledgement counts, whatever its number.
OnInboundAckAnyNumber(c, seq) ==
  /\ ps' = [ps EXCEPT ![c].confirmed = @ \/ ps[c].fakeSent]
  /\ UNCHANGED goroutine

\* An inbound ACK that is not a SYN, FIN or RST, with or without data.
OnInboundAck(c, seq) ==
  /\ ps' = [ps EXCEPT ![c].confirmed = @ \/ (ps[c].fakeSent /\ ps[c].syn = seq)]
  /\ UNCHANGED goroutine

\* An inbound RST, whatever its numbers.
OnInboundRst(c) ==
  /\ ps' = [ps EXCEPT ![c].failed = TRUE]
  /\ UNCHANGED goroutine

SniffApply ==
  /\ held # None
  /\ LET c == held.owner
         seq == held.packet.seq
         kind == held.packet.kind
     IN /\ \/ kind = "syn" /\ OnSyn(c, seq)
           \/ kind = "ack" /\ OnAck(c, seq)
           \/ kind = "inbound_ack" /\ OnInboundAck(c, seq)
           \/ kind = "inbound_rst" /\ OnInboundRst(c)
        /\ late' = IF seq = c \/ ps' = ps THEN late
                   ELSE [late EXCEPT ![c] = @ \cup {kind}]
  /\ held' = None
  /\ UNCHANGED <<handlerVars, sock, ports, queue, wireVars, payload>>

-----------------------------------------------------------------------------
(* The goroutine that injects the decoys of one portState.                 *)

\* A decoy that carries an earlier flow's number still goes out on this port:
\* whichever of the two the server knows answers it.
Inject(c) ==
  /\ goroutine[c].pc = "inject"
  /\ goroutine' = [goroutine EXCEPT ![c].pc = "pause", ![c].sent = @ + 1]
  /\ decoyed' = [d \in Conns |-> decoyed[d] \/ d \in {c, goroutine[c].isn}]
  /\ UNCHANGED <<handlerVars, sock, ports, ps, sniffVars, answered, spoke, payload>>

\* The goroutine is over; so is its count.
Ended(c, how) == goroutine' = [goroutine EXCEPT ![c].pc = how, ![c].sent = 0]

\* The frame cannot be built, or the send and its one retry fail.
InjectFails(c) ==
  /\ c \in Flaky
  /\ goroutine[c].pc = "inject"
  /\ Ended(c, "failed")
  /\ ps' = [ps EXCEPT ![c].failed = TRUE]
  /\ UNCHANGED <<handlerVars, sock, ports, sniffVars, wireVars, payload>>

\* Mutant of Reinject: after the last decoy only the answer is waited for.
ReinjectNoLastTimer(c) ==
  /\ goroutine[c].pc = "pause"
  /\ goroutine[c].sent < MaxInjects
  /\ goroutine' = [goroutine EXCEPT ![c].pc = "inject"]
  /\ UNCHANGED <<handlerVars, sock, ports, ps, sniffVars, wireVars, payload>>

\* 250ms pass without an answer.
Reinject(c) ==
  /\ goroutine[c].pc = "pause"
  /\ IF goroutine[c].sent < MaxInjects
       THEN goroutine' = [goroutine EXCEPT ![c].pc = "inject"]
       ELSE Ended(c, "done")
  /\ UNCHANGED <<handlerVars, sock, ports, ps, sniffVars, wireVars, payload>>

StopInjecting(c) ==
  /\ goroutine[c].pc = "pause"
  /\ ps[c].confirmed \/ ps[c].failed
  /\ Ended(c, "done")
  /\ UNCHANGED <<handlerVars, sock, ports, ps, sniffVars, wireVars, payload>>

-----------------------------------------------------------------------------
(* The server and the network.                                             *)

\* Packets of a flow may arrive when its own socket is closed already.
Reachable(c) == sock[c] \in {"established", "closed"}

\* The decoy lies outside the window: the server acknowledges the SYN again, as
\* often as a decoy reaches it.
DuplicateAck(c) ==
  /\ Reachable(c)
  /\ decoyed[c]
  /\ answered' = [answered EXCEPT ![c] = TRUE]
  /\ Capture("inbound_ack", c)
  /\ UNCHANGED <<handlerVars, sock, ports, ps, goroutine, held, late, decoyed, spoke, payload>>

\* The server's first data acknowledges the SYN, too.
ServerData(c) ==
  /\ c \in Talkative
  /\ Reachable(c)
  /\ "data" \notin spoke[c]
  /\ spoke' = [spoke EXCEPT ![c] = @ \cup {"data"}]
  /\ Capture("inbound_ack", c)
  /\ UNCHANGED <<handlerVars, sock, ports, ps, goroutine, held, late, decoyed, answered, payload>>

\* The kernel repeats its ACK: for data, or for a SYN-ACK the server repeats.
\* Once the payload is out its ACKs carry another number.
AckAgain(c) ==
  /\ sock[c] = "established"
  /\ ~payload[c]
  /\ Capture("ack", c)
  /\ UNCHANGED <<handlerVars, sock, ports, ps, goroutine, held, late, wireVars, payload>>

\* The server, or a middlebox, resets the connection.
Reset(c) ==
  /\ c \in Flaky
  /\ sock[c] # "none"
  /\ "reset" \notin spoke[c]
  /\ spoke' = [spoke EXCEPT ![c] = @ \cup {"reset"}]
  /\ sock' = [sock EXCEPT ![c] = "closed"]
  /\ Capture("inbound_rst", c)
  /\ UNCHANGED <<handlerVars, ports, ps, goroutine, held, late, decoyed, answered, payload>>

-----------------------------------------------------------------------------

Handler(c) ==
  \/ \E p \in Ports : Reserve(c, p)
  \/ ReserveFails(c)
  \/ Register(c)
  \/ Dial(c)
  \/ Handshake(c)
  \/ DialFails(c)
  \/ Confirmed(c)
  \/ Unconfirmed(c)
  \/ Write(c)
  \/ FailCleanup(c)
  \/ Return(c)
  \/ Close(c)

Injecting(c) == Inject(c) \/ InjectFails(c) \/ Reinject(c) \/ StopInjecting(c)

Sniff == SniffTake \/ SniffApply

Deciding == {"start", "reserved", "registered", "dialing", "waiting", "writing"}

\* What comes when every flow has written its payload or failed makes no
\* difference to the handlers any more, and is left out.
Server(c) ==
  /\ \E d \in Conns : hpc[d] \in Deciding
  /\ DuplicateAck(c) \/ ServerData(c) \/ AckAgain(c) \/ Reset(c)

Next == Sniff \/ \E c \in Conns : Handler(c) \/ Injecting(c) \/ Server(c)

Spec == Init /\ [][Next]_vars

(***************************************************************************)
(* Goroutines run and timers fire: 2s for a wait, 250ms for an injection,  *)
(* the kernel's own for a dial.  Nothing is assumed of the server, of the  *)
(* network or of the capture, nor that a relay ends.                       *)
(***************************************************************************)
Fairness ==
  \A c \in Conns : WF_vars(Handler(c) /\ hpc[c] # "relay") /\ WF_vars(Injecting(c))

FairSpec == Spec /\ Fairness

-----------------------------------------------------------------------------
(* Properties.                                                             *)

Dropping == {"failing", "unregistered", "returning", "done"}

\* The decoy of c was started by the SYN and the ACK of another flow, an earlier
\* one of its port, which the sniffer came to only now.
Mistaken(c) == goroutine[c].isn \notin {None, c}

\* StrictGate for the flows whose server waits for the client, as TLS servers
\* do, with the server's first duplicate ACK as the answer.
Waiting == Conns \ Talkative

GateOf(c) ==
  CASE payload[c] -> IF Mistaken(c) THEN "mistaken" ELSE "open"
    [] ~payload[c] /\ hpc[c] \in Dropping -> "dropped"
    [] ~payload[c] /\ hpc[c] \notin Dropping /\ Mistaken(c) -> "mistaken"
    [] ~payload[c] /\ hpc[c] \notin Dropping /\ ~Mistaken(c) ->
         IF answered[c] THEN "answered" ELSE IF decoyed[c] THEN "decoyed" ELSE "closed"

Gate == INSTANCE StrictGate WITH
  Conns <- Waiting,
  gate  <- [c \in Waiting |-> GateOf(c)]

\* For them the handler and the injector implement the gate, whatever the
\* flows of other servers do and whichever packets come late.
ImplementsGate == Gate!Spec

\* The registry and the handlers agree: a port is registered for a connection
\* exactly while its handler holds it.  So no flow waits on another's portState,
\* no cleanup by port number deletes a successor's entry (server.go:151-156,
\* rawinjector_linux.go:539-543), and no entry outlives its handler.
RegistryMatchesHandlers ==
  \A c \in Conns, p \in Ports : ports[p] = c <=> registered[c] /\ port[c] = p

\* Unless the decoy was started for an earlier flow of the port, a flow is
\* confirmed by its own handshake only: its portState saw this connection's SYN
\* and ACK, and this connection's server answered a decoy or spoke.
ConfirmedByOwnPackets ==
  \A c \in Conns :
    ps[c].confirmed /\ ~Mistaken(c) =>
      /\ ps[c].syn = c
      /\ ps[c].fakeSent
      /\ answered[c] \/ "data" \in spoke[c]

\* A flow whose portState no packet of another one changed fails early for a cause
\* of its own: its server reset it or its injection failed.
FailsForOwnCause ==
  \A c \in Conns :
    ps[c].failed /\ late[c] = {} => \/ "reset" \in spoke[c]
                                    \/ goroutine[c].pc = "failed"

\* What the sniffer concludes about a flow comes from that flow, although it
\* finds portStates by port number only, updates them after the unlock and may
\* be behind by packets of the port's earlier flows (rawinjector_linux.go:669-828).
JudgedByOwnPackets == ConfirmedByOwnPackets /\ FailsForOwnCause

Released(c) == ~registered[c] \/ hpc[c] = "relay"

\* A registration never outlasts the flow, which releases it or becomes a relay,
\* and the goroutine that injects ends, confirmed or not, after maxInjects decoys.
FlowSettles ==
  \A c \in Conns :
    (registered[c] \/ goroutine[c].pc = "inject")
      ~> (Released(c) /\ goroutine[c].pc \notin {"inject", "pause"})
=============================================================================
