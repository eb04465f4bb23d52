------------------------- MODULE InjectorStopProofs -------------------------
(***************************************************************************)
(* Proofs about InjectorStop for any number of generations and descriptor  *)
(* numbers, on both platforms: which injectors run follows from where the  *)
(* main goroutine is, and the kernel's table agrees with the numbers the   *)
(* injectors hold, in both directions.                                     *)
(***************************************************************************)
EXTENDS InjectorStop, TLAPS

\* The injectors that run: the current one until Stop, the next one from Start.
Live(g) ==
  \/ g = cur /\ pc \in {"select", "build", "opened", "stop"}
  \/ g = cur + 1 /\ pc \in {"stop", "closing", "wait"}

\* A rebuild has a generation to build.
Room == pc # "select" => cur < MaxGen

\* A running injector has a capture socket, no other has one; its socket for
\* sending is closed last.
Numbers ==
  \A g \in Gens :
    /\ running[g] <=> Live(g)
    /\ fd[g] # NoFD <=> running[g]
    /\ sendFd[g] # NoFD => running[g] \/ (g = cur /\ pc = "closing")

\* The numbers held are sockets of their own ...
Holds ==
  \A g \in Gens :
    /\ fd[g] # NoFD => table[fd[g]] = <<g, "capture">>
    /\ sendFd[g] # NoFD => table[sendFd[g]] = <<g, "send">>

\* ... and there are no other sockets but the one a Start has just opened.
NoOther ==
  \A g \in Gens, n \in FDs :
    /\ table[n] = <<g, "capture">> => fd[g] = n \/ (g = cur + 1 /\ pc = "opened")
    /\ table[n] = <<g, "send">> => sendFd[g] = n

OneOpened ==
  pc = "opened" => \E n \in FDs : \A m \in FDs : table[m] = <<cur + 1, "capture">> <=> m = n

SockInv == Room /\ Numbers /\ Holds /\ NoOther /\ OneOpened

\* Nothing runs for an injector before its Start.
Unborn ==
  \A g \in Gens : g > cur /\ ~running[g] =>
    sniff[g].pc = "off" /\ ~ticker[g] /\ inject[g].pc = "none"

\* Stop has waited for both loops.
Gone == \A g \in Gens : g < cur => sniff[g].pc = "done" /\ ~ticker[g]

\* While an injector runs, the numbers its goroutines have loaded are still its own.
Uses ==
  \A g \in Gens : running[g] =>
    /\ sniff[g].pc = "recv" => sniff[g].fd = fd[g]
    /\ inject[g].pc = "send" => inject[g].fd # NoFD /\ inject[g].fd \in {fd[g], sendFd[g]}

IInv == TypeOK /\ SockInv /\ Unborn /\ Gone /\ Uses

-----------------------------------------------------------------------------
(* What the invariant says of the properties.                              *)

LEMMA ImpliesGone == IInv => StoppedIsGone
<1> SUFFICES ASSUME IInv, NEW g \in Gens,
                    g < cur \/ (g > cur /\ pc \in {"select", "build"})
             PROVE  /\ sniff[g].pc \in {"off", "done"} /\ ~ticker[g]
                    /\ \A n \in FDs : table[n] \notin {<<g, "capture">>, <<g, "send">>}
  BY DEF StoppedIsGone
<1>1. cur \in Nat /\ g \in Nat
  BY DEF IInv, TypeOK, Gens
<1>2. ~Live(g) /\ g # cur
  BY <1>1 DEF Live
<1>3. ~running[g] /\ fd[g] = NoFD /\ sendFd[g] = NoFD
  BY <1>2 DEF IInv, SockInv, Numbers
<1>4. \A n \in FDs : table[n] \notin {<<g, "capture">>, <<g, "send">>}
  <2>1. \A n \in FDs : fd[g] # n /\ sendFd[g] # n
    BY <1>3, StopAssumption DEF FDs, NoFD
  <2>2. ~(g = cur + 1 /\ pc = "opened")
    BY <1>1
  <2>3. ASSUME NEW n \in FDs
        PROVE  table[n] # <<g, "capture">> /\ table[n] # <<g, "send">>
    BY <2>1, <2>2 DEF IInv, SockInv, NoOther
  <2> QED BY <2>3
<1> QED BY <1>1, <1>3, <1>4 DEF IInv, Unborn, Gone

LEMMA ImpliesOwn == IInv => OwnWhileRunning
<1> SUFFICES ASSUME IInv, NEW g \in Gens, running[g]
             PROVE  /\ sniff[g].pc = "recv" => table[sniff[g].fd] = <<g, "capture">>
                    /\ inject[g].pc = "send" =>
                         table[inject[g].fd] \in {<<g, "capture">>, <<g, "send">>}
  BY DEF OwnWhileRunning
<1>1. fd[g] # NoFD
  BY DEF IInv, SockInv, Numbers
<1>2. table[fd[g]] = <<g, "capture">>
  BY <1>1 DEF IInv, SockInv, Holds
<1>3. sendFd[g] # NoFD => table[sendFd[g]] = <<g, "send">>
  BY DEF IInv, SockInv, Holds
<1> QED BY <1>2, <1>3 DEF IInv, Uses

-----------------------------------------------------------------------------
(* Types.                                                                  *)

LEMMA HandedIsFree == Handed \subseteq {n \in FDs : table[n] = Free}
  BY DEF Handed, FreeFDs

\* The descriptor of a Start in progress.
LEMMA OpenedIs ==
  ASSUME IInv, pc = "opened"
  PROVE  /\ Opened \in FDs
         /\ \A m \in FDs : table[m] = <<cur + 1, "capture">> <=> m = Opened
  BY DEF IInv, SockInv, OneOpened, Opened

LEMMA SnifferChanged ==
  ASSUME NEW s \in Sniffer, NEW n \in FDs \cup {NoFD},
         NEW p \in {"off", "loop", "load", "recv", "blocked", "done"}
  PROVE  /\ [s EXCEPT !.pc = p] \in Sniffer
         /\ [s EXCEPT !.pc = p, !.fd = n] \in Sniffer
         /\ [s EXCEPT !.pc = p, !.socket = NoSocket] \in Sniffer
  BY DEF Sniffer

LEMMA NextGeneration ==
  ASSUME IInv, pc # "select"
  PROVE  cur \in Gens /\ cur + 1 \in Gens /\ cur + 1 # cur
  BY StopAssumption DEF IInv, TypeOK, SockInv, Room, Gens

LEMMA InitHolds == Init => IInv
<1> SUFFICES ASSUME Init PROVE IInv
  OBVIOUS
<1>1. 0 \in Gens /\ 1 \in FDs /\ 2 \in FDs /\ 1 # 2
  BY StopAssumption DEF Gens, FDs
<1>2. Gens \subseteq Nat
  BY StopAssumption DEF Gens
<1> USE <1>1, <1>2 DEF Init
<1>3. table \in [FDs -> Sockets \cup {Free, Conn}]
  BY DEF Sockets, Free, Conn
<1>4. sniff \in [Gens -> Sniffer]
  BY DEF Sniffer
<1>5. inject \in [Gens -> [pc : {"none", "load", "send", "done"}, fd : FDs \cup {NoFD}]]
  OBVIOUS
<1>6. TypeOK
  BY <1>3, <1>4, <1>5 DEF TypeOK, Free, Conn
<1>7. Numbers
  BY DEF Numbers, Live, NoFD
<1>8. Holds
  BY DEF Holds, NoFD
<1>9. NoOther
  BY DEF NoOther, Free
<1>10. Room /\ OneOpened
  BY DEF Room, OneOpened
<1>11. Unborn /\ Gone /\ Uses
  BY DEF Unborn, Gone, Uses
<1> QED BY <1>6, <1>7, <1>8, <1>9, <1>10, <1>11 DEF IInv, SockInv

-----------------------------------------------------------------------------
(* Steps that leave the sockets alone: the goroutines of the injectors.    *)

LEMMA SocketsKept ==
  ASSUME SockInv, UNCHANGED <<pc, cur, sockVars>>
  PROVE  SockInv'
<1> USE DEF SockInv, sockVars
<1>1. Room' /\ Numbers'
  BY DEF Room, Numbers, Live
<1>2. Holds' /\ NoOther'
  BY DEF Holds, NoOther
<1>3. OneOpened'
  BY DEF OneOpened
<1> QED BY <1>1, <1>2, <1>3

\* Only Start makes an injector's first sniffer, and only Stop waits for the last.
LEMMA SniffersMove ==
  ASSUME IInv, NEW g \in Gens, Sniffs(g) \/ Received(g) \/ Die(g)
  PROVE  /\ sniff' \in [Gens -> Sniffer]
         /\ \A h \in Gens :
              /\ sniff'[h].pc = "recv" => sniff'[h].fd \in FDs
              /\ sniff[h].pc \in {"off", "done"} => sniff'[h].pc = sniff[h].pc
              /\ sniff'[h].pc = "recv" =>
                   sniff'[h].fd = fd[h] \/ (sniff[h].pc = "recv" /\ sniff'[h].fd = sniff[h].fd)
<1>1. sniff' \in [Gens -> Sniffer] /\ \A h \in Gens : sniff'[h].pc = "recv" => sniff'[h].fd \in FDs
  <2>1. CASE SniffLoop(g)
    BY <2>1 DEF SniffLoop, IInv, TypeOK, Sniffer
  <2>2. CASE SniffLoad(g)
    <3>1. fd[g] \in FDs \cup {NoFD} /\ sniff[g] \in Sniffer
      BY DEF IInv, TypeOK
    <3>2. [sniff[g] EXCEPT !.pc = IF fd[g] = NoFD THEN "done" ELSE "recv", !.fd = fd[g]] \in Sniffer
      BY <3>1, SnifferChanged
    <3>3. sniff' \in [Gens -> Sniffer]
      BY <2>2, <3>2 DEF SniffLoad, IInv, TypeOK
    <3>4. ASSUME NEW h \in Gens, sniff'[h].pc = "recv" PROVE sniff'[h].fd \in FDs
      <4>1. h = g => sniff'[h].pc = (IF fd[g] = NoFD THEN "done" ELSE "recv") /\ sniff'[h].fd = fd[g]
        BY <2>2, <3>1 DEF SniffLoad, IInv, TypeOK, Sniffer
      <4>2. h # g => sniff'[h] = sniff[h]
        BY <2>2 DEF SniffLoad, IInv, TypeOK
      <4> QED BY <3>1, <3>4, <4>1, <4>2 DEF IInv, TypeOK
    <3> QED BY <3>3, <3>4
  <2>3. CASE Recv(g)
    <3>1. sniff[g].fd \in FDs
      BY <2>3 DEF Recv, IInv, TypeOK
    <3>2. table[sniff[g].fd] \in Sockets \cup {Free, Conn}
      BY <3>1 DEF IInv, TypeOK, Free, Conn
    <3> QED BY <2>3, <3>2 DEF Recv, IInv, TypeOK, Sniffer
  <2>4. CASE Received(g) \/ Die(g)
    <3>1. ASSUME NEW h \in Gens
          PROVE  sniff'[h] \in {sniff[h], [sniff[h] EXCEPT !.pc = "loop", !.socket = NoSocket]}
      BY <2>4 DEF Received, Die, Woken, IInv, TypeOK
    <3>2. \A h \in Gens : sniff[h] \in Sniffer
      BY DEF IInv, TypeOK
    <3>3. ASSUME NEW h \in Gens
          PROVE  sniff'[h] \in Sniffer /\ (sniff'[h].pc = "recv" => sniff'[h].fd \in FDs)
      <4>1. CASE sniff'[h] = sniff[h]
        BY <3>2, <4>1 DEF IInv, TypeOK
      <4>2. CASE sniff'[h] = [sniff[h] EXCEPT !.pc = "loop", !.socket = NoSocket]
        <5>1. sniff'[h] \in Sniffer
          BY <3>2, <4>2, SnifferChanged
        <5>2. sniff'[h].pc = "loop"
          BY <3>2, <4>2 DEF Sniffer
        <5> QED BY <5>1, <5>2
      <4> QED BY <3>1, <4>1, <4>2
    <3>4. sniff' = [h \in Gens |-> sniff'[h]]
      BY <2>4 DEF Received, Die, Woken, IInv, TypeOK
    <3> QED BY <3>3, <3>4
  <2> QED BY <2>1, <2>2, <2>3, <2>4 DEF Sniffs
<1>2. ASSUME NEW h \in Gens
      PROVE  /\ sniff[h].pc \in {"off", "done"} => sniff'[h].pc = sniff[h].pc
             /\ sniff'[h].pc = "recv" =>
                  sniff'[h].fd = fd[h] \/ (sniff[h].pc = "recv" /\ sniff'[h].fd = sniff[h].fd)
  <2>1. CASE SniffLoop(g)
    BY <2>1 DEF SniffLoop, IInv, TypeOK, Sniffer
  <2>2. CASE SniffLoad(g)
    BY <2>2 DEF SniffLoad, IInv, TypeOK, Sniffer
  <2>3. CASE Recv(g)
    BY <2>3 DEF Recv, IInv, TypeOK, Sniffer
  <2>4. CASE Received(g)
    <3>1. sniff' = [sniff EXCEPT ![g].pc = "loop", ![g].socket = NoSocket] /\ sniff[g].pc = "blocked"
      BY <2>4 DEF Received
    <3>2. CASE h = g
      <4>1. sniff'[g].pc = "loop"
        BY <3>1 DEF IInv, TypeOK, Sniffer
      <4> QED BY <3>1, <3>2, <4>1
    <3>3. CASE h # g
      <4>1. sniff'[h] = sniff[h]
        BY <3>1, <3>3 DEF IInv, TypeOK
      <4> QED BY <4>1
    <3> QED BY <3>2, <3>3
  <2>5. CASE Die(g)
    <3>1. sniff' = Woken(g)
      BY <2>5 DEF Die
    <3>2. sniff'[h] = sniff[h] \/ (sniff[h].pc = "blocked" /\ sniff'[h].pc = "loop")
      <4>1. sniff \in [Gens -> Sniffer]
        BY DEF IInv, TypeOK
      <4>2. sniff'[h] = IF sniff[h].pc = "blocked" /\ sniff[h].socket[1] = g
                        THEN [sniff[h] EXCEPT !.pc = "loop", !.socket = NoSocket]
                        ELSE sniff[h]
        BY <3>1, Zenon DEF Woken
      <4> QED BY <4>1, <4>2 DEF Sniffer
    <3> QED BY <3>2
  <2> QED BY <2>1, <2>2, <2>3, <2>4, <2>5 DEF Sniffs
<1> QED BY <1>1, <1>2

LEMMA SniffersPreserve ==
  ASSUME IInv, NEW g \in Gens, Sniffs(g) \/ Packet(g) \/ Die(g), UNCHANGED platform
  PROVE  IInv'
<1>1. UNCHANGED <<mainVars, sockVars, ticker, inject>>
  BY DEF Sniffs, SniffLoop, SniffLoad, Recv, Packet, Received, Die
<1>2. SockInv'
  BY <1>1, SocketsKept DEF IInv, mainVars
<1>3. dead' \subseteq Gens
  BY DEF Sniffs, SniffLoop, SniffLoad, Recv, Packet, Received, Die, IInv, TypeOK
<1>4. Sniffs(g) \/ Received(g) \/ Die(g)
  BY DEF Packet
<1>5. TypeOK'
  BY <1>1, <1>3, <1>4, SniffersMove DEF IInv, TypeOK, mainVars, sockVars
<1>6. Unborn' /\ Gone'
  BY <1>1, <1>4, SniffersMove DEF IInv, Unborn, Gone, mainVars, sockVars
<1>7. Uses'
  BY <1>1, <1>4, SniffersMove DEF IInv, Uses, sockVars
<1> QED BY <1>2, <1>5, <1>6, <1>7 DEF IInv

LEMMA TickerPreserves ==
  ASSUME IInv, NEW g \in Gens, StatsTick(g), UNCHANGED platform
  PROVE  IInv'
<1> USE DEF StatsTick, mainVars
<1>1. SockInv'
  BY SocketsKept DEF IInv
<1>2. TypeOK'
  BY DEF IInv, TypeOK, sockVars
<1>3. Unborn' /\ Gone' /\ Uses'
  BY DEF IInv, TypeOK, Unborn, Gone, Uses, sockVars
<1> QED BY <1>1, <1>2, <1>3 DEF IInv

\* An injection begins with a packet, thus not before its injector's Start, and loads
\* a number the injector has then.
LEMMA InjectionsPreserve ==
  ASSUME IInv, NEW g \in Gens, Injects(g), UNCHANGED platform
  PROVE  IInv'
<1> DEFINE Injections == [Gens -> [pc : {"none", "load", "send", "done"}, fd : FDs \cup {NoFD}]]
<1>1. UNCHANGED <<mainVars, sockVars, ticker, dead>>
  BY DEF Injects, InjectBegin, Received, InjectLoad, InjectLoadDivert, InjectOn, InjectSend
<1>2. SockInv'
  BY <1>1, SocketsKept DEF IInv, mainVars
<1>3. /\ sniff' \in [Gens -> Sniffer]
      /\ \A h \in Gens :
           /\ sniff'[h].pc = "recv" => sniff'[h].fd \in FDs
           /\ sniff[h].pc \in {"off", "done"} => sniff'[h].pc = sniff[h].pc
           /\ sniff'[h].pc = "recv" =>
                sniff'[h].fd = fd[h] \/ (sniff[h].pc = "recv" /\ sniff'[h].fd = sniff[h].fd)
  <2>1. CASE InjectBegin(g)
    BY <2>1, SniffersMove DEF InjectBegin
  <2>2. CASE UNCHANGED sniff
    BY <2>2 DEF IInv, TypeOK
  <2> QED BY <2>1, <2>2 DEF Injects, InjectLoad, InjectLoadDivert, InjectOn, InjectSend
<1>4. fd[g] \in FDs \cup {NoFD} /\ sendFd[g] \in FDs \cup {NoFD}
  BY DEF IInv, TypeOK
<1>5. inject' \in Injections
  <2>1. CASE InjectBegin(g)
    BY <2>1 DEF InjectBegin, IInv, TypeOK
  <2>2. ASSUME NEW n \in FDs \cup {NoFD}, InjectOn(g, n)
        PROVE  inject' \in Injections
    BY <2>2 DEF InjectOn, IInv, TypeOK
  <2>3. CASE InjectSend(g)
    BY <2>3 DEF InjectSend, IInv, TypeOK
  <2> QED BY <1>4, <2>1, <2>2, <2>3 DEF Injects, InjectLoad, InjectLoadDivert
<1>6. TypeOK'
  BY <1>1, <1>3, <1>5 DEF IInv, TypeOK, mainVars, sockVars
<1>7. ASSUME NEW h \in Gens
      PROVE  /\ inject[h].pc = "none" /\ sniff[h].pc = "off" => inject'[h].pc = "none"
             /\ inject'[h].pc = "send" =>
                  \/ inject'[h].fd # NoFD /\ inject'[h].fd \in {fd[h], sendFd[h]}
                  \/ inject[h].pc = "send" /\ inject'[h].fd = inject[h].fd
  <2>1. CASE InjectBegin(g)
    <3>1. sniff[g].pc = "blocked" /\ inject' = [inject EXCEPT ![g].pc = "load"]
      BY <2>1 DEF InjectBegin, Received
    <3> QED BY <3>1 DEF IInv, TypeOK
  <2>2. ASSUME NEW n \in {fd[g], sendFd[g]}, InjectOn(g, n)
        PROVE  /\ inject[h].pc = "none" => inject'[h].pc = "none"
               /\ inject'[h].pc = "send" =>
                    \/ inject'[h].fd # NoFD /\ inject'[h].fd \in {fd[h], sendFd[h]}
                    \/ inject[h].pc = "send" /\ inject'[h].fd = inject[h].fd
    BY <2>2 DEF InjectOn, IInv, TypeOK
  <2>3. CASE InjectSend(g)
    BY <2>3 DEF InjectSend, IInv, TypeOK
  <2> QED BY <2>1, <2>2, <2>3 DEF Injects, InjectLoad, InjectLoadDivert
<1>8. Unborn'
  BY <1>1, <1>3, <1>7 DEF IInv, Unborn, mainVars, sockVars
<1>9. Gone' /\ Uses'
  BY <1>1, <1>3, <1>7 DEF IInv, Gone, Uses, mainVars, sockVars
<1> QED BY <1>2, <1>6, <1>8, <1>9 DEF IInv

-----------------------------------------------------------------------------
(* Steps that change the kernel's table only, and the main goroutine.      *)

\* What a changed entry must respect: it is no injector's socket, before or after.
LEMMA TableChanged ==
  ASSUME IInv, NEW n \in FDs, table[n] \in {Free, Conn},
         NEW entry \in {Free, Conn}, table' = [table EXCEPT ![n] = entry],
         UNCHANGED <<platform, mainVars, running, fd, sendFd, sniff, ticker, inject, dead>>
  PROVE  IInv'
<1> USE DEF mainVars
<1>1. table' \in [FDs -> Sockets \cup {Free, Conn}]
  BY DEF IInv, TypeOK, Free, Conn
<1>2. TypeOK'
  BY <1>1 DEF IInv, TypeOK, Free, Conn
<1>3. \A g \in Gens, m \in FDs, k \in {"capture", "send"} :
        table'[m] = <<g, k>> <=> table[m] = <<g, k>>
  BY DEF IInv, TypeOK, Free, Conn
<1>4. Room' /\ Numbers'
  BY DEF IInv, SockInv, Room, Numbers, Live
<1>5. Holds'
  BY <1>3 DEF IInv, TypeOK, SockInv, Holds, NoFD
<1>6. NoOther'
  BY <1>3 DEF IInv, SockInv, NoOther
<1>7. OneOpened'
  <2>1. pc = "opened" => cur + 1 \in Gens
    BY NextGeneration
  <2> QED BY <1>3, <2>1 DEF IInv, SockInv, OneOpened
<1>8. Unborn' /\ Gone' /\ Uses'
  BY DEF IInv, Unborn, Gone, Uses
<1> QED BY <1>2, <1>4, <1>5, <1>6, <1>7, <1>8 DEF IInv, SockInv

LEMMA ConnectionsPreserve ==
  ASSUME IInv, Open \/ \E n \in FDs : Close(n), UNCHANGED platform
  PROVE  IInv'
<1>1. CASE Open
  BY <1>1, HandedIsFree, TableChanged DEF Open
<1>2. ASSUME NEW n \in FDs, Close(n)
      PROVE  IInv'
  BY <1>2, TableChanged DEF Close
<1> QED BY <1>1, <1>2

LEMMA ReceivesPreserve ==
  ASSUME IInv, Request \/ Receive, UNCHANGED platform
  PROVE  IInv'
<1> USE DEF Request, Receive, sockVars
<1>1. TypeOK'
  BY DEF IInv, TypeOK
<1>2. Room'
  BY DEF IInv, SockInv, Room
<1>3. Numbers'
  BY DEF IInv, SockInv, Numbers, Live
<1>4. Holds' /\ NoOther' /\ OneOpened'
  BY DEF IInv, SockInv, Holds, NoOther, OneOpened
<1>5. Unborn' /\ Gone' /\ Uses'
  BY DEF IInv, Unborn, Gone, Uses
<1> QED BY <1>1, <1>2, <1>3, <1>4, <1>5 DEF IInv, SockInv

\* The new socket's number was free, and it is the only one of its generation.
LEMMA OpenCapturePreserves ==
  ASSUME IInv, OpenCapture, UNCHANGED platform
  PROVE  IInv'
<1> PICK n \in FDs : table[n] = Free /\ table' = [table EXCEPT ![n] = <<cur + 1, "capture">>]
  BY HandedIsFree DEF OpenCapture
<1>1. cur \in Gens /\ cur + 1 \in Gens /\ cur + 1 # cur /\ pc = "build" /\ pc' = "opened"
  BY NextGeneration DEF OpenCapture
<1>2. UNCHANGED <<cur, request, running, fd, sendFd, sniff, ticker, inject, dead>>
  BY DEF OpenCapture
<1>3. table' \in [FDs -> Sockets \cup {Free, Conn}]
  BY <1>1 DEF IInv, TypeOK, Sockets, Free, Conn
<1>4. TypeOK'
  BY <1>1, <1>2, <1>3 DEF IInv, TypeOK, Free, Conn
<1>5. Room' /\ Numbers'
  BY <1>1, <1>2 DEF IInv, SockInv, Room, Numbers, Live
<1>6. ~running[cur + 1] /\ fd[cur + 1] = NoFD
  BY <1>1 DEF IInv, SockInv, Numbers, Live
<1>7. \A m \in FDs : table[m] # <<cur + 1, "capture">>
  BY <1>1, <1>6, StopAssumption DEF IInv, SockInv, NoOther, FDs, NoFD
<1>8. \A m \in FDs : table'[m] = IF m = n THEN <<cur + 1, "capture">> ELSE table[m]
  BY DEF IInv, TypeOK
<1>9. Holds'
  BY <1>2, <1>8 DEF IInv, TypeOK, SockInv, Holds, Free
<1>10. NoOther'
  BY <1>1, <1>2, <1>8 DEF IInv, SockInv, NoOther
<1>11. OneOpened'
  <2>1. cur' = cur
    BY <1>2
  <2>2. \A m \in FDs : table'[m] = <<cur + 1, "capture">> <=> m = n
    BY <1>7, <1>8
  <2>3. \E k \in FDs : \A m \in FDs : table'[m] = <<cur + 1, "capture">> <=> m = k
    BY <2>2
  <2> QED BY <2>1, <2>3 DEF OneOpened
<1>12. Unborn' /\ Gone' /\ Uses'
  BY <1>2 DEF IInv, Unborn, Gone, Uses
<1> QED BY <1>4, <1>5, <1>9, <1>10, <1>11, <1>12 DEF IInv, SockInv

LEMMA StartFailsPreserves ==
  ASSUME IInv, StartFails, UNCHANGED platform
  PROVE  IInv'
<1>1. cur \in Gens /\ cur + 1 \in Gens /\ cur + 1 # cur /\ pc = "opened" /\ pc' = "build"
  BY NextGeneration DEF StartFails
<1>2. UNCHANGED <<cur, request, running, fd, sendFd, sniff, ticker, inject, dead>>
  BY DEF StartFails
<1>3. Opened \in FDs /\ \A m \in FDs : table[m] = <<cur + 1, "capture">> <=> m = Opened
  BY <1>1, OpenedIs
<1>4. \A m \in FDs : table'[m] = IF m = Opened THEN Free ELSE table[m]
  BY DEF StartFails, IInv, TypeOK
<1>5. table' \in [FDs -> Sockets \cup {Free, Conn}]
  BY DEF StartFails, IInv, TypeOK, Free, Conn
<1>6. TypeOK'
  BY <1>1, <1>2, <1>5 DEF IInv, TypeOK, Free, Conn
<1>7. Room' /\ Numbers'
  BY <1>1, <1>2 DEF IInv, SockInv, Room, Numbers, Live
<1>8. ~running[cur + 1] /\ fd[cur + 1] = NoFD
  BY <1>1 DEF IInv, SockInv, Numbers, Live
<1>9. Holds'
  <2>1. \A g \in Gens : fd[g] # NoFD => fd[g] \in FDs /\ fd[g] # Opened
    BY <1>3, <1>8 DEF IInv, TypeOK, SockInv, Holds
  <2>2. \A g \in Gens : sendFd[g] # NoFD => sendFd[g] \in FDs /\ sendFd[g] # Opened
    BY <1>3 DEF IInv, TypeOK, SockInv, Holds
  <2> QED BY <1>2, <1>4, <2>1, <2>2 DEF IInv, SockInv, Holds
<1>10. NoOther'
  BY <1>1, <1>2, <1>3, <1>4 DEF IInv, SockInv, NoOther, Free
<1>11. OneOpened' /\ Unborn' /\ Gone' /\ Uses'
  BY <1>1, <1>2 DEF IInv, OneOpened, Unborn, Gone, Uses
<1> QED BY <1>6, <1>7, <1>9, <1>10, <1>11 DEF IInv, SockInv

\* The loops of the next generation start, with nothing loaded yet.
LEMMA StartedPreserves ==
  ASSUME IInv, Started, StartWithoutSend \/ Start, UNCHANGED platform
  PROVE  IInv'
<1>1. cur \in Gens /\ cur + 1 \in Gens /\ cur + 1 # cur /\ pc = "opened" /\ pc' = "stop"
  BY NextGeneration DEF Started
<1>2. UNCHANGED <<cur, request, inject, dead>>
  BY DEF Started
<1>3. Opened \in FDs /\ \A m \in FDs : table[m] = <<cur + 1, "capture">> <=> m = Opened
  BY <1>1, OpenedIs
<1>4. /\ fd' \in [Gens -> FDs \cup {NoFD}]
      /\ running' \in [Gens -> BOOLEAN]
      /\ ticker' \in [Gens -> BOOLEAN]
      /\ fd'[cur + 1] = Opened /\ running'[cur + 1] /\ ticker'[cur + 1]
      /\ \A g \in Gens : g # cur + 1 =>
           fd'[g] = fd[g] /\ (running'[g] <=> running[g]) /\ (ticker'[g] <=> ticker[g])
  BY <1>1, <1>3 DEF Started, IInv, TypeOK
<1>5. /\ ~running[cur + 1] /\ sendFd[cur + 1] = NoFD
      /\ sniff[cur + 1].pc = "off" /\ inject[cur + 1].pc = "none"
  <2>1. ~running[cur + 1] /\ sendFd[cur + 1] = NoFD
    BY <1>1 DEF IInv, SockInv, Numbers, Live
  <2>2. cur + 1 > cur
    BY <1>1 DEF Gens
  <2> QED BY <1>1, <2>1, <2>2 DEF IInv, Unborn
<1>6. /\ sniff' \in [Gens -> Sniffer]
      /\ sniff'[cur + 1].pc = "loop"
      /\ \A g \in Gens : g # cur + 1 => sniff'[g] = sniff[g]
  <2>1. sniff[cur + 1] \in Sniffer
    BY <1>1 DEF IInv, TypeOK
  <2>2. [sniff[cur + 1] EXCEPT !.pc = "loop"] \in Sniffer
    BY <2>1, SnifferChanged
  <2>3. [sniff[cur + 1] EXCEPT !.pc = "loop"].pc = "loop"
    BY <2>1 DEF Sniffer
  <2> QED BY <1>1, <2>2, <2>3 DEF Started, IInv, TypeOK
<1>7. PICK n \in FDs \cup {NoFD} :
        /\ n = NoFD \/ (n \in FDs /\ table[n] = Free)
        /\ sendFd' = [sendFd EXCEPT ![cur + 1] = n]
        /\ table' = IF n = NoFD THEN table ELSE [table EXCEPT ![n] = <<cur + 1, "send">>]
  <2>1. CASE StartWithoutSend
    <3>1. sendFd' = [sendFd EXCEPT ![cur + 1] = NoFD]
      BY <1>1, <1>5, <2>1 DEF StartWithoutSend, IInv, TypeOK
    <3> QED BY <2>1, <3>1 DEF StartWithoutSend
  <2>2. CASE Start
    <3>1. \A m \in FDs : m # NoFD
      BY StopAssumption DEF FDs, NoFD
    <3> QED BY <2>2, <3>1, HandedIsFree DEF Start
  <2> QED BY <2>1, <2>2
<1>8. \A m \in FDs : table'[m] = IF m = n THEN <<cur + 1, "send">> ELSE table[m]
  <2>1. n = NoFD => n \notin FDs
    BY StopAssumption DEF FDs, NoFD
  <2> QED BY <1>7, <2>1 DEF IInv, TypeOK
<1>9. \A g \in Gens : sendFd'[g] = IF g = cur + 1 THEN n ELSE sendFd[g]
  BY <1>7 DEF IInv, TypeOK
<1>10. TypeOK'
  <2>1. table' \in [FDs -> Sockets \cup {Free, Conn}]
    BY <1>1, <1>7 DEF IInv, TypeOK, Sockets, Free, Conn
  <2>2. sendFd' \in [Gens -> FDs \cup {NoFD}]
    BY <1>7 DEF IInv, TypeOK
  <2>3. \A g \in Gens : sniff'[g].pc = "recv" => sniff'[g].fd \in FDs
    BY <1>6 DEF IInv, TypeOK
  <2> QED BY <1>1, <1>2, <1>4, <1>6, <2>1, <2>2, <2>3 DEF IInv, TypeOK, Free, Conn
<1>11. Room'
  BY <1>1, <1>2 DEF IInv, SockInv, Room
<1>12. Numbers'
  <2>1. NoFD \notin FDs
    BY StopAssumption DEF FDs, NoFD
  <2>2. ASSUME NEW g \in Gens, g # cur + 1
        PROVE  /\ running'[g] <=> Live(g)'
               /\ fd'[g] # NoFD <=> running'[g]
               /\ sendFd'[g] # NoFD => running'[g] \/ (g = cur' /\ pc' = "closing")
    <3>1. /\ running[g] <=> Live(g)
          /\ fd[g] # NoFD <=> running[g]
          /\ sendFd[g] # NoFD => running[g] \/ (g = cur /\ pc = "closing")
      BY DEF IInv, SockInv, Numbers
    <3>2. Live(g)' <=> Live(g)
      BY <1>1, <1>2, <2>2 DEF Live
    <3>3. running[g] \in BOOLEAN /\ running'[g] \in BOOLEAN
      BY <1>4 DEF IInv, TypeOK
    <3>4. running'[g] <=> Live(g)'
      BY <1>4, <2>2, <3>1, <3>2, <3>3
    <3>5. sendFd'[g] = sendFd[g] /\ fd'[g] = fd[g] /\ (running'[g] <=> running[g])
      BY <1>4, <1>9, <2>2
    <3> QED BY <1>1, <3>1, <3>4, <3>5
  <2>3. ASSUME NEW g \in Gens, g = cur + 1
        PROVE  Live(g)' /\ running'[g] /\ fd'[g] # NoFD
    BY <1>1, <1>2, <1>3, <1>4, <2>1, <2>3 DEF Live
  <2> QED
    <3> SUFFICES ASSUME NEW g \in Gens
                 PROVE  /\ running'[g] <=> Live(g)'
                        /\ fd'[g] # NoFD <=> running'[g]
                        /\ sendFd'[g] # NoFD => running'[g] \/ (g = cur' /\ pc' = "closing")
      BY DEF Numbers
    <3>1. CASE g = cur + 1
      BY <2>3, <3>1
    <3> QED BY <2>2, <3>1
<1>13. Holds'
  <2>1. \A g \in Gens : fd[g] # NoFD => fd[g] \in FDs /\ fd[g] # n
    BY <1>7 DEF IInv, TypeOK, SockInv, Holds, Free
  <2>2. \A g \in Gens : sendFd[g] # NoFD => sendFd[g] \in FDs /\ sendFd[g] # n
    BY <1>7 DEF IInv, TypeOK, SockInv, Holds, Free
  <2>3. Opened # n
    BY <1>3, <1>7 DEF Free, FDs, NoFD
  <2>4. ASSUME NEW g \in Gens
        PROVE  fd'[g] # NoFD => table'[fd'[g]] = <<g, "capture">>
    <3>1. CASE g = cur + 1
      <4>1. fd'[g] = Opened /\ table'[Opened] = table[Opened]
        BY <1>3, <1>4, <1>8, <2>3, <3>1
      <4> QED BY <1>3, <3>1, <4>1
    <3>2. CASE g # cur + 1
      <4>1. fd'[g] = fd[g] /\ (fd[g] # NoFD => table'[fd[g]] = table[fd[g]])
        BY <1>4, <1>8, <2>1, <3>2
      <4> QED BY <4>1 DEF IInv, SockInv, Holds
    <3> QED BY <3>1, <3>2
  <2>5. ASSUME NEW g \in Gens
        PROVE  sendFd'[g] # NoFD => table'[sendFd'[g]] = <<g, "send">>
    BY <1>7, <1>8, <1>9, <2>2 DEF IInv, SockInv, Holds
  <2> QED BY <2>4, <2>5 DEF Holds
<1>14. NoOther'
  <2>1. ASSUME NEW g \in Gens, NEW m \in FDs, table'[m] = <<g, "capture">>
        PROVE  fd'[g] = m
    <3>1. m # n /\ table[m] = <<g, "capture">>
      BY <1>8, <2>1
    <3> QED BY <1>3, <1>4, <3>1 DEF IInv, SockInv, NoOther
  <2>2. ASSUME NEW g \in Gens, NEW m \in FDs, table'[m] = <<g, "send">>
        PROVE  sendFd'[g] = m
    <3>1. m = n => g = cur + 1
      BY <1>8, <2>2
    <3>2. m # n => sendFd[g] = m
      BY <1>8, <2>2 DEF IInv, SockInv, NoOther
    <3>3. sendFd[cur + 1] # m
      BY <1>5, StopAssumption DEF FDs, NoFD
    <3> QED BY <1>9, <3>1, <3>2, <3>3
  <2> QED BY <2>1, <2>2 DEF NoOther
<1>15. OneOpened' /\ Gone'
  <2>1. OneOpened'
    BY <1>1 DEF OneOpened
  <2>2. \A g \in Gens : g < cur => g # cur + 1
    BY <1>1 DEF Gens
  <2> QED BY <1>2, <1>4, <1>6, <2>1, <2>2 DEF IInv, Gone
<1>16. Unborn'
  BY <1>2, <1>4, <1>6 DEF IInv, Unborn
<1>17. Uses'
  BY <1>2, <1>4, <1>5, <1>6, <1>9 DEF IInv, Uses
<1> QED BY <1>10, <1>11, <1>12, <1>13, <1>14, <1>15, <1>16, <1>17 DEF IInv, SockInv

\* Stop of the current generation: it stops running with its capture socket, so
\* that what its goroutines have loaded is of no concern any more.
LEMMA CloseCapturePreserves ==
  ASSUME IInv, StopCapture \/ StopDivert, UNCHANGED platform
  PROVE  IInv'
<1>1. cur \in Gens /\ cur + 1 \in Gens /\ cur + 1 # cur /\ pc = "stop" /\ pc' = "closing"
  BY NextGeneration DEF StopCapture, StopDivert, CloseCapture
<1>2. UNCHANGED <<cur, request, sendFd, ticker, inject, dead>>
  BY DEF StopCapture, StopDivert, CloseCapture
<1>3. /\ running' = [running EXCEPT ![cur] = FALSE]
      /\ fd' = [fd EXCEPT ![cur] = NoFD]
      /\ table' = [table EXCEPT ![fd[cur]] = Free]
  BY DEF StopCapture, StopDivert, CloseCapture
<1>4. running[cur] /\ fd[cur] \in FDs /\ table[fd[cur]] = <<cur, "capture">>
  <2>1. running[cur] /\ fd[cur] # NoFD
    BY <1>1 DEF IInv, SockInv, Numbers, Live
  <2> QED BY <1>1, <2>1 DEF IInv, TypeOK, SockInv, Holds
<1>5. /\ ~running'[cur] /\ fd'[cur] = NoFD
      /\ \A g \in Gens : g # cur => fd'[g] = fd[g] /\ (running'[g] <=> running[g])
  BY <1>1, <1>3 DEF IInv, TypeOK
<1>6. \A m \in FDs : table'[m] = IF m = fd[cur] THEN Free ELSE table[m]
  BY <1>3 DEF IInv, TypeOK
<1>7. ASSUME NEW g \in Gens
      PROVE  sniff'[g] \in {sniff[g], [sniff[g] EXCEPT !.pc = "loop", !.socket = NoSocket]}
             /\ (sniff'[g] # sniff[g] => sniff[g].pc = "blocked")
  BY DEF StopCapture, StopDivert, Woken, IInv, TypeOK
<1>8. sniff' = [g \in Gens |-> sniff'[g]]
  BY DEF StopCapture, StopDivert, Woken, IInv, TypeOK
<1>9. ASSUME NEW g \in Gens
      PROVE  /\ sniff'[g] \in Sniffer
             /\ sniff'[g].pc = "recv" => sniff'[g] = sniff[g]
             /\ sniff[g].pc \in {"off", "done"} => sniff'[g].pc = sniff[g].pc
  <2>1. sniff[g] \in Sniffer
    BY DEF IInv, TypeOK
  <2>2. CASE sniff'[g] = sniff[g]
    BY <2>1, <2>2
  <2>3. CASE sniff'[g] = [sniff[g] EXCEPT !.pc = "loop", !.socket = NoSocket] /\ sniff[g].pc = "blocked"
    <3>1. sniff'[g] \in Sniffer
      BY <2>1, <2>3, SnifferChanged
    <3>2. sniff'[g].pc = "loop"
      BY <2>1, <2>3 DEF Sniffer
    <3> QED BY <2>3, <3>1, <3>2
  <2> QED BY <1>7, <2>2, <2>3
<1>10. TypeOK'
  <2>1. table' \in [FDs -> Sockets \cup {Free, Conn}]
    BY <1>3 DEF IInv, TypeOK, Free, Conn
  <2>2. running' \in [Gens -> BOOLEAN] /\ fd' \in [Gens -> FDs \cup {NoFD}]
    BY <1>3 DEF IInv, TypeOK
  <2>3. sniff' \in [Gens -> Sniffer]
    BY <1>8, <1>9
  <2>4. \A g \in Gens : sniff'[g].pc = "recv" => sniff'[g].fd \in FDs
    BY <1>9 DEF IInv, TypeOK
  <2> QED BY <1>1, <1>2, <2>1, <2>2, <2>3, <2>4 DEF IInv, TypeOK, Free, Conn
<1>11. Room'
  BY <1>1, <1>2 DEF IInv, SockInv, Room
<1>12. Numbers'
  <2> SUFFICES ASSUME NEW g \in Gens
               PROVE  /\ running'[g] <=> Live(g)'
                      /\ fd'[g] # NoFD <=> running'[g]
                      /\ sendFd'[g] # NoFD => running'[g] \/ (g = cur' /\ pc' = "closing")
    BY DEF Numbers
  <2>1. CASE g = cur
    BY <1>1, <1>2, <1>5, <2>1 DEF Live
  <2>2. CASE g # cur
    <3>1. Live(g)' <=> Live(g)
      BY <1>1, <1>2, <2>2 DEF Live
    <3> QED BY <1>1, <1>2, <1>5, <2>2, <3>1 DEF IInv, SockInv, Numbers
  <2> QED BY <2>1, <2>2
<1>13. Holds'
  <2>1. \A g \in Gens : g # cur /\ fd[g] # NoFD => fd[g] \in FDs /\ fd[g] # fd[cur]
    BY <1>4 DEF IInv, TypeOK, SockInv, Holds
  <2>2. \A g \in Gens : sendFd[g] # NoFD => sendFd[g] \in FDs /\ sendFd[g] # fd[cur]
    BY <1>4 DEF IInv, TypeOK, SockInv, Holds
  <2>3. ASSUME NEW g \in Gens, fd'[g] # NoFD
        PROVE  table'[fd'[g]] = <<g, "capture">>
    <3>1. g # cur /\ fd'[g] = fd[g]
      BY <1>5, <2>3
    <3>2. table'[fd[g]] = table[fd[g]]
      BY <1>6, <2>1, <2>3, <3>1
    <3> QED BY <2>3, <3>1, <3>2 DEF IInv, SockInv, Holds
  <2>4. ASSUME NEW g \in Gens, sendFd'[g] # NoFD
        PROVE  table'[sendFd'[g]] = <<g, "send">>
    <3>1. table'[sendFd[g]] = table[sendFd[g]]
      BY <1>2, <1>6, <2>2, <2>4
    <3> QED BY <1>2, <2>4, <3>1 DEF IInv, SockInv, Holds
  <2> QED BY <2>3, <2>4 DEF Holds
<1>14. NoOther'
  <2>1. ASSUME NEW g \in Gens, NEW m \in FDs
        PROVE  /\ table'[m] = <<g, "capture">> => fd'[g] = m
               /\ table'[m] = <<g, "send">> => sendFd'[g] = m
    <3>1. ASSUME NEW k \in {"capture", "send"}, table'[m] = <<g, k>>
          PROVE  m # fd[cur] /\ table[m] = <<g, k>>
      <4>1. Free # <<g, k>>
        BY DEF Free
      <4> QED BY <1>6, <3>1, <4>1
    <3>2. table'[m] = <<g, "send">> => sendFd'[g] = m
      <4>1. table'[m] = <<g, "send">> => table[m] = <<g, "send">>
        BY <3>1
      <4> QED BY <1>2, <4>1 DEF IInv, SockInv, NoOther
    <3>3. ASSUME table'[m] = <<g, "capture">>
          PROVE  fd'[g] = m
      <4>1. m # fd[cur] /\ fd[g] = m
        <5>1. m # fd[cur] /\ table[m] = <<g, "capture">>
          BY <3>1, <3>3
        <5> QED BY <1>1, <5>1 DEF IInv, SockInv, NoOther
      <4>2. g # cur
        BY <4>1
      <4> QED BY <1>5, <4>1, <4>2
    <3> QED BY <3>2, <3>3
  <2> QED BY <2>1 DEF NoOther
<1>15. OneOpened'
  BY <1>1 DEF OneOpened
<1>16. Unborn'
  <2>1. \A g \in Gens : g > cur => g # cur
    BY <1>1 DEF Gens
  <2> QED BY <1>2, <1>5, <1>9, <2>1 DEF IInv, Unborn
<1>17. Gone'
  BY <1>2, <1>9 DEF IInv, Gone
<1>18. Uses'
  BY <1>2, <1>5, <1>9 DEF IInv, Uses
<1> QED BY <1>10, <1>11, <1>12, <1>13, <1>14, <1>15, <1>16, <1>17, <1>18 DEF IInv, SockInv

LEMMA StopSendPreserves ==
  ASSUME IInv, StopSend, UNCHANGED platform
  PROVE  IInv'
<1>1. cur \in Gens /\ cur + 1 \in Gens /\ cur + 1 # cur /\ pc = "closing" /\ pc' = "wait"
  BY NextGeneration DEF StopSend
<1>2. UNCHANGED <<cur, request, running, fd, sniff, ticker, inject, dead>>
  BY DEF StopSend
<1>3. sendFd'[cur] = NoFD /\ \A g \in Gens : g # cur => sendFd'[g] = sendFd[g]
  BY <1>1 DEF StopSend, IInv, TypeOK
<1>4. \A m \in FDs : table'[m] = IF m = sendFd[cur] THEN Free ELSE table[m]
  <2>1. \A m \in FDs : m # NoFD
    BY StopAssumption DEF FDs, NoFD
  <2> QED BY <2>1 DEF StopSend, IInv, TypeOK
<1>5. TypeOK'
  <2>1. table' \in [FDs -> Sockets \cup {Free, Conn}] /\ sendFd' \in [Gens -> FDs \cup {NoFD}]
    BY DEF StopSend, IInv, TypeOK, Free, Conn
  <2> QED BY <1>1, <1>2, <2>1 DEF IInv, TypeOK, Free, Conn
<1>6. Room'
  BY <1>1, <1>2 DEF IInv, SockInv, Room
<1>7. Numbers'
  <2> SUFFICES ASSUME NEW g \in Gens
               PROVE  /\ running'[g] <=> Live(g)'
                      /\ fd'[g] # NoFD <=> running'[g]
                      /\ sendFd'[g] # NoFD => running'[g] \/ (g = cur' /\ pc' = "closing")
    BY DEF Numbers
  <2>1. Live(g)' <=> Live(g)
    BY <1>1, <1>2 DEF Live
  <2>2. sendFd'[g] # NoFD => running[g]
    BY <1>3 DEF IInv, SockInv, Numbers
  <2> QED BY <1>2, <2>1, <2>2 DEF IInv, SockInv, Numbers
<1>8. Holds'
  <2>1. ASSUME NEW g \in Gens, fd[g] # NoFD
        PROVE  table'[fd[g]] = <<g, "capture">>
    <3>1. fd[g] \in FDs /\ table[fd[g]] = <<g, "capture">>
      BY <2>1 DEF IInv, TypeOK, SockInv, Holds
    <3>2. sendFd[cur] # NoFD => table[sendFd[cur]] = <<cur, "send">>
      BY <1>1 DEF IInv, SockInv, Holds
    <3>3. fd[g] # sendFd[cur]
      BY <2>1, <3>1, <3>2
    <3> QED BY <1>4, <3>1, <3>3
  <2>2. ASSUME NEW g \in Gens, sendFd'[g] # NoFD
        PROVE  table'[sendFd'[g]] = <<g, "send">>
    <3>1. g # cur /\ sendFd'[g] = sendFd[g]
      BY <1>3, <2>2
    <3>2. sendFd[g] \in FDs /\ table[sendFd[g]] = <<g, "send">>
      BY <2>2, <3>1 DEF IInv, TypeOK, SockInv, Holds
    <3>3. sendFd[cur] # NoFD => table[sendFd[cur]] = <<cur, "send">>
      BY <1>1 DEF IInv, SockInv, Holds
    <3>4. sendFd[g] # sendFd[cur]
      BY <2>2, <3>1, <3>2, <3>3
    <3> QED BY <1>4, <3>1, <3>2, <3>4
  <2> QED BY <1>2, <2>1, <2>2 DEF Holds
<1>9. NoOther'
  <2>1. ASSUME NEW g \in Gens, NEW m \in FDs, NEW k \in {"capture", "send"}, table'[m] = <<g, k>>
        PROVE  m # sendFd[cur] /\ table[m] = <<g, k>>
    <3>1. Free # <<g, k>>
      BY DEF Free
    <3> QED BY <1>4, <2>1, <3>1
  <2>2. ASSUME NEW g \in Gens, NEW m \in FDs, table'[m] = <<g, "capture">>
        PROVE  fd'[g] = m
    <3>1. table[m] = <<g, "capture">>
      BY <2>1, <2>2
    <3> QED BY <1>1, <1>2, <3>1 DEF IInv, SockInv, NoOther
  <2>3. ASSUME NEW g \in Gens, NEW m \in FDs, table'[m] = <<g, "send">>
        PROVE  sendFd'[g] = m
    <3>1. m # sendFd[cur] /\ table[m] = <<g, "send">>
      BY <2>1, <2>3
    <3>2. sendFd[g] = m
      BY <3>1 DEF IInv, SockInv, NoOther
    <3>3. g # cur
      BY <3>1, <3>2
    <3> QED BY <1>3, <3>2, <3>3
  <2> QED BY <2>2, <2>3 DEF NoOther
<1>10. OneOpened' /\ Unborn' /\ Gone'
  BY <1>1, <1>2 DEF IInv, OneOpened, Unborn, Gone
<1>11. Uses'
  <2>1. ~running[cur]
    BY <1>1 DEF IInv, SockInv, Numbers, Live
  <2> QED BY <1>2, <1>3, <2>1 DEF IInv, Uses
<1> QED BY <1>5, <1>6, <1>7, <1>8, <1>9, <1>10, <1>11 DEF IInv, SockInv

\* wg.Wait has returned: the next generation becomes the current one.
LEMMA StoppedPreserves ==
  ASSUME IInv, Stopped, UNCHANGED platform
  PROVE  IInv'
<1>1. cur \in Gens /\ cur + 1 \in Gens /\ pc = "wait" /\ pc' = "select" /\ cur' = cur + 1
  BY NextGeneration DEF Stopped
<1>2. UNCHANGED <<request, sockVars, sniff, ticker, inject, dead>>
  BY DEF Stopped
<1>3. TypeOK'
  BY <1>1, <1>2 DEF IInv, TypeOK, sockVars
<1>4. Room' /\ OneOpened'
  BY <1>1 DEF Room, OneOpened
<1>5. Numbers'
  <2> SUFFICES ASSUME NEW g \in Gens
               PROVE  /\ running'[g] <=> Live(g)'
                      /\ fd'[g] # NoFD <=> running'[g]
                      /\ sendFd'[g] # NoFD => running'[g] \/ (g = cur' /\ pc' = "closing")
    BY DEF Numbers
  <2>1. Live(g)' <=> Live(g)
    BY <1>1 DEF Live
  <2> QED BY <1>1, <1>2, <2>1 DEF IInv, SockInv, Numbers, sockVars
<1>6. Holds' /\ NoOther'
  BY <1>1, <1>2 DEF IInv, SockInv, Holds, NoOther, sockVars
<1>7. \A g \in Gens : g > cur + 1 => g > cur
  BY <1>1 DEF Gens
<1>8. Unborn'
  BY <1>1, <1>2, <1>7 DEF IInv, Unborn, sockVars
<1>9. sniff[cur].pc = "done" /\ ~ticker[cur]
  BY DEF Stopped
<1>10. \A g \in Gens : g < cur + 1 => g < cur \/ g = cur
  BY <1>1 DEF Gens
<1>11. Gone'
  BY <1>1, <1>2, <1>9, <1>10 DEF IInv, Gone
<1>12. Uses'
  BY <1>2 DEF IInv, Uses, sockVars
<1> QED BY <1>3, <1>4, <1>5, <1>6, <1>8, <1>11, <1>12 DEF IInv, SockInv

-----------------------------------------------------------------------------
(* Results.                                                                *)

LEMMA MainPreserves ==
  ASSUME IInv, Main, UNCHANGED platform
  PROVE  IInv'
  BY ReceivesPreserve, OpenCapturePreserves, StartFailsPreserves, StartedPreserves,
     CloseCapturePreserves, StopSendPreserves, StoppedPreserves
  DEF Main, StartWithoutSend, Start

LEMMA StepPreserves == IInv /\ [Next]_vars => IInv'
<1> SUFFICES ASSUME IInv, [Next]_vars PROVE IInv'
  OBVIOUS
<1>1. CASE UNCHANGED vars
  <2>1. SockInv'
    BY <1>1, SocketsKept DEF vars, mainVars, IInv
  <2>2. TypeOK' /\ Unborn' /\ Gone' /\ Uses'
    BY <1>1 DEF vars, mainVars, sockVars, IInv, TypeOK, Unborn, Gone, Uses
  <2> QED BY <2>1, <2>2 DEF IInv
<1>2. CASE Next
  BY <1>2, MainPreserves, ReceivesPreserve, SniffersPreserve, TickerPreserves,
     InjectionsPreserve, ConnectionsPreserve
  DEF Next
<1> QED BY <1>1, <1>2

\* The variables keep their types: no generation past the last is built, and a
\* receive always has a number.
THEOREM TypeCorrect == Spec => []TypeOK
<1>1. IInv => TypeOK
  BY DEF IInv
<1> QED BY <1>1, InitHolds, StepPreserves, PTL DEF Spec

\* However often the runtimes are rebuilt, nothing is left of an injector whose
\* Stop returned, nor of one whose Start failed (rawinjector_linux.go:437-454,
\* rawinjector_windows.go:186-190, 225-238).
THEOREM StoppedStaysGone == Spec => []StoppedIsGone
  BY ImpliesGone, InitHolds, StepPreserves, PTL DEF Spec

\* However the kernel hands numbers out again, a running injector reads from and
\* sends on its own sockets (rawinjector_linux.go:78-79).
THEOREM RunningUsesItsOwn == Spec => []OwnWhileRunning
  BY ImpliesOwn, InitHolds, StepPreserves, PTL DEF Spec
=============================================================================
