---------------------------- MODULE FirstWrite -----------------------------
(***************************************************************************)
(* What a strategy's Apply (internal/bypass) writes to the upstream between *)
(* the handler's dial and its verdict, what the handler and the relay write *)
(* after it, and what the server at the other end then reads.              *)
(*                                                                         *)
(* Built over Forwarder: a step of the handler is Forwarder's action with  *)
(* the strategy's state added; a step of the strategy leaves the handler   *)
(* where it is.  The injector's own part of a wait is in WrongSeq.         *)
(***************************************************************************)
EXTENDS Forwarder, SequencesExt

CONSTANTS
  Cases,  \* what the connections of a server carry, and how it writes it
  Chunk   \* the length of a piece of "multi", in units

\* A byte stream is a sequence of units: the header of a TLS record, with the
\* length it announces, or a unit of data.
Header(n) == <<"header", n>>
Data(k)   == <<"data", k>>
IsHeader(u) == u[1] = "header"

\* What clients send.
Unit == {"header", "data"} \X Nat

\* The data, without the headers.
DataOf(stream) ==
  LET upto[n \in 0 .. Len(stream)] ==
        IF n = 0 THEN <<>>
        ELSE IF IsHeader(stream[n]) THEN upto[n - 1] ELSE Append(upto[n - 1], stream[n])
  IN upto[Len(stream)]

\* What a server can read as records: a header comes first, and the next header
\* comes after as many units of data as it announces, if the stream goes on so far.
InRecords(stream) ==
  /\ stream # <<>> => IsHeader(stream[1])
  /\ \A i \in 1 .. Len(stream) :
       IsHeader(stream[i]) =>
         LET next == i + 1 + stream[i][2]
         IN \A j \in i + 1 .. Len(stream) :
              j <= next => (IsHeader(stream[j]) <=> j = next)

Slicings == {"none", "sni_split", "half", "multi", "tls_record_frag"}

\* What buildStrategy makes of the configuration: a server with an injector
\* fakes on the raw path, and only ttl_trick and USE_TTL_TRICK fake in the stream.
Techniques(s) ==
  CASE s.method = "fragment" -> [slicing : Slicings, fake : {FALSE}]
    [] s.method = "combined" -> [slicing : Slicings, fake : IF s.raw THEN {FALSE} ELSE BOOLEAN]
    [] s.method = "fake_sni" /\ ~s.raw ->
         {[slicing |-> "sni_split", fake |-> FALSE], [slicing |-> "none", fake |-> TRUE]}
    [] OTHER -> {[slicing |-> "none", fake |-> FALSE]}

\* "hello" is what the client sends before it waits for an answer: records, where
\* it begins as one; "got" is how much of it the handler's single Read returned.
ASSUME CaseAssumption ==
  /\ Chunk \in Nat \ {0}
  /\ \A case \in Cases :
       /\ case.server \in Settings
       /\ case.technique \in Techniques(case.server)
       /\ case.hello \in Seq(Unit)
       /\ case.got \in 1 .. Len(case.hello)
       /\ IsHeader(case.hello[1]) => InRecords(case.hello)

VARIABLES
  technique,  \* the slicing, and whether a fake hello is written to the stream
  hello,      \* what a client sends
  first,      \* what the handler read of it
  stage,      \* where each connection's strategy is
  todo,       \* the pieces it has yet to write
  sent,       \* what the current upstream has been sent
  alive,      \* whether the upstream takes writes
  relayed     \* whether the rest of the client's bytes were copied

carried   == <<technique, hello, first>>
writeVars == <<stage, todo, sent, alive, relayed>>
wvars     == <<vars, carried, writeVars>>

Stages == {"idle", "wait", "fake", "write"}

WInit ==
  /\ Init
  /\ \E case \in Cases :
       /\ server = case.server
       /\ technique = case.technique
       /\ hello = case.hello
       /\ first = SubSeq(case.hello, 1, case.got)
  /\ stage = [c \in Conns |-> "idle"]
  /\ todo = [c \in Conns |-> <<>>]
  /\ sent = [c \in Conns |-> <<>>]
  /\ alive = [c \in Conns |-> TRUE]
  /\ relayed = [c \in Conns |-> FALSE]

-----------------------------------------------------------------------------
(* FragmentClientHello.                                                    *)

SplitAt(stream, k) == <<SubSeq(stream, 1, k), SubSeq(stream, k + 1, Len(stream))>>

\* fragmentMulti: pieces of Chunk units, the last one of what is left.
Chunks(stream) ==
  [i \in 1 .. (Len(stream) + Chunk - 1) \div Chunk |->
     SubSeq(stream, (i - 1) * Chunk + 1, LesserOf(i * Chunk, Len(stream)))]

\* Mutant of Records: the second record announces the length of the first.
RecordsOfOneLength(stream) ==
  LET body == Tail(stream)
      mid  == Len(body) \div 2
  IN <<<<Header(mid)>> \o SubSeq(body, 1, mid),
       <<Header(mid)>> \o SubSeq(body, mid + 1, Len(body))>>

\* tlsRecordFragment: all that follows the first header, as two records.
Records(stream) ==
  LET body == Tail(stream)
      mid  == Len(body) \div 2
  IN <<<<Header(mid)>> \o SubSeq(body, 1, mid),
       <<Header(Len(body) - mid)>> \o SubSeq(body, mid + 1, Len(body))>>

\* The lists of pieces it may return.  A stream of one unit has less than ten
\* bytes; the SNI, or what FindSNIOffset takes for it, can be anywhere.
Pieces(stream) ==
  IF Len(stream) < 2 \/ ~IsHeader(stream[1]) THEN {<<stream>>}
  ELSE CASE technique.slicing = "sni_split" -> {SplitAt(stream, k) : k \in 1 .. Len(stream) - 1}
         [] technique.slicing = "half" -> {SplitAt(stream, Len(stream) \div 2)}
         [] technique.slicing = "multi" -> {Chunks(stream)}
         [] technique.slicing = "tls_record_frag" -> {Records(stream)}
         [] OTHER -> {<<stream>>}

\* BuildClientHello: one record, of data no client sends.
FakeHello == <<Header(1), Data("fake")>>

-----------------------------------------------------------------------------
(* The strategy, from the dial to its verdict.                             *)

StageOf == IF server.raw THEN "wait" ELSE IF technique.fake THEN "fake" ELSE "write"

Dialled(c) ==
  /\ Dial(c)
  /\ stage' = [stage EXCEPT ![c] = StageOf]
  /\ \E pieces \in Pieces(first) : todo' = [todo EXCEPT ![c] = pieces]
  /\ sent' = [sent EXCEPT ![c] = <<>>]
  /\ alive' = [alive EXCEPT ![c] = TRUE]
  /\ UNCHANGED <<carried, relayed>>

\* WaitForConfirmationDetailed returned.  fake_sni and combined go on whatever
\* it says; wrong_seq only when it confirms.
Waited(c) ==
  /\ stage[c] = "wait"
  /\ stage' = [stage EXCEPT ![c] = "write"]
  /\ UNCHANGED <<vars, carried, todo, sent, alive, relayed>>

\* The fake hello is written with a TTL of 3, or, where the TTL cannot be read,
\* and in combined where it cannot be set, with the usual one.  The TTL does not
\* matter to the stream: the kernel sends the segment again after the TTL is
\* restored.  The write's error is ignored.
WriteFake(c) ==
  /\ stage[c] = "fake"
  /\ stage' = [stage EXCEPT ![c] = "write"]
  /\ \/ sent' = [sent EXCEPT ![c] = @ \o FakeHello] /\ UNCHANGED alive
     \/ alive' = [alive EXCEPT ![c] = FALSE] /\ UNCHANGED sent
  /\ UNCHANGED <<vars, carried, todo, relayed>>

Send(c, stream) ==
  sent' = IF alive'[c] THEN [sent EXCEPT ![c] = @ \o stream] ELSE sent

\* A piece is written, and is not the last.
WritePiece(c) ==
  /\ stage[c] = "write"
  /\ Len(todo[c]) > 1
  /\ alive[c]
  /\ sent' = [sent EXCEPT ![c] = @ \o todo[c][1]]
  /\ todo' = [todo EXCEPT ![c] = Tail(@)]
  /\ UNCHANGED <<vars, carried, stage, alive, relayed>>

\* The last piece is written and Apply returns true.
WriteLast(c) ==
  /\ stage[c] = "write"
  /\ Len(todo[c]) = 1
  /\ alive[c]
  /\ ApplyOK(c)
  /\ sent' = [sent EXCEPT ![c] = @ \o todo[c][1]]
  /\ todo' = [todo EXCEPT ![c] = <<>>]
  /\ stage' = [stage EXCEPT ![c] = "idle"]
  /\ UNCHANGED <<carried, alive, relayed>>

\* Apply returns false: a write failed, which a TCP socket without deadlines does
\* only when it is dead; the injector did not confirm; or ttl_trick could not
\* lower the TTL.
MayReturnFalse(c) ==
  \/ stage[c] = "write" /\ alive' = [alive EXCEPT ![c] = FALSE]
  \/ server.method = "wrong_seq" /\ stage[c] = "wait" /\ UNCHANGED alive
  \/ server.method = "fake_sni" /\ stage[c] = "fake" /\ UNCHANGED alive

\* The handler goes on to the next endpoint, drops the connection, or writes the
\* first bytes itself and ignores how that went.
ReturnsFalse(c) ==
  /\ MayReturnFalse(c)
  /\ \/ ApplyFailsOver(c) /\ UNCHANGED sent
     \/ /\ ApplyFailsLast(c)
        /\ IF server.method = "wrong_seq" THEN UNCHANGED sent ELSE Send(c, first)
  /\ stage' = [stage EXCEPT ![c] = "idle"]
  /\ todo' = [todo EXCEPT ![c] = <<>>]
  /\ UNCHANGED <<carried, relayed>>

\* io.Copy to the upstream, up to where the client waits for an answer.
RelayRest(c) ==
  /\ pc[c] = "relay"
  /\ "up" \in copying[c]
  /\ ~relayed[c]
  /\ relayed' = [relayed EXCEPT ![c] = TRUE]
  /\ UNCHANGED alive
  /\ Send(c, SubSeq(hello, Len(first) + 1, Len(hello)))
  /\ UNCHANGED <<vars, carried, stage, todo>>

-----------------------------------------------------------------------------

Strategy(c) ==
  \/ Dialled(c)
  \/ Waited(c)
  \/ WriteFake(c)
  \/ WritePiece(c)
  \/ WriteLast(c)
  \/ ReturnsFalse(c)

\* The handler's steps outside Dial and Apply.
Outside(c) ==
  /\ \/ Read(c) \/ Pick(c) \/ Begin(c) \/ BeginFails(c) \/ DialFails(c)
     \/ Report(c)
     \/ \E direction \in {"up", "down"} : CopyEnds(c, direction)
     \/ Return(c)
  /\ UNCHANGED <<carried, writeVars>>

WNext == \E c \in Conns : Strategy(c) \/ Outside(c) \/ RelayRest(c)

WSpec == WInit /\ [][WNext]_wvars

\* As in Forwarder; in a strategy only the wait and the pauses take time, and all
\* of them are bounded.
WFairness ==
  \A c \in Conns :
    /\ WF_wvars(Strategy(c))
    /\ WF_wvars((Read(c) \/ Pick(c) \/ Begin(c) \/ BeginFails(c) \/ DialFails(c) \/ Report(c))
                /\ UNCHANGED <<carried, writeVars>>)

WFairSpec == WSpec /\ WFairness

-----------------------------------------------------------------------------
(* Properties.                                                             *)

\* The server reads the client's data, so far, whatever the records it came in.
ReadsAsSent(stream) ==
  IF IsHeader(hello[1])
    THEN InRecords(stream) /\ IsPrefix(DataOf(stream), DataOf(hello))
    ELSE IsPrefix(stream, hello)

\* The first Read ended where the client's first record does.
OneRecordRead == IsHeader(first[1]) /\ Len(first) = 1 + first[1][2]

\* Nothing is made up: no fake hello in the stream, and tls_record_frag, where it
\* cuts at all, cuts one record.
KeepsRecords ==
  /\ ~technique.fake
  /\ \/ technique.slicing # "tls_record_frag"
     \/ Len(first) < 2 \/ ~IsHeader(first[1])
     \/ OneRecordRead

\* What cutting the hello may not do to it: a live upstream reads the client's
\* bytes in order, none twice, and all of them once the rest is relayed, whatever
\* the pieces, whichever endpoint of a failover it is, and wherever the strategy
\* failed before the handler wrote the first bytes itself.  (A fake hello in the
\* stream reaches the server after all, and tls_record_frag takes everything that
\* was read for the payload of one record: they do not keep it.)
StreamIntact ==
  KeepsRecords =>
    \A c \in Conns :
      open[c] # {} /\ alive[c] =>
        /\ ReadsAsSent(sent[c])
        /\ relayed[c] => DataOf(sent[c]) = DataOf(hello)

\* Where Apply returns false and the upstream still takes writes, the upstream has
\* been sent nothing: the first bytes the handler then writes come first.
FallsBackOnUnwritten ==
  [][\A c \in Conns : ReturnsFalse(c) /\ alive'[c] => sent[c] = <<>>]_wvars
=============================================================================
