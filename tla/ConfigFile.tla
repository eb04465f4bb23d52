----------------------------- MODULE ConfigFile -----------------------------
(***************************************************************************)
(* Writing a file through a temporary one (config.Write in                 *)
(* internal/config/loader.go; writeStatsLoop in cmd/snispf/main.go and     *)
(* saveHits in internal/scan/scan.go do the same).                         *)
(*                                                                         *)
(* A name refers to an inode and an open file to the inode the name had    *)
(* when it was opened.  All writers of a path use the same temporary name. *)
(* An inode's content is a sequence of blocks, each of them the value that *)
(* wrote it; a write puts a value's blocks over what is there.             *)
(***************************************************************************)
EXTENDS Integers, Sequences

CONSTANTS
  Writers,    \* processes, or concurrent requests of the service
  Readers,
  Values,     \* the configurations that are written
  Size,       \* how many blocks each of them takes
  Default,    \* the configuration the file has at first
  None,       \* no inode
  Torn,       \* no configuration: what overlapping writers may leave
  MaxWrites   \* bound: writes begun

ASSUME FileAssumption ==
  /\ Size \in [Values -> Nat \ {0}]
  /\ Default \in Values
  /\ MaxWrites \in Nat
  /\ None \notin 0 .. MaxWrites

Inodes == 0 .. MaxWrites

VARIABLES
  content,  \* the blocks of each inode
  path,     \* the inode config.json refers to
  tmp,      \* the inode config.json.tmp refers to
  wpc,      \* where each writer is
  fd,       \* the inode a writer's open file refers to
  data,     \* the value a writer is to write
  rfd,      \* the inode a reader's open file refers to
  seen,     \* what each reader read last
  shared,   \* history: the inodes two writers were at work for, since their truncation
  source,   \* history: the inode each reader opened last
  writes    \* counts against MaxWrites

writerVars == <<wpc, fd, data>>
readerVars == <<rfd, seen, source>>
vars       == <<content, path, tmp, writerVars, readerVars, shared, writes>>

Blocks(v) == [i \in 1 .. Size[v] |-> v]

Whole(blocks) == \E v \in Values : blocks = Blocks(v)

\* What an inode has after value v was written over old blocks from offset 0.
Overwrite(old, v) == Blocks(v) \o SubSeq(old, Size[v] + 1, Len(old))

TypeOK ==
  /\ content \in [Inodes -> Seq(Values)]
  /\ path \in Inodes
  /\ tmp \in Inodes \cup {None}
  /\ wpc \in [Writers -> {"idle", "write", "rename", "dead"}]
  /\ fd \in [Writers -> Inodes \cup {None}]
  /\ \A w \in Writers : fd[w] # None <=> wpc[w] = "write"
  /\ data \in [Writers -> Values]
  /\ rfd \in [Readers -> Inodes \cup {None}]
  /\ seen \in [Readers -> Seq(Values)]
  /\ shared \subseteq Inodes
  /\ source \in [Readers -> Inodes]
  /\ writes \in 0 .. MaxWrites

Init ==
  /\ content = [i \in Inodes |-> IF i = 0 THEN Blocks(Default) ELSE <<>>]
  /\ path = 0
  /\ tmp = None
  /\ wpc = [w \in Writers |-> "idle"]
  /\ fd = [w \in Writers |-> None]
  /\ data = [w \in Writers |-> Default]
  /\ rfd = [r \in Readers |-> None]
  /\ seen = [r \in Readers |-> Blocks(Default)]
  /\ shared = {}
  /\ source = [r \in Readers |-> 0]
  /\ writes = 0

Goto(w, from, to) ==
  /\ wpc[w] = from
  /\ wpc' = [wpc EXCEPT ![w] = to]

\* A writer that has opened the temporary file and not renamed it yet.
InHand(w) == wpc[w] \in {"write", "rename"}

\* The history of an inode that w opens.
Overlap(w, inode) ==
  shared' = IF \E u \in Writers \ {w} : InHand(u) THEN shared \cup {inode} ELSE shared \ {inode}

\* Mutant of Open: the file itself is opened.
OpenInPlace(w, v) ==
  /\ Goto(w, "idle", "write")
  /\ writes < MaxWrites
  /\ writes' = writes + 1
  /\ data' = [data EXCEPT ![w] = v]
  /\ content' = [content EXCEPT ![path] = <<>>]
  /\ fd' = [fd EXCEPT ![w] = path]
  /\ Overlap(w, path)
  /\ UNCHANGED <<path, tmp, readerVars>>

\* Mutant of Open: what a killed writer left in the temporary file stays there.
OpenKeeps(w, v) ==
  /\ Goto(w, "idle", "write")
  /\ writes < MaxWrites
  /\ writes' = writes + 1
  /\ data' = [data EXCEPT ![w] = v]
  /\ LET inode == IF tmp = None THEN writes' ELSE tmp
     IN /\ tmp' = inode
        /\ fd' = [fd EXCEPT ![w] = inode]
        /\ Overlap(w, inode)
  /\ UNCHANGED <<content, path, readerVars>>

\* os.WriteFile opens the temporary file with O_CREATE and O_TRUNC.
Open(w, v) ==
  /\ Goto(w, "idle", "write")
  /\ writes < MaxWrites
  /\ writes' = writes + 1
  /\ data' = [data EXCEPT ![w] = v]
  /\ LET inode == IF tmp = None THEN writes' ELSE tmp
     IN /\ tmp' = inode
        /\ fd' = [fd EXCEPT ![w] = inode]
        /\ content' = [content EXCEPT ![inode] = <<>>]
        /\ Overlap(w, inode)
  /\ UNCHANGED <<path, readerVars>>

\* os.WriteFile writes and closes.
Write(w) ==
  /\ Goto(w, "write", "rename")
  /\ content' = [content EXCEPT ![fd[w]] = Overwrite(@, data[w])]
  /\ fd' = [fd EXCEPT ![w] = None]
  /\ UNCHANGED <<path, tmp, data, readerVars, shared, writes>>

\* os.WriteFile fails: the temporary file stays as it is.
WriteFails(w) ==
  /\ Goto(w, "write", "idle")
  /\ fd' = [fd EXCEPT ![w] = None]
  /\ UNCHANGED <<content, path, tmp, data, readerVars, shared, writes>>

\* os.Rename, which fails when another writer took the temporary file away.
Rename(w) ==
  /\ Goto(w, "rename", "idle")
  /\ path' = IF tmp = None THEN path ELSE tmp
  /\ tmp' = None
  /\ UNCHANGED <<content, fd, data, readerVars, shared, writes>>

\* The process is killed (stopCore sends SIGKILL) and may come back.
Die(w) ==
  /\ wpc[w] # "dead"
  /\ wpc' = [wpc EXCEPT ![w] = "dead"]
  /\ fd' = [fd EXCEPT ![w] = None]
  /\ UNCHANGED <<content, path, tmp, data, readerVars, shared, writes>>

Restart(w) ==
  /\ Goto(w, "dead", "idle")
  /\ UNCHANGED <<content, path, tmp, fd, data, readerVars, shared, writes>>

\* os.ReadFile, in config.Load.
OpenToRead(r) ==
  /\ rfd[r] = None
  /\ rfd' = [rfd EXCEPT ![r] = path]
  /\ source' = [source EXCEPT ![r] = path]
  /\ UNCHANGED <<content, path, tmp, writerVars, seen, shared, writes>>

Read(r) ==
  /\ rfd[r] # None
  /\ seen' = [seen EXCEPT ![r] = content[rfd[r]]]
  /\ rfd' = [rfd EXCEPT ![r] = None]
  /\ UNCHANGED <<content, path, tmp, writerVars, source, shared, writes>>

Writing(w) ==
  \/ \E v \in Values : Open(w, v)
  \/ Write(w)
  \/ WriteFails(w)
  \/ Rename(w)
  \/ Die(w)
  \/ Restart(w)

Next ==
  \/ \E w \in Writers : Writing(w)
  \/ \E r \in Readers : OpenToRead(r) \/ Read(r)

Spec == Init /\ [][Next]_vars

-----------------------------------------------------------------------------
(* Properties.                                                             *)

\* The file on disk always parses.
PathWhole == Whole(content[path])

\* So does what a reader got.
ReadersSeeWhole == \A r \in Readers : Whole(seen[r])

\* "Config is now written atomically (no chance of a half-written config.json
\* when the core auto-swap and the WebUI save overlap)" (changelog.md:25), and
\* "A concurrent reader ... never sees a truncated/partial config"
\* (loader.go:22-25).  With two writers it does: the one truncates, or goes on
\* writing, what the other puts in the file's place.
NeverPartial == PathWhole /\ ReadersSeeWhole

\* What a reader has read, or will from the file it has open.
Got(r) == IF rfd[r] = None THEN seen[r] ELSE content[rfd[r]]

\* However many write, are killed and come back: a file that one writer alone
\* was at work for, from its truncation to its rename, is a configuration in
\* whole, and so is what a reader gets from it, at whatever time it reads.
WholeUnlessOverlapped ==
  /\ path \notin shared => PathWhole
  /\ \A r \in Readers : source[r] \notin shared => Whole(Got(r))

\* The two-step write and the two-step read implement atomic ones, where a write
\* that overlapped another counts as one that tears the file: the file changes
\* at a rename only, to a value in whole or to a torn one that stays torn until
\* the next rename, and a reader gets what it was when the reader opened it.
Atomic == INSTANCE AtomicFile WITH
  Values  <- {Blocks(v) : v \in Values},
  Default <- Blocks(Default),
  value   <- IF path \in shared THEN Torn ELSE content[path],
  got     <- [r \in Readers |-> IF source[r] \in shared THEN Torn ELSE Got(r)]

ImplementsAtomicFile == Atomic!Spec
=============================================================================
