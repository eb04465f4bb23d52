---------------------------- MODULE ConfigProofs ----------------------------
(***************************************************************************)
(* Proofs about config.json: how it is written (ConfigFile) and what the   *)
(* writers make of it (EndpointConfig).                                    *)
(*                                                                         *)
(* For any number of writers, readers, values, sizes and writes, and       *)
(* writers that may be killed at any step, a write through a temporary     *)
(* file is an atomic one, unless another writer was at work between its    *)
(* open and its rename: they share the temporary file's name.              *)
(*                                                                         *)
(* For any hosts, server names and lists of endpoints and listeners, the   *)
(* file leads back to what the core serves, a choice takes effect, a       *)
(* second normalisation finds nothing to change, and a restart that the    *)
(* doctor has no reason to refuse brings the core back.                    *)
(***************************************************************************)
EXTENDS ConfigFile, EndpointConfig, SequenceTheorems, FiniteSetTheorems,
        WellFoundedInduction, TLAPS

-----------------------------------------------------------------------------
(* ConfigFile: a write that no other overlaps is atomic.                   *)

\* Inodes are handed out in order; the temporary one is not the file, nor one
\* that a reader took for the file.
Placed ==
  /\ path <= writes
  /\ tmp # None => tmp <= writes /\ tmp # path
  /\ \A r \in Readers : /\ source[r] <= writes /\ source[r] # tmp
                        /\ rfd[r] # None => rfd[r] = source[r]

\* Only one writer is at work while the temporary file is not shared, and it is
\* that file it has open.
Alone ==
  tmp # None /\ tmp \notin shared =>
    /\ \A u, w \in Writers : InHand(u) /\ InHand(w) => u = w
    /\ \A w \in Writers : wpc[w] = "write" => fd[w] = tmp

\* A file that is not shared is empty while it is being written, and has the
\* value to be written when it is renamed.
Prepared ==
  \A w \in Writers :
    /\ fd[w] # None /\ fd[w] \notin shared => fd[w] = tmp /\ content[tmp] = <<>>
    /\ wpc[w] = "rename" /\ tmp # None /\ tmp \notin shared => content[tmp] = Blocks(data[w])

IInv ==
  /\ TypeOK
  /\ Placed
  /\ Alone
  /\ Prepared
  /\ WholeUnlessOverlapped

\* What the file and a reader's copy of it are in AtomicFile.
Held    == IF path \in shared THEN Torn ELSE content[path]
Gets(r) == IF source[r] \in shared THEN Torn ELSE Got(r)

\* A step that nobody who reads notices.
Unnoticed == Held' = Held /\ \A r \in Readers : Gets(r)' = Gets(r)

LEMMA BlocksProperties ==
  ASSUME NEW v \in Values
  PROVE  /\ Blocks(v) \in Seq(Values)
         /\ Len(Blocks(v)) = Size[v]
         /\ Size[v] \in Nat \ {0}
         /\ Whole(Blocks(v))
<1>1. Size[v] \in Nat \ {0}
  BY FileAssumption
<1>2. Blocks(v) \in Seq(Values) /\ Len(Blocks(v)) = Size[v]
  BY <1>1 DEF Blocks
<1>3. Whole(Blocks(v))
  BY DEF Whole
<1> QED BY <1>1, <1>2, <1>3

\* Over an empty file a write leaves just the value.
LEMMA OverwriteEmpty ==
  ASSUME NEW v \in Values
  PROVE  Overwrite(<<>>, v) = Blocks(v)
<1>1. Size[v] \in Nat /\ Blocks(v) \in Seq(Values)
  BY BlocksProperties
<1>2. Len(<<>>) = 0
  BY EmptySeq
<1>3. SubSeq(<<>>, Size[v] + 1, Len(<<>>)) = <<>>
  BY <1>1, <1>2, SubSeqEmpty
<1> QED BY <1>1, <1>3, ConcatEmptySeq DEF Overwrite

\* Over any other it leaves blocks of values.
LEMMA OverwriteType ==
  ASSUME NEW old \in Seq(Values), NEW v \in Values
  PROVE  Overwrite(old, v) \in Seq(Values)
<1>1. Size[v] \in Nat /\ Blocks(v) \in Seq(Values)
  BY BlocksProperties
<1>2. SubSeq(old, Size[v] + 1, Len(old)) \in Seq(Values)
  BY <1>1
<1> QED BY <1>1, <1>2 DEF Overwrite

LEMMA InitIInv == Init => IInv
<1> SUFFICES ASSUME Init PROVE IInv
  OBVIOUS
<1>1. Blocks(Default) \in Seq(Values) /\ Whole(Blocks(Default)) /\ Default \in Values
  BY BlocksProperties, FileAssumption
<1>2. 0 \in Inodes /\ None \notin Inodes /\ MaxWrites \in Nat
  BY FileAssumption DEF Inodes
<1>3. <<>> \in Seq(Values)
  BY EmptySeq
<1>4. content \in [Inodes -> Seq(Values)]
  BY <1>1, <1>3 DEF Init
<1>5. TypeOK
  BY <1>1, <1>2, <1>4 DEF Init, TypeOK
<1>6. content[path] = Blocks(Default)
  BY <1>2 DEF Init
<1>7. WholeUnlessOverlapped
  BY <1>1, <1>6 DEF Init, WholeUnlessOverlapped, PathWhole, Got
<1>8. Placed /\ Alone /\ Prepared
  BY <1>2 DEF Init, Placed, Alone, Prepared
<1> QED
  BY <1>5, <1>7, <1>8 DEF IInv

LEMMA OpenIInv ==
  ASSUME IInv, NEW w \in Writers, NEW v \in Values, Open(w, v)
  PROVE  IInv' /\ Unnoticed
<1> DEFINE inode == IF tmp = None THEN writes + 1 ELSE tmp
<1>1. /\ writes \in Nat /\ MaxWrites \in Nat /\ writes < MaxWrites /\ writes' = writes + 1
      /\ None \notin Inodes
      /\ inode \in Inodes
      /\ tmp # None => inode = tmp
  BY FileAssumption DEF Open, IInv, TypeOK, Inodes
<1>2. /\ inode # path
      /\ inode <= writes + 1
      /\ \A r \in Readers : inode # source[r] /\ (rfd[r] # None => inode # rfd[r])
  BY <1>1 DEF IInv, TypeOK, Placed, Inodes
<1>3. /\ tmp' = inode
      /\ fd' = [fd EXCEPT ![w] = inode]
      /\ content' = [content EXCEPT ![inode] = <<>>]
      /\ wpc' = [wpc EXCEPT ![w] = "write"]
      /\ data' = [data EXCEPT ![w] = v]
      /\ shared' = IF \E u \in Writers \ {w} : InHand(u) THEN shared \cup {inode} ELSE shared \ {inode}
      /\ UNCHANGED <<path, rfd, seen, source>>
      /\ wpc[w] = "idle"
  BY DEF Open, Goto, readerVars, Overlap
<1> HIDE DEF inode
<1>4. TypeOK'
  <2>1. content' \in [Inodes -> Seq(Values)]
    BY <1>1, <1>3, EmptySeq DEF IInv, TypeOK
  <2>2. \A u \in Writers : fd'[u] # None <=> wpc'[u] = "write"
    BY <1>1, <1>3 DEF IInv, TypeOK
  <2>3. shared' \subseteq Inodes
    BY <1>1, <1>3 DEF IInv, TypeOK
  <2> QED BY <1>1, <1>3, <2>1, <2>2, <2>3 DEF IInv, TypeOK
<1>5. Placed'
  BY <1>1, <1>2, <1>3 DEF IInv, TypeOK, Placed, Inodes
<1>6. \A i \in Inodes \ {inode} : i \in shared' <=> i \in shared
  BY <1>3
<1>7. inode \notin shared' => \A u \in Writers \ {w} : ~InHand(u) /\ ~InHand(u)'
  BY <1>3 DEF InHand, IInv, TypeOK
<1>8. Alone'
  <2>1. ASSUME NEW u \in Writers, NEW x \in Writers, inode \notin shared', InHand(u)', InHand(x)'
        PROVE  u = x
    BY <1>7, <2>1
  <2>2. ASSUME NEW u \in Writers, inode \notin shared', wpc'[u] = "write"
        PROVE  fd'[u] = inode
    BY <1>3, <1>7, <2>2 DEF InHand, IInv, TypeOK
  <2> QED BY <1>3, <2>1, <2>2 DEF Alone
<1>9. Prepared'
  <2> SUFFICES ASSUME NEW u \in Writers
               PROVE  /\ fd'[u] # None /\ fd'[u] \notin shared' => fd'[u] = tmp' /\ content'[tmp'] = <<>>
                      /\ wpc'[u] = "rename" /\ tmp' # None /\ tmp' \notin shared'
                           => content'[tmp'] = Blocks(data'[u])
    BY DEF Prepared
  <2>1. CASE u = w
    BY <1>1, <1>3, <2>1 DEF IInv, TypeOK
  <2>2. CASE u # w
    <3>1. fd'[u] = fd[u] /\ wpc'[u] = wpc[u] /\ (fd[u] # None => InHand(u))
      BY <1>3, <2>2 DEF IInv, TypeOK, InHand
    <3>2. InHand(u) => inode \in shared'
      BY <1>7, <2>2
    <3>3. ASSUME fd[u] # None, fd[u] \notin shared' PROVE FALSE
      <4>1. fd[u] # inode /\ fd[u] \in Inodes
        BY <3>1, <3>2, <3>3 DEF IInv, TypeOK
      <4>2. fd[u] \notin shared
        BY <1>6, <3>3, <4>1
      <4>3. fd[u] = tmp
        BY <3>3, <4>2 DEF IInv, Prepared
      <4> QED BY <1>1, <3>3, <4>1, <4>3
    <3>4. wpc'[u] # "rename" \/ tmp' \in shared'
      BY <1>3, <3>1, <3>2 DEF InHand
    <3> QED BY <3>1, <3>3, <3>4
  <2> QED BY <2>1, <2>2
<1>10. /\ content'[path'] = content[path]
       /\ path' \in shared' <=> path \in shared
       /\ \A r \in Readers : Got(r)' = Got(r) /\ (source'[r] \in shared' <=> source[r] \in shared)
  <2>1. path \in Inodes /\ \A r \in Readers : source[r] \in Inodes /\ (rfd[r] # None => rfd[r] \in Inodes)
    BY DEF IInv, TypeOK
  <2>2. content'[path'] = content[path] /\ (path' \in shared' <=> path \in shared)
    BY <1>2, <1>3, <1>6, <2>1 DEF IInv, TypeOK
  <2>3. ASSUME NEW r \in Readers
        PROVE  Got(r)' = Got(r) /\ (source'[r] \in shared' <=> source[r] \in shared)
    BY <1>2, <1>3, <1>6, <2>1 DEF IInv, TypeOK, Got
  <2> QED BY <2>2, <2>3
<1>11. WholeUnlessOverlapped'
  BY <1>10 DEF IInv, WholeUnlessOverlapped, PathWhole, Whole, Blocks
<1>12. Unnoticed
  BY <1>10 DEF Unnoticed, Held, Gets
<1> QED BY <1>4, <1>5, <1>8, <1>9, <1>11, <1>12 DEF IInv

LEMMA WriteIInv ==
  ASSUME IInv, NEW w \in Writers, Write(w)
  PROVE  IInv' /\ Unnoticed
<1> DEFINE inode == fd[w]
<1>1. /\ wpc[w] = "write" /\ inode # None /\ inode \in Inodes /\ data[w] \in Values
      /\ InHand(w)
  BY DEF Write, Goto, IInv, TypeOK, InHand
<1>2. /\ content' = [content EXCEPT ![inode] = Overwrite(content[inode], data[w])]
      /\ fd' = [fd EXCEPT ![w] = None]
      /\ wpc' = [wpc EXCEPT ![w] = "rename"]
      /\ UNCHANGED <<path, tmp, data, rfd, seen, source, shared, writes>>
  BY DEF Write, Goto, readerVars
<1>3. inode \notin shared => /\ inode = tmp /\ tmp # None
                             /\ content'[tmp] = Blocks(data[w])
  BY <1>1, <1>2, OverwriteEmpty DEF IInv, Prepared, TypeOK
<1>4. tmp # None /\ tmp \notin shared => inode = tmp
  BY <1>1 DEF IInv, Alone
<1> HIDE DEF inode
<1>5. TypeOK'
  <2>1. content' \in [Inodes -> Seq(Values)]
    <3>1. Overwrite(content[inode], data[w]) \in Seq(Values)
      BY <1>1, OverwriteType DEF IInv, TypeOK
    <3> QED BY <1>2, <3>1 DEF IInv, TypeOK
  <2>2. \A u \in Writers : fd'[u] # None <=> wpc'[u] = "write"
    BY <1>2 DEF IInv, TypeOK
  <2> QED BY <1>2, <2>1, <2>2 DEF IInv, TypeOK
<1>6. Placed'
  BY <1>2 DEF IInv, Placed
<1>7. \A u \in Writers : InHand(u)' <=> InHand(u)
  BY <1>1, <1>2 DEF InHand, IInv, TypeOK
<1>8. Alone'
  <2>1. \A u \in Writers : wpc'[u] = "write" => wpc[u] = "write" /\ fd'[u] = fd[u]
    BY <1>2 DEF IInv, TypeOK
  <2> QED BY <1>2, <1>7, <2>1 DEF IInv, Alone
<1>9. Prepared'
  <2> SUFFICES ASSUME NEW u \in Writers
               PROVE  /\ fd'[u] # None /\ fd'[u] \notin shared => fd'[u] = tmp /\ content'[tmp] = <<>>
                      /\ wpc'[u] = "rename" /\ tmp # None /\ tmp \notin shared
                           => content'[tmp] = Blocks(data[u])
    BY <1>2 DEF Prepared
  <2>1. CASE u = w
    BY <1>2, <1>3, <1>4, <2>1 DEF IInv, TypeOK
  <2>2. CASE u # w
    <3>1. fd'[u] = fd[u] /\ wpc'[u] = wpc[u] /\ (fd[u] # None => InHand(u))
      BY <1>2, <2>2 DEF IInv, TypeOK, InHand
    <3>2. InHand(u) => tmp = None \/ tmp \in shared
      BY <1>1, <2>2 DEF IInv, Alone
    <3>3. ASSUME fd[u] # None, fd[u] \notin shared PROVE FALSE
      <4>1. fd[u] = tmp
        BY <3>3 DEF IInv, Prepared
      <4> QED BY <3>1, <3>2, <3>3, <4>1
    <3> QED BY <3>1, <3>2, <3>3 DEF InHand
  <2> QED BY <2>1, <2>2
<1>10. /\ path \notin shared => content'[path] = content[path]
       /\ \A r \in Readers : source[r] \notin shared => Got(r)' = Got(r)
  <2>1. path \notin shared => path # inode
    BY <1>3 DEF IInv, Placed
  <2>2. \A r \in Readers : source[r] \notin shared => source[r] # inode
    BY <1>3 DEF IInv, Placed
  <2>3. \A r \in Readers : rfd[r] # None => rfd[r] = source[r]
    BY DEF IInv, Placed
  <2> QED BY <1>2, <2>1, <2>2, <2>3 DEF Got, IInv, TypeOK
<1>11. WholeUnlessOverlapped'
  BY <1>2, <1>10 DEF IInv, WholeUnlessOverlapped, PathWhole, Whole, Blocks
<1>12. Unnoticed
  BY <1>2, <1>10 DEF Unnoticed, Held, Gets
<1> QED BY <1>5, <1>6, <1>8, <1>9, <1>11, <1>12 DEF IInv

\* The rename puts the prepared value in the path's place, or a torn one.
Replaced ==
  /\ Held' = Torn \/ \E v \in Values : Held' = Blocks(v)
  /\ \A r \in Readers : Gets(r)' = Gets(r)

LEMMA RenameIInv ==
  ASSUME IInv, NEW w \in Writers, Rename(w)
  PROVE  IInv' /\ (Unnoticed \/ Replaced)
<1>1. /\ wpc[w] = "rename" /\ data[w] \in Values /\ InHand(w)
      /\ tmp' = None
      /\ path' = IF tmp = None THEN path ELSE tmp
      /\ wpc' = [wpc EXCEPT ![w] = "idle"]
      /\ UNCHANGED <<content, fd, data, rfd, seen, source, shared, writes>>
  BY DEF Rename, Goto, readerVars, IInv, TypeOK, InHand
<1>2. tmp # None /\ tmp \notin shared => content[tmp] = Blocks(data[w])
  BY <1>1 DEF IInv, Prepared
<1>3. TypeOK'
  <2>1. \A u \in Writers : fd'[u] # None <=> wpc'[u] = "write"
    BY <1>1 DEF IInv, TypeOK
  <2> QED BY <1>1, <2>1 DEF IInv, TypeOK
<1>4. Placed'
  <2>1. None \notin Inodes
    BY FileAssumption DEF Inodes
  <2> QED BY <1>1, <2>1 DEF IInv, Placed, TypeOK
<1>5. Alone'
  BY <1>1 DEF Alone
<1>6. Prepared'
  <2> SUFFICES ASSUME NEW u \in Writers, fd[u] # None, fd[u] \notin shared
               PROVE  FALSE
    BY <1>1 DEF Prepared
  <2>1. fd[u] = tmp /\ InHand(u) /\ u # w
    BY <1>1 DEF IInv, Prepared, TypeOK, InHand
  <2> QED BY <1>1, <2>1 DEF IInv, Alone
<1>7. \A r \in Readers : Got(r)' = Got(r) /\ Gets(r)' = Gets(r)
  BY <1>1 DEF Got, Gets
<1>8. path' \notin shared' => PathWhole'
  <2>1. CASE tmp = None
    BY <1>1, <2>1 DEF IInv, WholeUnlessOverlapped, PathWhole, Whole, Blocks
  <2>2. CASE tmp # None
    <3>1. path' \notin shared' => content'[path'] = Blocks(data[w])
      BY <1>1, <1>2, <2>2
    <3> QED BY <1>1, <3>1 DEF PathWhole, Whole, Blocks
  <2> QED BY <2>1, <2>2
<1>9. WholeUnlessOverlapped'
  BY <1>1, <1>7, <1>8 DEF IInv, WholeUnlessOverlapped, Whole, Blocks
<1>10. CASE tmp = None
  <2>1. Unnoticed
    BY <1>1, <1>7, <1>10 DEF Unnoticed, Held
  <2> QED BY <1>3, <1>4, <1>5, <1>6, <1>9, <2>1 DEF IInv
<1>11. CASE tmp # None
  <2>1. Held' = Torn \/ Held' = Blocks(data[w])
    BY <1>1, <1>2, <1>11 DEF Held
  <2>2. Replaced
    BY <1>1, <1>7, <2>1 DEF Replaced
  <2> QED BY <1>3, <1>4, <1>5, <1>6, <1>9, <2>2 DEF IInv
<1> QED BY <1>10, <1>11

\* The other steps of a writer leave every file as it is.
LEMMA QuietIInv ==
  ASSUME IInv, NEW w \in Writers, WriteFails(w) \/ Die(w) \/ Restart(w)
  PROVE  IInv' /\ Unnoticed
<1>1. /\ UNCHANGED <<content, path, tmp, data, rfd, seen, source, shared, writes>>
      /\ wpc' = [wpc EXCEPT ![w] = "idle"] \/ wpc' = [wpc EXCEPT ![w] = "dead"]
      /\ fd' = [fd EXCEPT ![w] = None]
  <2>1. CASE WriteFails(w)
    BY <2>1 DEF WriteFails, Goto, readerVars
  <2>2. CASE Die(w)
    BY <2>2 DEF Die, readerVars
  <2>3. CASE Restart(w)
    <3>1. fd[w] = None
      BY <2>3 DEF Restart, Goto, IInv, TypeOK
    <3> QED BY <2>3, <3>1 DEF Restart, Goto, readerVars, IInv, TypeOK
  <2> QED BY <2>1, <2>2, <2>3
<1>2. TypeOK'
  <2>1. \A u \in Writers : fd'[u] # None <=> wpc'[u] = "write"
    BY <1>1 DEF IInv, TypeOK
  <2> QED BY <1>1, <2>1 DEF IInv, TypeOK
<1>3. Placed'
  BY <1>1 DEF IInv, Placed
<1>4. \A u \in Writers : /\ InHand(u)' => InHand(u)
                         /\ wpc'[u] \in {"write", "rename"} => wpc'[u] = wpc[u] /\ fd'[u] = fd[u]
                         /\ fd'[u] # None => fd'[u] = fd[u]
  BY <1>1 DEF InHand, IInv, TypeOK
<1>5. Alone'
  BY <1>1, <1>4 DEF IInv, Alone
<1>6. Prepared'
  BY <1>1, <1>4 DEF IInv, Prepared, Blocks
<1>7. WholeUnlessOverlapped'
  BY <1>1 DEF IInv, WholeUnlessOverlapped, PathWhole, Got, Whole, Blocks
<1>8. Unnoticed
  BY <1>1 DEF Unnoticed, Held, Gets, Got
<1> QED BY <1>2, <1>3, <1>5, <1>6, <1>7, <1>8 DEF IInv

\* One reader gets what the file is.
Gotten == \E r \in Readers :
  /\ Held' = Held
  /\ Gets(r)' = Held
  /\ \A q \in Readers \ {r} : Gets(q)' = Gets(q)

LEMMA ReaderIInv ==
  ASSUME IInv, NEW r \in Readers, OpenToRead(r) \/ Read(r)
  PROVE  IInv' /\ (Unnoticed \/ Gotten)
<1>1. UNCHANGED <<content, path, tmp, wpc, fd, data, shared, writes>>
  BY DEF OpenToRead, Read, writerVars
<1>2. None \notin Inodes /\ path \in Inodes
  BY FileAssumption DEF Inodes, IInv, TypeOK
<1>3. Held' = Held /\ Alone' /\ Prepared'
  BY <1>1 DEF Held, IInv, Alone, Prepared, InHand, Blocks
<1>4. CASE OpenToRead(r)
  <2>1. /\ rfd' = [rfd EXCEPT ![r] = path] /\ seen' = seen
        /\ source' = [source EXCEPT ![r] = path]
    BY <1>4 DEF OpenToRead
  <2>2. TypeOK'
    BY <1>1, <2>1 DEF IInv, TypeOK
  <2>3. Placed'
    BY <1>1, <1>2, <2>1 DEF IInv, TypeOK, Placed
  <2>4. /\ \A q \in Readers \ {r} : Got(q)' = Got(q) /\ source'[q] = source[q]
        /\ Got(r)' = content[path] /\ source'[r] = path
    BY <1>1, <1>2, <2>1 DEF Got, IInv, TypeOK
  <2>5. WholeUnlessOverlapped'
    <3>1. PathWhole' <=> PathWhole
      BY <1>1 DEF PathWhole, Whole, Blocks
    <3>2. ASSUME NEW q \in Readers, source'[q] \notin shared PROVE Whole(Got(q))'
      <4>1. CASE q = r
        BY <1>1, <2>4, <3>2, <4>1 DEF IInv, WholeUnlessOverlapped, PathWhole, Whole, Blocks
      <4>2. CASE q # r
        BY <1>1, <2>4, <3>2, <4>2 DEF IInv, WholeUnlessOverlapped, Whole, Blocks
      <4> QED BY <4>1, <4>2
    <3> QED BY <1>1, <3>1, <3>2 DEF IInv, WholeUnlessOverlapped
  <2>6. Gotten
    BY <1>1, <1>3, <2>4 DEF Gotten, Held, Gets
  <2> QED BY <1>3, <2>2, <2>3, <2>5, <2>6 DEF IInv
<1>5. CASE Read(r)
  <2>1. /\ rfd' = [rfd EXCEPT ![r] = None]
        /\ seen' = [seen EXCEPT ![r] = content[rfd[r]]]
        /\ source' = source
        /\ rfd[r] # None
    BY <1>5 DEF Read
  <2>2. TypeOK'
    BY <1>1, <2>1 DEF IInv, TypeOK
  <2>3. Placed'
    BY <1>1, <2>1 DEF IInv, TypeOK, Placed
  <2>4. \A q \in Readers : Got(q)' = Got(q)
    BY <1>1, <2>1 DEF Got, IInv, TypeOK
  <2>5. WholeUnlessOverlapped'
    BY <1>1, <2>1, <2>4 DEF IInv, WholeUnlessOverlapped, PathWhole, Whole, Blocks
  <2>6. Unnoticed
    BY <1>1, <1>3, <2>1, <2>4 DEF Unnoticed, Gets
  <2> QED BY <1>3, <2>2, <2>3, <2>5, <2>6 DEF IInv
<1> QED BY <1>4, <1>5

LEMMA StepIInv ==
  ASSUME IInv, [Next]_vars
  PROVE  IInv' /\ (Unnoticed \/ Replaced \/ Gotten)
<1>1. ASSUME NEW w \in Writers, NEW v \in Values, Open(w, v)
      PROVE  IInv' /\ Unnoticed
  BY <1>1, OpenIInv
<1>2. ASSUME NEW w \in Writers, Write(w)
      PROVE  IInv' /\ Unnoticed
  BY <1>2, WriteIInv
<1>3. ASSUME NEW w \in Writers, Rename(w)
      PROVE  IInv' /\ (Unnoticed \/ Replaced)
  BY <1>3, RenameIInv
<1>4. ASSUME NEW w \in Writers, WriteFails(w) \/ Die(w) \/ Restart(w)
      PROVE  IInv' /\ Unnoticed
  BY <1>4, QuietIInv
<1>5. ASSUME NEW r \in Readers, OpenToRead(r) \/ Read(r)
      PROVE  IInv' /\ (Unnoticed \/ Gotten)
  BY <1>5, ReaderIInv
<1>6. CASE UNCHANGED vars
  <2>1. IInv'
    BY <1>6
    DEF vars, writerVars, readerVars, IInv, TypeOK, Placed, Alone, Prepared, InHand, Blocks,
        WholeUnlessOverlapped, PathWhole, Got, Whole
  <2>2. Unnoticed
    BY <1>6 DEF vars, writerVars, readerVars, Unnoticed, Held, Gets, Got
  <2> QED BY <2>1, <2>2
<1> QED
  BY <1>1, <1>2, <1>3, <1>4, <1>5, <1>6 DEF Next, Writing

\* However many processes write, are killed and come back, a file that only one
\* of them was at work for is a configuration in whole, and so is what a reader
\* gets from it, at whatever time it reads (loader.go:11-36).
THEOREM UnsharedWhole == Spec => []WholeUnlessOverlapped
<1>1. IInv /\ [Next]_vars => IInv'
  BY StepIInv
<1>2. IInv => WholeUnlessOverlapped
  BY DEF IInv
<1> QED BY <1>1, <1>2, InitIInv, PTL DEF Spec

\* Every inode has a sequence of values, and a writer has a file open exactly
\* while it writes.
THEOREM FileTypeCorrect == Spec => []TypeOK
<1>1. IInv /\ [Next]_vars => IInv'
  BY StepIInv
<1>2. IInv => TypeOK
  BY DEF IInv
<1> QED BY <1>1, <1>2, InitIInv, PTL DEF Spec

\* The write through a temporary file, and a read of it, implement atomic ones
\* that may tear the file when two writers overlap (loader.go:11-36).
THEOREM WritesAtomically == Spec => ImplementsAtomicFile
<1> DEFINE gots == [r \in Readers |-> IF source[r] \in shared THEN Torn ELSE Got(r)]
<1>1. IInv /\ [Next]_vars => IInv'
  BY StepIInv
<1>2. Init => Atomic!Init
  <2> SUFFICES ASSUME Init
               PROVE  Held = Blocks(Default) /\ gots = [r \in Readers |-> Blocks(Default)]
    BY DEF Atomic!Init, Held
  <2>1. Held = Blocks(Default)
    BY FileAssumption DEF Init, Inodes, Held
  <2>2. \A r \in Readers : Gets(r) = Blocks(Default)
    BY DEF Init, Got, Gets
  <2> QED BY <2>1, <2>2 DEF Gets
<1>3. IInv /\ [Next]_vars => [Atomic!Next]_<<Held, gots>>
  <2> SUFFICES ASSUME IInv, [Next]_vars
               PROVE  Atomic!Next \/ UNCHANGED <<Held, gots>>
    OBVIOUS
  <2>0. gots = [r \in Readers |-> Gets(r)] /\ gots' = [r \in Readers |-> Gets(r)']
    BY DEF Gets
  <2>1. CASE Unnoticed
    BY <2>0, <2>1 DEF Unnoticed
  <2>2. CASE Replaced
    <3>1. gots' = gots
      BY <2>0, <2>2 DEF Replaced
    <3>2. CASE Held' = Torn
      BY <3>1, <3>2 DEF Atomic!Next, Atomic!Tear, Held
    <3>3. CASE \E v \in Values : Held' = Blocks(v)
      BY <3>1, <3>3 DEF Atomic!Next, Atomic!Write, Held
    <3> QED BY <2>2, <3>2, <3>3 DEF Replaced
  <2>3. CASE Gotten
    <3>1. PICK r \in Readers : /\ Held' = Held
                               /\ Gets(r)' = Held
                               /\ \A q \in Readers \ {r} : Gets(q)' = Gets(q)
      BY <2>3 DEF Gotten
    <3>2. gots' = [gots EXCEPT ![r] = Held]
      BY <2>0, <3>1
    <3> QED BY <3>1, <3>2 DEF Atomic!Next, Atomic!Read, Held
  <2> QED BY <2>1, <2>2, <2>3, StepIInv
<1> QED BY <1>1, <1>2, <1>3, InitIInv, PTL DEF Spec, ImplementsAtomicFile, Atomic!Spec, Held

-----------------------------------------------------------------------------
(* EndpointConfig.  Its lists have any length, and its filter is recursive:*)
(* the induction over their positions is a least counterexample.           *)

\* A set of naturals has a least element.
LEMMA LeastNatural ==
  ASSUME NEW T \in SUBSET Nat, T # {}
  PROVE  \E x \in T : \A y \in T : x <= y
<1> DEFINE R == OpToRel(<, Nat)
<1>1. IsWellFoundedOn(R, Nat)
  BY NatLessThanWellFounded
<1>2. \A x, y \in Nat : y < x => <<y, x>> \in R
  BY Zenon DEF OpToRel
<1> HIDE DEF R
<1>3. PICK x \in T : \A y \in T : ~ (<<y, x>> \in R)
  BY <1>1, WFMin
<1>4. \A y \in T : ~ (y < x)
  BY <1>2, <1>3
<1> QED BY <1>4

\* A set of naturals that has zero, and each successor up to a bound, is full.
LEMMA Induction ==
  ASSUME NEW last \in Nat, NEW T \in SUBSET Nat, 0 \in T,
         \A n \in 1 .. last : n - 1 \in T => n \in T
  PROVE  0 .. last \subseteq T
<1> SUFFICES ASSUME NEW m \in 0 .. last, m \notin T
             PROVE  FALSE
  OBVIOUS
<1> DEFINE U == (0 .. last) \ T
<1>1. U \in SUBSET Nat /\ U # {}
  OBVIOUS
<1>2. PICK n \in U : \A k \in U : n <= k
  BY <1>1, LeastNatural
<1>3. n \in 1 .. last /\ n - 1 \in 0 .. last
  BY <1>2
<1>4. n - 1 \in T
  BY <1>2, <1>3
<1> QED BY <1>2, <1>3, <1>4

-----------------------------------------------------------------------------
(* The filter of the enabled endpoints.                                    *)

\* What the filter has after an endpoint, given what it had before.
Kept(before, e) == IF Serviceable(e) THEN Append(before, e) ELSE before

FilterStep(eps, g, n) == IF n = 0 THEN <<>> ELSE Kept(g[n - 1], eps[n])

LEMMA FilterDefined ==
  ASSUME NEW eps \in Seq(Endpoint)
  PROVE  \E g : g = [n \in 0 .. Len(eps) |-> FilterStep(eps, g, n)]
<1> DEFINE Good(m, g) == g = [n \in 0 .. m |-> FilterStep(eps, g, n)]
           T == {m \in Nat : \E g : Good(m, g)}
<1>1. 0 \in T
  <2> DEFINE g == [n \in 0 .. 0 |-> <<>>]
  <2>1. Good(0, g)
    BY DEF FilterStep
  <2> QED BY <2>1
<1>2. ASSUME NEW m \in 1 .. Len(eps), m - 1 \in T
      PROVE  m \in T
  <2>1. PICK g : Good(m - 1, g)
    BY <1>2
  <2> DEFINE h == [n \in 0 .. m |-> IF n = m THEN Kept(g[m - 1], eps[m]) ELSE g[n]]
  <2>2. \A n \in 0 .. m : h[n] = FilterStep(eps, h, n)
    <3> SUFFICES ASSUME NEW n \in 0 .. m PROVE h[n] = FilterStep(eps, h, n)
      OBVIOUS
    <3>1. CASE n = m
      BY <3>1 DEF FilterStep
    <3>2. CASE n # m /\ n # 0
      <4>1. n \in 0 .. m - 1 /\ n - 1 \in 0 .. m /\ n - 1 # m
        BY <3>2
      <4>2. h[n] = FilterStep(eps, g, n) /\ h[n - 1] = g[n - 1]
        BY <2>1, <3>2, <4>1
      <4> QED BY <3>2, <4>2 DEF FilterStep
    <3>3. CASE n = 0
      BY <2>1, <3>3 DEF FilterStep
    <3> QED BY <3>1, <3>2, <3>3
  <2>3. Good(m, h)
    BY <2>2
  <2> HIDE DEF h, Good
  <2> QED BY <2>3
<1>3. Len(eps) \in T
  <2>1. T \in SUBSET Nat /\ Len(eps) \in Nat
    OBVIOUS
  <2> HIDE DEF T
  <2>2. 0 .. Len(eps) \subseteq T
    BY <1>1, <1>2, <2>1, Induction
  <2> QED BY <2>1, <2>2
<1> QED BY <1>3

LEMMA FilterSteps ==
  ASSUME NEW eps \in Seq(Endpoint)
  PROVE  \E g : /\ EnabledEndpoints(eps) = g[Len(eps)]
                /\ g[0] = <<>>
                /\ \A n \in 1 .. Len(eps) : g[n] = Kept(g[n - 1], eps[n])
<1> DEFINE f == CHOOSE g : g = [n \in 0 .. Len(eps) |-> FilterStep(eps, g, n)]
<1>1. f = [n \in 0 .. Len(eps) |-> FilterStep(eps, f, n)]
  BY FilterDefined
<1>2. EnabledEndpoints(eps) = f[Len(eps)]
  BY DEF EnabledEndpoints, FilterStep, Kept
<1> HIDE DEF f
<1>3. \A n \in 0 .. Len(eps) : f[n] = FilterStep(eps, f, n)
  BY <1>1
<1>4. f[0] = <<>>
  BY <1>3 DEF FilterStep
<1>5. \A n \in 1 .. Len(eps) : f[n] = Kept(f[n - 1], eps[n])
  BY <1>3 DEF FilterStep
<1> QED BY <1>2, <1>4, <1>5

\* The positions of the first n endpoints that a core can serve.
Positions(eps, n) == {i \in 1 .. n : Serviceable(eps[i])}

\* What a filter of the first n endpoints has to return.
FilterSound(eps, s, n) ==
  \A k \in 1 .. Len(s) : Serviceable(s[k]) /\ \E i \in 1 .. n : s[k] = eps[i]

FilterComplete(eps, s, n) ==
  \A i \in 1 .. n : Serviceable(eps[i]) => \E k \in 1 .. Len(s) : s[k] = eps[i]

FilterNeutral(eps, s, n) ==
  (\A i \in 1 .. n : Serviceable(eps[i])) => Len(s) = n /\ \A i \in 1 .. n : s[i] = eps[i]

FilterCounts(eps, s, n) ==
  IsFiniteSet(Positions(eps, n)) /\ Len(s) = Cardinality(Positions(eps, n))

Filtered(eps, s, n) ==
  /\ s \in Seq(Endpoint)
  /\ FilterSound(eps, s, n)
  /\ FilterComplete(eps, s, n)
  /\ FilterNeutral(eps, s, n)
  /\ FilterCounts(eps, s, n)

LEMMA FilterBegins ==
  ASSUME NEW eps \in Seq(Endpoint)
  PROVE  Filtered(eps, <<>>, 0)
<1>1. Positions(eps, 0) = {}
  BY DEF Positions
<1>2. FilterCounts(eps, <<>>, 0)
  BY <1>1, FS_EmptySet DEF FilterCounts
<1> QED BY <1>2 DEF Filtered, FilterSound, FilterComplete, FilterNeutral

LEMMA FilterKeeps ==
  ASSUME NEW eps \in Seq(Endpoint), NEW n \in 1 .. Len(eps), NEW s,
         Filtered(eps, s, n - 1), Serviceable(eps[n])
  PROVE  Filtered(eps, Append(s, eps[n]), n)
<1> DEFINE t == Append(s, eps[n])
<1>1. s \in Seq(Endpoint) /\ eps[n] \in Endpoint
  BY DEF Filtered
<1>2. /\ t \in Seq(Endpoint) /\ Len(t) = Len(s) + 1 /\ Len(s) \in Nat
      /\ t[Len(s) + 1] = eps[n] /\ \A k \in 1 .. Len(s) : t[k] = s[k]
  BY <1>1
<1> HIDE DEF t
<1>3. FilterSound(eps, t, n)
  <2> SUFFICES ASSUME NEW k \in 1 .. Len(t)
               PROVE  Serviceable(t[k]) /\ \E i \in 1 .. n : t[k] = eps[i]
    BY DEF FilterSound
  <2>1. CASE k = Len(s) + 1
    BY <1>2, <2>1
  <2>2. CASE k # Len(s) + 1
    <3>1. k \in 1 .. Len(s)
      BY <1>2, <2>2
    <3>2. Serviceable(s[k]) /\ \E i \in 1 .. n - 1 : s[k] = eps[i]
      BY <3>1 DEF Filtered, FilterSound
    <3>3. 1 .. n - 1 \subseteq 1 .. n /\ t[k] = s[k]
      BY <1>2, <3>1
    <3> QED BY <3>2, <3>3
  <2> QED BY <2>1, <2>2
<1>4. FilterComplete(eps, t, n)
  <2> SUFFICES ASSUME NEW i \in 1 .. n, Serviceable(eps[i])
               PROVE  \E k \in 1 .. Len(t) : t[k] = eps[i]
    BY DEF FilterComplete
  <2>1. CASE i = n
    BY <1>2, <2>1
  <2>2. CASE i # n
    <3>1. PICK k \in 1 .. Len(s) : s[k] = eps[i]
      BY <2>2 DEF Filtered, FilterComplete
    <3> QED BY <1>2, <3>1
  <2> QED BY <2>1, <2>2
<1>5. FilterNeutral(eps, t, n)
  <2> SUFFICES ASSUME \A i \in 1 .. n : Serviceable(eps[i])
               PROVE  Len(t) = n /\ \A i \in 1 .. n : t[i] = eps[i]
    BY DEF FilterNeutral
  <2>1. Len(s) = n - 1 /\ \A i \in 1 .. n - 1 : s[i] = eps[i]
    BY DEF Filtered, FilterNeutral
  <2> QED BY <1>2, <2>1
<1>6. FilterCounts(eps, t, n)
  <2>1. IsFiniteSet(Positions(eps, n - 1)) /\ Len(s) = Cardinality(Positions(eps, n - 1))
    BY DEF Filtered, FilterCounts
  <2>2. Positions(eps, n) = Positions(eps, n - 1) \cup {n} /\ n \notin Positions(eps, n - 1)
    BY DEF Positions
  <2>3. IsFiniteSet(Positions(eps, n))
    BY <2>1, <2>2, FS_AddElement
  <2>4. Cardinality(Positions(eps, n)) = Cardinality(Positions(eps, n - 1)) + 1
    BY <2>1, <2>2, FS_AddElement, Zenon
  <2> QED BY <1>2, <2>1, <2>3, <2>4 DEF FilterCounts
<1> QED BY <1>2, <1>3, <1>4, <1>5, <1>6 DEF Filtered, t

LEMMA FilterDrops ==
  ASSUME NEW eps \in Seq(Endpoint), NEW n \in 1 .. Len(eps), NEW s,
         Filtered(eps, s, n - 1), ~Serviceable(eps[n])
  PROVE  Filtered(eps, s, n)
<1>1. FilterSound(eps, s, n)
  <2>1. 1 .. n - 1 \subseteq 1 .. n
    OBVIOUS
  <2> QED BY <2>1 DEF Filtered, FilterSound
<1>2. FilterComplete(eps, s, n)
  <2> SUFFICES ASSUME NEW i \in 1 .. n, Serviceable(eps[i])
               PROVE  \E k \in 1 .. Len(s) : s[k] = eps[i]
    BY DEF FilterComplete
  <2>1. i \in 1 .. n - 1
    OBVIOUS
  <2> QED BY <2>1 DEF Filtered, FilterComplete
<1>3. FilterNeutral(eps, s, n)
  BY DEF FilterNeutral
<1>4. Positions(eps, n) = Positions(eps, n - 1)
  BY DEF Positions
<1>5. FilterCounts(eps, s, n)
  BY <1>4 DEF Filtered, FilterCounts
<1> QED BY <1>1, <1>2, <1>3, <1>5 DEF Filtered

\* The filter keeps the endpoints a core can serve, each of them, and no other;
\* where there is no other it changes nothing.
LEMMA FilterFilters ==
  ASSUME NEW eps \in Seq(Endpoint)
  PROVE  Filtered(eps, EnabledEndpoints(eps), Len(eps))
<1>1. PICK g : /\ EnabledEndpoints(eps) = g[Len(eps)]
               /\ g[0] = <<>>
               /\ \A n \in 1 .. Len(eps) : g[n] = Kept(g[n - 1], eps[n])
  BY FilterSteps
<1> DEFINE T == {n \in Nat : Filtered(eps, g[n], n)}
<1>2. 0 \in T
  BY <1>1, FilterBegins
<1>3. ASSUME NEW n \in 1 .. Len(eps), n - 1 \in T
      PROVE  n \in T
  BY <1>1, <1>3, FilterKeeps, FilterDrops DEF Kept
<1>4. Len(eps) \in T
  <2>1. T \in SUBSET Nat /\ Len(eps) \in Nat
    OBVIOUS
  <2> HIDE DEF T
  <2>2. 0 .. Len(eps) \subseteq T
    BY <1>2, <1>3, <2>1, Induction
  <2> QED BY <2>1, <2>2
<1> QED BY <1>1, <1>4

\* Endpoints that a core can all serve pass the filter as they are.
LEMMA FilterIdle ==
  ASSUME NEW eps \in Seq(Endpoint), \A i \in 1 .. Len(eps) : Serviceable(eps[i])
  PROVE  EnabledEndpoints(eps) = eps
<1>1. Filtered(eps, EnabledEndpoints(eps), Len(eps))
  BY FilterFilters
<1> DEFINE s == EnabledEndpoints(eps)
<1> HIDE DEF s
<1>2. s \in Seq(Endpoint) /\ Len(s) = Len(eps) /\ \A i \in 1 .. Len(eps) : s[i] = eps[i]
  BY <1>1 DEF Filtered, FilterNeutral, s
<1>3. s = eps
  BY <1>2
<1> QED BY <1>3 DEF s

-----------------------------------------------------------------------------
(* What normalising does, field by field.                                  *)

LEMMA ConfigFields ==
  ASSUME NEW c \in Config
  PROVE  /\ c.ip \in Hosts \cup {Blank} /\ c.sni \in Snis \cup {Blank}
         /\ c.lis \in Seq(Listener) /\ c.eps \in Seq(Endpoint)
         /\ c.method \in Methods /\ c.probe \in BOOLEAN /\ c.sound \in BOOLEAN
         /\ c = [ip |-> c.ip, sni |-> c.sni, lis |-> c.lis, eps |-> c.eps,
                 method |-> c.method, probe |-> c.probe, sound |-> c.sound]
  BY DEF Config

FilledListener(c, l) ==
  [ip |-> Resolved(OrElse(l.ip, c.ip)), sni |-> OrElse(l.sni, c.sni),
   method |-> OrElse(l.method, c.method)]

FilledEndpoint(c, e) ==
  IF e.on THEN [e EXCEPT !.ip = Resolved(@), !.sni = OrElse(@, c.sni)] ELSE e

LEMMA ResolvedHost ==
  ASSUME NEW h \in Hosts \cup {Blank}
  PROVE  /\ Resolved(h) \in Hosts \cup {Blank}
         /\ Resolved(h) = Blank <=> h = Blank
         /\ Resolved(Resolved(h)) = Resolved(h)
  BY EndpointAssumption DEF Resolved

LEMMA FilledListenerFields ==
  ASSUME NEW c \in Config, NEW l \in Listener
  PROVE  FilledListener(c, l) \in Listener /\ FilledListener(c, l).method \in Methods
<1>1. l.ip \in Hosts \cup {Blank} /\ l.sni \in Snis \cup {Blank} /\ l.method \in Methods \cup {Blank}
  BY DEF Listener
<1>2. c.ip \in Hosts \cup {Blank} /\ c.sni \in Snis \cup {Blank} /\ c.method \in Methods
  BY ConfigFields
<1>3. OrElse(l.ip, c.ip) \in Hosts \cup {Blank}
  BY <1>1, <1>2 DEF OrElse
<1>4. OrElse(l.sni, c.sni) \in Snis \cup {Blank} /\ OrElse(l.method, c.method) \in Methods
  BY <1>1, <1>2 DEF OrElse
<1> QED BY <1>3, <1>4, ResolvedHost DEF FilledListener, Listener

LEMMA FilledEndpointFields ==
  ASSUME NEW c \in Config, NEW e \in Endpoint
  PROVE  LET filled == FilledEndpoint(c, e)
         IN /\ filled \in Endpoint
            /\ filled.on = e.on
            /\ filled.ip = IF e.on THEN Resolved(e.ip) ELSE e.ip
            /\ filled.sni = IF e.on THEN OrElse(e.sni, c.sni) ELSE e.sni
<1>1. e.ip \in Hosts \cup {Blank} /\ e.sni \in Snis \cup {Blank} /\ e.on \in BOOLEAN
  BY DEF Endpoint
<1>2. OrElse(e.sni, c.sni) \in Snis \cup {Blank}
  BY <1>1, ConfigFields DEF OrElse
<1>3. Resolved(e.ip) \in Hosts \cup {Blank}
  BY <1>1, ResolvedHost
<1> QED BY <1>1, <1>2, <1>3 DEF FilledEndpoint, Endpoint

LEMMA FromListenersFields ==
  ASSUME NEW c \in Config
  PROVE  LET f == FromListeners(c)
         IN /\ f \in Config
            /\ f.eps = c.eps /\ f.method = c.method /\ f.probe = c.probe /\ f.sound = c.sound
            /\ f.lis = [i \in 1 .. Len(c.lis) |-> FilledListener(c, c.lis[i])]
            /\ IF c.lis = <<>> THEN f.ip = c.ip /\ f.sni = c.sni
               ELSE f.ip = f.lis[1].ip /\ f.sni = f.lis[1].sni
<1> DEFINE lis == [i \in 1 .. Len(c.lis) |-> FilledListener(c, c.lis[i])]
<1>1. c.lis \in Seq(Listener)
  BY ConfigFields
<1>2. lis \in Seq(Listener) /\ Len(lis) = Len(c.lis)
  BY <1>1, FilledListenerFields
<1>3. FromListeners(c) = IF lis = <<>> THEN c
                         ELSE [c EXCEPT !.lis = lis, !.ip = lis[1].ip, !.sni = lis[1].sni]
  BY DEF FromListeners, FilledListener
<1>4. lis = <<>> <=> c.lis = <<>>
  BY <1>1, <1>2
<1> HIDE DEF lis
<1>5. CASE lis = <<>>
  BY <1>3, <1>4, <1>5, ConfigFields DEF lis
<1>6. CASE lis # <<>>
  <2>1. lis[1] \in Listener
    BY <1>2, <1>6
  <2>2. lis[1].ip \in Hosts \cup {Blank} /\ lis[1].sni \in Snis \cup {Blank}
    BY <2>1 DEF Listener
  <2>3. FromListeners(c) = [ip |-> lis[1].ip, sni |-> lis[1].sni, lis |-> lis, eps |-> c.eps,
                            method |-> c.method, probe |-> c.probe, sound |-> c.sound]
    BY <1>3, <1>6, ConfigFields
  <2>4. FromListeners(c) \in Config
    BY <1>2, <2>2, <2>3, ConfigFields DEF Config
  <2> QED BY <1>4, <1>6, <2>3, <2>4 DEF lis
<1> QED BY <1>5, <1>6

\* The endpoints to be filled in: those given, or the top.
Given(f) == IF f.eps = <<>> THEN <<[ip |-> f.ip, sni |-> f.sni, on |-> TRUE]>> ELSE f.eps

LEMMA NormalizeFields ==
  ASSUME NEW c \in Config
  PROVE  LET f == FromListeners(c)
             n == Normalize(c)
         IN /\ n \in Config
            /\ n.lis = f.lis /\ n.method = c.method /\ n.probe = c.probe /\ n.sound = c.sound
            /\ Given(f) \in Seq(Endpoint) /\ Given(f) # <<>>
            /\ n.eps = [i \in 1 .. Len(Given(f)) |-> FilledEndpoint(f, Given(f)[i])]
            /\ n.eps # <<>>
            /\ IF c.lis = <<>> THEN n.ip = n.eps[1].ip /\ n.sni = n.eps[1].sni
               ELSE n.ip = f.ip /\ n.sni = f.sni
<1> DEFINE f == FromListeners(c)
           p == Primary(f)
           q == FilledEndpoints(p)
           eps == [i \in 1 .. Len(Given(f)) |-> FilledEndpoint(f, Given(f)[i])]
<1>1. /\ f \in Config /\ f.method = c.method /\ f.probe = c.probe /\ f.sound = c.sound
      /\ f.lis \in Seq(Listener) /\ (f.lis = <<>> <=> c.lis = <<>>)
  <2>1. c.lis \in Seq(Listener)
    BY ConfigFields
  <2>2. f \in Config /\ f.method = c.method /\ f.probe = c.probe /\ f.sound = c.sound
        /\ f.lis = [i \in 1 .. Len(c.lis) |-> FilledListener(c, c.lis[i])]
    BY FromListenersFields
  <2> QED BY <2>1, <2>2, FilledListenerFields
<1> HIDE DEF f
<1>2. Given(f) \in Seq(Endpoint) /\ Given(f) # <<>>
  <2>1. [ip |-> f.ip, sni |-> f.sni, on |-> TRUE] \in Endpoint
    BY <1>1, ConfigFields DEF Endpoint
  <2> QED BY <1>1, <2>1, ConfigFields DEF Given
<1>3. p = [ip |-> f.ip, sni |-> f.sni, lis |-> f.lis, eps |-> Given(f),
           method |-> f.method, probe |-> f.probe, sound |-> f.sound]
  <2>1. f = [ip |-> f.ip, sni |-> f.sni, lis |-> f.lis, eps |-> f.eps,
             method |-> f.method, probe |-> f.probe, sound |-> f.sound]
    BY <1>1, ConfigFields
  <2>2. CASE f.eps = <<>>
    <3>1. p = [f EXCEPT !.eps = Given(f)]
      BY <2>2 DEF Primary, Given
    <3> QED BY <2>1, <3>1
  <2>3. CASE f.eps # <<>>
    BY <2>1, <2>3 DEF Primary, Given
  <2> QED BY <2>2, <2>3
<1> HIDE DEF p
<1>4. q = [ip |-> f.ip, sni |-> f.sni, lis |-> f.lis, eps |-> eps,
           method |-> f.method, probe |-> f.probe, sound |-> f.sound]
  <2>1. q = [p EXCEPT !.eps = [i \in 1 .. Len(p.eps) |-> FilledEndpoint(p, p.eps[i])]]
    BY Zenon DEF FilledEndpoints, FilledEndpoint
  <2>2. \A e : FilledEndpoint(p, e) = FilledEndpoint(f, e)
    <3>1. p.sni = f.sni
      BY <1>3
    <3> QED BY <3>1, Zenon DEF FilledEndpoint
  <2>3. p.eps = Given(f)
    BY <1>3
  <2>4. q = [p EXCEPT !.eps = eps]
    BY <2>1, <2>2, <2>3, Zenon
  <2> HIDE DEF eps, q
  <2> QED BY <1>3, <2>4
<1>5. eps \in Seq(Endpoint) /\ eps # <<>> /\ eps[1] \in Endpoint
  <2>1. \A i \in 1 .. Len(Given(f)) : FilledEndpoint(f, Given(f)[i]) \in Endpoint
    BY <1>1, <1>2, FilledEndpointFields
  <2>2. eps \in Seq(Endpoint) /\ Len(eps) = Len(Given(f)) /\ Len(Given(f)) \in Nat \ {0}
    BY <1>2, <2>1
  <2> HIDE DEF eps
  <2> QED BY <2>2
<1>6. eps[1].ip \in Hosts \cup {Blank} /\ eps[1].sni \in Snis \cup {Blank}
  BY <1>5 DEF Endpoint
<1> HIDE DEF eps
<1>7. Normalize(c) = IF f.lis # <<>> THEN q ELSE [q EXCEPT !.ip = eps[1].ip, !.sni = eps[1].sni]
  BY <1>4 DEF Normalize, FromEndpoints, f, p
<1> HIDE DEF q
<1>8. f.ip \in Hosts \cup {Blank} /\ f.sni \in Snis \cup {Blank} /\ f.method \in Methods
      /\ f.probe \in BOOLEAN /\ f.sound \in BOOLEAN
  BY <1>1, ConfigFields
<1> DEFINE n == Normalize(c)
<1> HIDE DEF n
<1>9. CASE c.lis = <<>>
  <2>1. n = [ip |-> eps[1].ip, sni |-> eps[1].sni, lis |-> f.lis, eps |-> eps,
             method |-> f.method, probe |-> f.probe, sound |-> f.sound]
    BY <1>1, <1>4, <1>7, <1>9 DEF n
  <2>2. n \in Config
    BY <1>1, <1>5, <1>6, <1>8, <2>1 DEF Config
  <2> QED BY <1>1, <1>2, <1>5, <1>9, <2>1, <2>2 DEF f, n, eps
<1>10. CASE c.lis # <<>>
  <2>1. n = [ip |-> f.ip, sni |-> f.sni, lis |-> f.lis, eps |-> eps,
             method |-> f.method, probe |-> f.probe, sound |-> f.sound]
    BY <1>1, <1>4, <1>7, <1>10 DEF n
  <2>2. n \in Config
    BY <1>1, <1>5, <1>8, <2>1 DEF Config
  <2> QED BY <1>1, <1>2, <1>5, <1>10, <2>1, <2>2 DEF f, n, eps
<1> QED BY <1>9, <1>10

-----------------------------------------------------------------------------
(* What a core runs with.                                                  *)

\* Every endpoint and every listener has what it takes, resolved.
Settled(c) ==
  /\ c \in Config
  /\ c.eps # <<>>
  /\ \A i \in 1 .. Len(c.eps) :
       Serviceable(c.eps[i]) /\ Resolved(c.eps[i].ip) = c.eps[i].ip
  /\ \A i \in 1 .. Len(c.lis) :
       /\ c.lis[i].ip # Blank /\ Resolved(c.lis[i].ip) = c.lis[i].ip
       /\ c.lis[i].sni # Blank
       /\ c.lis[i].method \in Methods

LEMMA ProbedFields ==
  ASSUME NEW eps \in Seq(Endpoint), eps # <<>>, NEW out \in Probed(eps)
  PROVE  /\ out \in Seq(Endpoint) /\ out # <<>>
         /\ \A k \in 1 .. Len(out) : \E i \in 1 .. Len(eps) : out[k] = eps[i]
<1>1. CASE out = eps
  BY <1>1
<1>2. CASE out # eps
  <2>1. PICK at \in UNION {SetToSeqs(I) : I \in (SUBSET DOMAIN eps) \ {{}}} :
          out = [k \in DOMAIN at |-> eps[at[k]]]
    BY <1>2 DEF Probed
  <2>2. PICK I \in (SUBSET DOMAIN eps) \ {{}} : at \in SetToSeqs(I)
    BY <2>1
  <2>3. DOMAIN eps = 1 .. Len(eps) /\ Len(eps) \in Nat
    OBVIOUS
  <2>4. IsFiniteSet(I)
    <3>1. 1 \in Int /\ Len(eps) \in Int /\ I \subseteq 1 .. Len(eps)
      BY <2>2, <2>3
    <3>2. IsFiniteSet(1 .. Len(eps))
      BY <3>1, FS_Interval
    <3> QED BY <3>1, <3>2, FS_Subset
  <2>5. Cardinality(I) \in Nat /\ Cardinality(I) # 0
    BY <2>2, <2>4, FS_CardinalityType, FS_EmptySet
  <2>6. at \in [1 .. Cardinality(I) -> I]
    BY <2>2 DEF SetToSeqs
  <2> DEFINE m == Cardinality(I)
  <2> HIDE DEF m
  <2>7. m \in Nat /\ m # 0 /\ DOMAIN at = 1 .. m /\ \A k \in 1 .. m : at[k] \in 1 .. Len(eps)
    BY <2>2, <2>3, <2>5, <2>6 DEF m
  <2>8. \A k \in 1 .. m : eps[at[k]] \in Endpoint
    BY <2>7
  <2>9. out \in [1 .. m -> Endpoint] /\ \A k \in 1 .. m : out[k] = eps[at[k]]
    BY <2>1, <2>7, <2>8
  <2>10. out \in Seq(Endpoint) /\ Len(out) = m
    BY <2>7, <2>9
  <2>11. \A k \in 1 .. m : \E i \in 1 .. Len(eps) : out[k] = eps[i]
    BY <2>7, <2>9, Zenon
  <2>12. out # <<>>
    BY <2>7, <2>10
  <2> QED BY <2>10, <2>11, <2>12, Zenon
<1> QED BY <1>1, <1>2

LEMMA ProbedHas ==
  ASSUME NEW eps \in Seq(Endpoint)
  PROVE  eps \in Probed(eps) /\ (Len(eps) = 1 => Probed(eps) = {eps})
<1> DEFINE m == Len(eps)
<1>1. eps \in Probed(eps)
  BY Zenon DEF Probed
<1>2. m = 1 => Probed(eps) = {eps}
  <2> HIDE DEF m
  <2>1. m = 1 => m <= 1
    OBVIOUS
  <2> QED BY <2>1, Zenon DEF Probed, m
<1> QED BY <1>1, <1>2

LEMMA LoadedFields ==
  ASSUME NEW c \in Config, NEW d \in Loaded(c)
  PROVE  LET n == Normalize(c)
             active == EnabledEndpoints(n.eps)
         IN /\ active \in Seq(Endpoint) /\ active # <<>>
            /\ d \in Config
            /\ d.ip = n.ip /\ d.sni = n.sni /\ d.lis = n.lis /\ d.method = n.method
            /\ d.eps = active \/ d.eps \in Probed(active)
<1> DEFINE n == Normalize(c)
           active == EnabledEndpoints(n.eps)
<1>1. n \in Config
  BY NormalizeFields
<1> HIDE DEF n
<1>2. active \in Seq(Endpoint)
  BY <1>1, ConfigFields, FilterFilters DEF Filtered
<1>3. active # <<>> /\ \E eps \in (IF n.probe THEN Probed(active) ELSE {active}) : d = [n EXCEPT !.eps = eps]
  BY DEF Loaded, n
<1> HIDE DEF active
<1>4. PICK eps : /\ eps = active \/ eps \in Probed(active)
                 /\ d = [n EXCEPT !.eps = eps]
  BY <1>3
<1>5. eps \in Seq(Endpoint)
  BY <1>2, <1>3, <1>4, ProbedFields
<1>6. d = [ip |-> n.ip, sni |-> n.sni, lis |-> n.lis, eps |-> eps,
           method |-> n.method, probe |-> n.probe, sound |-> n.sound]
  <2>1. n = [ip |-> n.ip, sni |-> n.sni, lis |-> n.lis, eps |-> n.eps,
             method |-> n.method, probe |-> n.probe, sound |-> n.sound]
    BY <1>1, ConfigFields
  <2>2. d = [n EXCEPT !.eps = eps]
    BY <1>4
  <2> QED BY <2>1, <2>2
<1>7. d \in Config
  BY <1>1, <1>5, <1>6, ConfigFields DEF Config
<1>8. d.ip = n.ip /\ d.sni = n.sni /\ d.lis = n.lis /\ d.method = n.method /\ d.eps = eps
  BY <1>6
<1>9. active # <<>> /\ (d.eps = active \/ d.eps \in Probed(active))
  BY <1>3, <1>4, <1>8
<1> QED BY <1>2, <1>7, <1>8, <1>9, Zenon DEF n, active

\* An endpoint of a normalised configuration that is on is resolved.
LEMMA NormalizedResolved ==
  ASSUME NEW c \in Config, NEW i \in 1 .. Len(Normalize(c).eps), Normalize(c).eps[i].on
  PROVE  Resolved(Normalize(c).eps[i].ip) = Normalize(c).eps[i].ip
<1> DEFINE f == FromListeners(c)
           g == Given(f)
           n == Normalize(c)
<1>1. f \in Config
  BY FromListenersFields
<1>2. /\ g \in Seq(Endpoint)
      /\ n.eps = [k \in 1 .. Len(g) |-> FilledEndpoint(f, g[k])]
      /\ n.eps \in Seq(Endpoint)
  BY NormalizeFields, ConfigFields
<1> HIDE DEF f, g, n
<1>3. i \in 1 .. Len(g) /\ n.eps[i] = FilledEndpoint(f, g[i]) /\ n.eps[i].on /\ g[i] \in Endpoint
  BY <1>2 DEF n
<1>4. n.eps[i].ip = Resolved(g[i].ip)
  BY <1>1, <1>3, FilledEndpointFields
<1>5. g[i].ip \in Hosts \cup {Blank}
  BY <1>3 DEF Endpoint
<1> QED BY <1>4, <1>5, ResolvedHost DEF n

LEMMA NormalizedListeners ==
  ASSUME NEW c \in Config, NEW i \in 1 .. Len(Normalize(c).lis)
  PROVE  LET l == Normalize(c).lis[i]
         IN l \in Listener /\ l.method \in Methods /\ Resolved(l.ip) = l.ip
<1> DEFINE n == Normalize(c)
<1>1. n.lis = [k \in 1 .. Len(c.lis) |-> FilledListener(c, c.lis[k])]
  BY NormalizeFields, FromListenersFields
<1>2. c.lis \in Seq(Listener)
  BY ConfigFields
<1> HIDE DEF n
<1>3. i \in 1 .. Len(c.lis) /\ n.lis[i] = FilledListener(c, c.lis[i]) /\ c.lis[i] \in Listener
  BY <1>1, <1>2 DEF n
<1>4. n.lis[i] \in Listener /\ n.lis[i].method \in Methods
  BY <1>3, FilledListenerFields
<1>5. n.lis[i].ip = Resolved(OrElse(c.lis[i].ip, c.ip))
  BY <1>3 DEF FilledListener
<1>6. OrElse(c.lis[i].ip, c.ip) \in Hosts \cup {Blank}
  BY <1>3, ConfigFields DEF OrElse, Listener
<1> QED BY <1>4, <1>5, <1>6, ResolvedHost DEF n

\* What the doctor accepts and a core loads is settled.
LEMMA LoadedSettled ==
  ASSUME NEW c \in Config, Doctor(Normalize(c)), NEW d \in Loaded(c)
  PROVE  Settled(d)
<1> DEFINE n == Normalize(c)
           active == EnabledEndpoints(n.eps)
<1>1. n \in Config /\ n.eps \in Seq(Endpoint) /\ n.lis \in Seq(Listener)
  BY NormalizeFields, ConfigFields
<1>2. /\ active \in Seq(Endpoint) /\ active # <<>> /\ d \in Config
      /\ d.lis = n.lis /\ (d.eps = active \/ d.eps \in Probed(active))
  BY LoadedFields
<1>3. \A i \in 1 .. Len(n.lis) :
        n.lis[i].ip # Blank /\ n.lis[i].sni # Blank
  BY DEF Doctor
<1>4. \A i \in 1 .. Len(n.lis) : n.lis[i].method \in Methods /\ Resolved(n.lis[i].ip) = n.lis[i].ip
  BY NormalizedListeners
<1>5. ASSUME NEW k \in 1 .. Len(active)
      PROVE  Serviceable(active[k]) /\ Resolved(active[k].ip) = active[k].ip
  <2>1. /\ Serviceable(active[k])
        /\ \E i \in 1 .. Len(n.eps) : active[k] = n.eps[i]
    BY <1>1, FilterFilters DEF Filtered, FilterSound
  <2>2. PICK i \in 1 .. Len(n.eps) : active[k] = n.eps[i]
    BY <2>1
  <2> HIDE DEF active
  <2>3. n.eps[i].on
    BY <2>1, <2>2 DEF Serviceable
  <2> QED BY <2>1, <2>2, <2>3, NormalizedResolved
<1> HIDE DEF n, active
<1>6. /\ d.eps \in Seq(Endpoint) /\ d.eps # <<>>
      /\ \A k \in 1 .. Len(d.eps) : \E j \in 1 .. Len(active) : d.eps[k] = active[j]
  BY <1>2, ProbedFields
<1>7. \A k \in 1 .. Len(d.eps) : Serviceable(d.eps[k]) /\ Resolved(d.eps[k].ip) = d.eps[k].ip
  BY <1>5, <1>6
<1> QED BY <1>2, <1>3, <1>4, <1>6, <1>7 DEF Settled

LEMMA SettledServes ==
  ASSUME NEW c, Settled(c)
  PROVE  Serves(c) \in Seq(Upstream) /\ Serves(c) # <<>>
<1>1. /\ c.lis \in Seq(Listener) /\ c.eps \in Seq(Endpoint) /\ c.eps # <<>>
      /\ c.method \in Methods
  BY ConfigFields DEF Settled
<1>2. CASE c.lis # <<>>
  <2> DEFINE out == [i \in 1 .. Len(c.lis) |-> [c.lis[i] EXCEPT !.ip = Resolved(@)]]
  <2>1. ASSUME NEW i \in 1 .. Len(c.lis)
        PROVE  [c.lis[i] EXCEPT !.ip = Resolved(@)] \in Upstream
    <3>1. c.lis[i] \in Listener
      BY <1>1
    <3>2. c.lis[i] = [ip |-> c.lis[i].ip, sni |-> c.lis[i].sni, method |-> c.lis[i].method]
          /\ c.lis[i].ip \in Hosts /\ c.lis[i].sni \in Snis /\ c.lis[i].method \in Methods
          /\ Resolved(c.lis[i].ip) = c.lis[i].ip
      BY <3>1 DEF Settled, Listener
    <3> QED BY <3>2 DEF Upstream
  <2>2. out \in Seq(Upstream) /\ Len(out) = Len(c.lis)
    BY <1>1, <2>1
  <2>3. Serves(c) = out
    BY <1>2, Zenon DEF Serves
  <2> HIDE DEF out
  <2> QED BY <1>1, <1>2, <2>2, <2>3
<1>3. CASE c.lis = <<>>
  <2> DEFINE out == [i \in 1 .. Len(c.eps) |->
                       [ip |-> c.eps[i].ip, sni |-> c.eps[i].sni, method |-> c.method]]
  <2>1. ASSUME NEW i \in 1 .. Len(c.eps)
        PROVE  [ip |-> c.eps[i].ip, sni |-> c.eps[i].sni, method |-> c.method] \in Upstream
    <3>1. c.eps[i] \in Endpoint /\ Serviceable(c.eps[i])
      BY <1>1 DEF Settled
    <3> QED BY <1>1, <3>1 DEF Endpoint, Serviceable, Upstream
  <2>2. out \in Seq(Upstream) /\ Len(out) = Len(c.eps)
    BY <1>1, <2>1
  <2>3. Serves(c) = out
    BY <1>3, Zenon DEF Serves
  <2> HIDE DEF out
  <2> QED BY <1>1, <2>2, <2>3
<1> QED BY <1>2, <1>3

\* The edge that a core swaps to leaves it settled.
LEMMA SwappedSettled ==
  ASSUME NEW c, Settled(c), NEW best \in Hosts, Resolve[best] = best
  PROVE  Settled(SwappedTo(c, best))
<1> DEFINE d == SwappedTo(c, best)
           eps == [c.eps EXCEPT ![1].ip = best]
<1>1. /\ c \in Config /\ c.eps \in Seq(Endpoint) /\ c.eps # <<>> /\ best # Blank
      /\ \A i \in 1 .. Len(c.eps) : Serviceable(c.eps[i]) /\ Resolved(c.eps[i].ip) = c.eps[i].ip
  BY ConfigFields, EndpointAssumption DEF Settled
<1>2. d = [ip |-> best, sni |-> c.sni, lis |-> c.lis, eps |-> eps,
           method |-> c.method, probe |-> c.probe, sound |-> c.sound]
  <2> DEFINE c1 == [c EXCEPT !.ip = best]
  <2>1. c1 = [ip |-> best, sni |-> c.sni, lis |-> c.lis, eps |-> c.eps,
              method |-> c.method, probe |-> c.probe, sound |-> c.sound]
    BY <1>1, ConfigFields
  <2>2. d = [c1 EXCEPT !.eps = [c1.eps EXCEPT ![1] = [c1.eps[1] EXCEPT !.ip = best]]]
    BY Zenon DEF SwappedTo
  <2>3. c1.eps = c.eps
    BY <2>1
  <2> HIDE DEF c1, d
  <2>4. d = [c1 EXCEPT !.eps = eps]
    BY <2>2, <2>3, Zenon
  <2> HIDE DEF eps
  <2> QED BY <2>1, <2>4
<1>3. /\ eps[1] = [c.eps[1] EXCEPT !.ip = best]
      /\ \A i \in 1 .. Len(c.eps) : i # 1 => eps[i] = c.eps[i]
      /\ DOMAIN eps = 1 .. Len(c.eps) /\ 1 \in 1 .. Len(c.eps) /\ Len(c.eps) \in Nat
  BY <1>1
<1> HIDE DEF eps, d
<1>4. eps[1] \in Endpoint /\ Serviceable(eps[1]) /\ Resolved(eps[1].ip) = eps[1].ip
  <2>1. c.eps[1] \in Endpoint /\ Serviceable(c.eps[1])
    BY <1>1, <1>3
  <2> QED BY <1>1, <1>3, <2>1 DEF Endpoint, Serviceable, Resolved
<1>5. \A i \in 1 .. Len(c.eps) :
        eps[i] \in Endpoint /\ Serviceable(eps[i]) /\ Resolved(eps[i].ip) = eps[i].ip
  <2> SUFFICES ASSUME NEW i \in 1 .. Len(c.eps)
               PROVE  eps[i] \in Endpoint /\ Serviceable(eps[i]) /\ Resolved(eps[i].ip) = eps[i].ip
    OBVIOUS
  <2>1. CASE i = 1
    BY <1>4, <2>1
  <2>2. CASE i # 1
    <3>1. c.eps[i] \in Endpoint /\ eps[i] = c.eps[i]
      BY <1>1, <1>3, <2>2
    <3> QED BY <1>1, <3>1
  <2> QED BY <2>1, <2>2
<1>6. eps \in Seq(Endpoint) /\ Len(eps) = Len(c.eps) /\ eps # <<>>
  <2>1. eps = [i \in 1 .. Len(c.eps) |-> eps[i]]
    BY <1>3 DEF eps
  <2>2. eps \in [1 .. Len(c.eps) -> Endpoint]
    BY <1>5, <2>1
  <2> QED BY <1>3, <2>2
<1>7. d \in Config
  BY <1>1, <1>2, <1>6, ConfigFields DEF Config
<1> QED BY <1>2, <1>5, <1>6, <1>7 DEF Settled, d

\* Normalising and filtering what a core runs with changes nothing that it serves.
LEMMA SettledLoads ==
  ASSUME NEW c, Settled(c)
  PROVE  \E d \in Loaded(c) : Serves(d) = Serves(c)
<1> DEFINE f == FromListeners(c)
           n == Normalize(c)
<1>1. /\ c \in Config /\ c.eps \in Seq(Endpoint) /\ c.lis \in Seq(Listener)
      /\ c.eps # <<>> /\ c.method \in Methods
  BY ConfigFields DEF Settled
<1>2. /\ f \in Config /\ f.eps = c.eps
      /\ f.lis = [i \in 1 .. Len(c.lis) |-> FilledListener(c, c.lis[i])]
  BY <1>1, FromListenersFields
<1>3. Given(f) = c.eps
  BY <1>1, <1>2 DEF Given
<1>4. /\ n \in Config /\ n.lis = f.lis /\ n.method = c.method
      /\ n.eps = [i \in 1 .. Len(c.eps) |-> FilledEndpoint(f, c.eps[i])]
  BY <1>1, <1>3, NormalizeFields
<1> HIDE DEF f, n
<1>5. \A i \in 1 .. Len(c.lis) : FilledListener(c, c.lis[i]) = c.lis[i]
  <2> SUFFICES ASSUME NEW i \in 1 .. Len(c.lis)
               PROVE  FilledListener(c, c.lis[i]) = c.lis[i]
    OBVIOUS
  <2>1. c.lis[i] \in Listener /\ Blank \notin Methods
    BY <1>1, EndpointAssumption
  <2>2. c.lis[i] = [ip |-> c.lis[i].ip, sni |-> c.lis[i].sni, method |-> c.lis[i].method]
        /\ c.lis[i].ip # Blank /\ c.lis[i].sni # Blank /\ c.lis[i].method # Blank
        /\ Resolved(c.lis[i].ip) = c.lis[i].ip
    BY <2>1 DEF Settled, Listener
  <2> QED BY <2>2 DEF FilledListener, OrElse
<1>6. \A i \in 1 .. Len(c.eps) : FilledEndpoint(f, c.eps[i]) = c.eps[i]
  <2> SUFFICES ASSUME NEW i \in 1 .. Len(c.eps)
               PROVE  FilledEndpoint(f, c.eps[i]) = c.eps[i]
    OBVIOUS
  <2> DEFINE e == c.eps[i]
  <2>1. e \in Endpoint /\ Serviceable(e) /\ Resolved(e.ip) = e.ip
    BY <1>1 DEF Settled
  <2> HIDE DEF e
  <2>2. e = [ip |-> e.ip, sni |-> e.sni, on |-> e.on] /\ e.on /\ e.sni # Blank
    BY <2>1 DEF Endpoint, Serviceable
  <2>3. OrElse(e.sni, f.sni) = e.sni
    BY <2>2 DEF OrElse
  <2>4. FilledEndpoint(f, e) = [e EXCEPT !.ip = e.ip, !.sni = e.sni]
    BY <2>1, <2>2, <2>3, Zenon DEF FilledEndpoint
  <2>5. FilledEndpoint(f, e) = e
    BY <2>2, <2>4
  <2> QED BY <2>5 DEF e
<1>7. n.lis = c.lis /\ n.eps = c.eps
  <2>1. /\ c.lis = [i \in 1 .. Len(c.lis) |-> c.lis[i]]
        /\ c.eps = [i \in 1 .. Len(c.eps) |-> c.eps[i]]
    BY <1>1
  <2>2. n.lis = [i \in 1 .. Len(c.lis) |-> c.lis[i]]
    BY <1>2, <1>4, <1>5, Zenon
  <2>3. n.eps = [i \in 1 .. Len(c.eps) |-> c.eps[i]]
    BY <1>4, <1>6, Zenon
  <2> QED BY <2>1, <2>2, <2>3, Zenon
<1>8. EnabledEndpoints(n.eps) = c.eps
  BY <1>1, <1>7, FilterIdle DEF Settled
<1> DEFINE d == [n EXCEPT !.eps = c.eps]
<1>9. d \in Loaded(c)
  BY <1>1, <1>8, ProbedHas DEF Loaded, n
<1>10. d.lis = c.lis /\ d.eps = c.eps /\ d.method = c.method
  BY <1>4, <1>7, ConfigFields
<1> HIDE DEF d
<1>11. Serves(d) = Serves(c)
  BY <1>10, Zenon DEF Serves
<1> QED BY <1>9, <1>11

-----------------------------------------------------------------------------
(* What the file leads to.                                                 *)

\* The running core is settled and serves what it has in memory.
CoreInv == core # Off => Settled(core.cfg) /\ core.serves = Serves(core.cfg)

ServeInv == EndpointTypeOK /\ CoreInv /\ ServesFile

LEMMA ListsOfConfig ==
  ASSUME NEW c \in Config
  PROVE  ListsOf(c) \in Lists /\ ListsOf(c).lis = c.lis /\ ListsOf(c).eps = c.eps
  BY ConfigFields DEF ListsOf, Lists

LEMMA InitServeInv == EndpointInit => ServeInv
  BY EndpointAssumption, ListsOfConfig
  DEF EndpointInit, ServeInv, EndpointTypeOK, CoreInv, ServesFile

LEMMA StartedServeInv ==
  ASSUME ServeInv, Started
  PROVE  ServeInv'
<1>1. /\ UNCHANGED <<file, ui, held, chosen, asked>>
      /\ due' = FALSE /\ unsaved' = FALSE
  BY DEF Started
<1>2. CASE core' = Off
  BY <1>1, <1>2 DEF ServeInv, EndpointTypeOK, CoreInv, ServesFile
<1>3. CASE core' # Off
  <2>1. /\ Doctor(Normalize(file))
        /\ \E c \in Loaded(file) : core' = [cfg |-> c, serves |-> Serves(c)]
    BY <1>3 DEF Started
  <2>2. PICK c \in Loaded(file) : core' = [cfg |-> c, serves |-> Serves(c)]
    BY <2>1
  <2>3. core'.cfg = c /\ core'.serves = Serves(c)
    BY <2>2
  <2>4. Settled(c)
    BY <2>1, LoadedSettled DEF ServeInv, EndpointTypeOK
  <2>5. Serves(c) \in Seq(Upstream) /\ Serves(c) # <<>> /\ c \in Config
    BY <2>4, SettledServes DEF Settled
  <2>6. EndpointTypeOK'
    BY <1>1, <2>3, <2>5 DEF ServeInv, EndpointTypeOK
  <2>7. CoreInv'
    BY <2>3, <2>4 DEF CoreInv
  <2>8. ServesFile'
    BY <1>1, <2>2, <2>3 DEF ServesFile
  <2> QED BY <2>6, <2>7, <2>8 DEF ServeInv
<1> QED BY <1>2, <1>3

LEMMA SwapServeInv ==
  ASSUME ServeInv, NEW best \in {Resolve[h] : h \in Hosts}, Swap(best)
  PROVE  ServeInv'
<1> DEFINE c == SwappedTo(core.cfg, best)
<1>1. /\ core # Off
      /\ core' = [cfg |-> c, serves |-> Serves(c)]
      /\ (file' = c /\ unsaved' = FALSE) \/ (file' = file /\ unsaved' = TRUE)
      /\ chosen' = Off /\ asked' = Off
      /\ UNCHANGED <<ui, due, held>>
  BY DEF Swap
<1>2. best \in Hosts /\ Resolve[best] = best
  BY EndpointAssumption
<1>3. Settled(c)
  BY <1>1, <1>2, SwappedSettled DEF ServeInv, CoreInv
<1> HIDE DEF c
<1>4. core'.cfg = c /\ core'.serves = Serves(c)
  BY <1>1
<1>5. Serves(c) \in Seq(Upstream) /\ Serves(c) # <<>> /\ c \in Config
  BY <1>3, SettledServes DEF Settled
<1>6. EndpointTypeOK'
  BY <1>1, <1>4, <1>5 DEF ServeInv, EndpointTypeOK
<1>7. CoreInv'
  BY <1>3, <1>4 DEF CoreInv
<1>8. ServesFile'
  BY <1>1, <1>3, <1>4, SettledLoads DEF ServesFile
<1> QED BY <1>6, <1>7, <1>8 DEF ServeInv

\* An edge over the file, the form over the UI's copy, and a method over what a
\* test held are configurations.
LEMMA EdgeWritten ==
  ASSUME NEW c \in Config, NEW edge \in Offered
  PROVE  LET d == [c EXCEPT !.ip = edge.ip, !.sni = edge.sni, !.sound = @ /\ edge.sound]
         IN /\ d \in Config
            /\ d.ip = edge.ip /\ d.sni = edge.sni /\ d.ip # Blank /\ d.sni # Blank
            /\ d.lis = c.lis /\ d.eps = c.eps /\ d.method = c.method
<1> DEFINE d == [c EXCEPT !.ip = edge.ip, !.sni = edge.sni, !.sound = @ /\ edge.sound]
<1>1. edge.ip \in Hosts /\ edge.sni \in Snis /\ edge.sound \in BOOLEAN
  BY EndpointAssumption
<1>2. /\ c \in Config
      /\ c = [ip |-> c.ip, sni |-> c.sni, lis |-> c.lis, eps |-> c.eps,
              method |-> c.method, probe |-> c.probe, sound |-> c.sound]
  BY ConfigFields
<1>3. d = [ip |-> edge.ip, sni |-> edge.sni, lis |-> c.lis, eps |-> c.eps,
           method |-> c.method, probe |-> c.probe, sound |-> c.sound /\ edge.sound]
  <2> DEFINE sound == c.sound /\ edge.sound
  <2>1. d = [c EXCEPT !.ip = edge.ip, !.sni = edge.sni, !.sound = sound]
    BY Zenon
  <2> HIDE DEF sound, d
  <2>2. d = [ip |-> edge.ip, sni |-> edge.sni, lis |-> c.lis, eps |-> c.eps,
             method |-> c.method, probe |-> c.probe, sound |-> sound]
    BY <1>2, <2>1
  <2> QED BY <2>2 DEF sound
<1> HIDE DEF d
<1>4. d \in Config
  <2>1. (c.sound /\ edge.sound) \in BOOLEAN
    BY <1>1, <1>2 DEF Config
  <2> QED BY <1>1, <1>3, <2>1, ConfigFields DEF Config
<1>5. edge.ip # Blank /\ edge.sni # Blank
  BY <1>1, EndpointAssumption
<1> QED BY <1>3, <1>4, <1>5 DEF d

LEMMA FormWritten ==
  ASSUME NEW u \in Lists, NEW form \in Forms, NEW method \in Methods
  PROVE  LET d == [ip |-> form.ip, sni |-> form.sni, sound |-> form.sound, method |-> method,
                   lis |-> u.lis, eps |-> u.eps, probe |-> u.probe]
         IN d \in Config /\ d.lis = u.lis /\ d.eps = u.eps /\ d.method = method
<1>1. /\ form.ip \in Hosts \cup {Blank} /\ form.sni \in Snis \cup {Blank}
      /\ form.sound \in BOOLEAN
  BY EndpointAssumption
<1>2. u.lis \in Seq(Listener) /\ u.eps \in Seq(Endpoint) /\ u.probe \in BOOLEAN
  BY DEF Lists
<1> QED BY <1>1, <1>2 DEF Config

\* The address and name chosen are those of the configuration.
LEMMA ChosenEdge ==
  ASSUME NEW c \in Config, Chosen(c) # Off
  PROVE  /\ Chosen(c) \in Edge /\ Chosen(c).ip = c.ip
         /\ c.lis = <<>> /\ c.eps = <<>>
  BY ConfigFields DEF Chosen, Edge

LEMMA MethodWritten ==
  ASSUME NEW c \in Config, NEW method \in Methods
  PROVE  [c EXCEPT !.method = method] \in Config
  BY DEF Config

LEMMA SaveServeInv ==
  ASSUME ServeInv, NEW form \in Forms, NEW method \in Methods, Save(form, method)
  PROVE  ServeInv'
<1> DEFINE posted == [ip |-> form.ip, sni |-> form.sni, sound |-> form.sound, method |-> method,
                      lis |-> ui.lis, eps |-> ui.eps, probe |-> ui.probe]
<1>1. /\ UNCHANGED <<ui, core, held, unsaved>> /\ due' = TRUE
      /\ file' = Normalize(posted)
      /\ chosen' = Chosen(posted) /\ asked' = Asked(posted, method)
  BY DEF Save
<1>2. posted \in Config
  BY FormWritten DEF ServeInv, EndpointTypeOK
<1> HIDE DEF posted
<1>3. file' \in Config
  BY <1>1, <1>2, NormalizeFields
<1>4. chosen' \in Edge \cup {Off} /\ asked' \in Methods \cup {Off}
  BY <1>1, <1>2, ChosenEdge DEF Asked
<1> QED BY <1>1, <1>3, <1>4 DEF ServeInv, EndpointTypeOK, CoreInv, ServesFile

LEMMA ApplyServeInv ==
  ASSUME ServeInv, NEW edge \in Offered, Apply(edge)
  PROVE  ServeInv'
<1>1. /\ UNCHANGED <<ui, core, held, unsaved, asked>> /\ due' = TRUE
      /\ chosen' = Chosen(file')
  BY DEF Apply
<1>2. file' \in Config
  BY EdgeWritten DEF Apply, ServeInv, EndpointTypeOK
<1>3. chosen' \in Edge \cup {Off}
  BY <1>1, <1>2, ChosenEdge
<1> QED BY <1>1, <1>2, <1>3 DEF ServeInv, EndpointTypeOK, CoreInv, ServesFile

LEMMA TestEndServeInv ==
  ASSUME ServeInv, NEW method \in Methods, TestEnd(method)
  PROVE  ServeInv'
<1>1. /\ core' = core /\ due' = TRUE /\ unsaved' = unsaved /\ held' = Off
      /\ ui' = ui /\ chosen' = Off
  BY DEF TestEnd
<1>2. file' \in Config
  BY MethodWritten DEF TestEnd, ServeInv, EndpointTypeOK
<1>3. asked' \in Methods \cup {Off}
  BY DEF TestEnd, Asked
<1> QED BY <1>1, <1>2, <1>3 DEF ServeInv, EndpointTypeOK, CoreInv, ServesFile

LEMMA StepServeInv == ServeInv /\ [EndpointNext]_endpointVars => ServeInv'
<1> SUFFICES ASSUME ServeInv, [EndpointNext]_endpointVars PROVE ServeInv'
  OBVIOUS
<1>1. CASE Fetch \/ TestFails \/ UNCHANGED endpointVars
  BY <1>1, ListsOfConfig
  DEF Fetch, TestFails, endpointVars, ServeInv, EndpointTypeOK, CoreInv, ServesFile
<1>2. CASE TestBegin
  <2>1. held' \in Config
    BY <1>2, NormalizeFields DEF TestBegin, ServeInv, EndpointTypeOK
  <2> QED BY <1>2, <2>1 DEF TestBegin, ServeInv, EndpointTypeOK, CoreInv, ServesFile
<1>3. CASE NoRestart \/ Stop
  BY <1>3 DEF NoRestart, Stop, ServeInv, EndpointTypeOK, CoreInv, ServesFile
<1>4. CASE RestartCore \/ Start
  BY <1>4, StartedServeInv DEF RestartCore, Start
<1>5. ASSUME NEW form \in Forms, NEW method \in Methods, Save(form, method) PROVE ServeInv'
  BY <1>5, SaveServeInv
<1>6. ASSUME NEW edge \in Offered, Apply(edge) PROVE ServeInv'
  BY <1>6, ApplyServeInv
<1>7. ASSUME NEW method \in Methods, TestEnd(method) PROVE ServeInv'
  BY <1>7, TestEndServeInv
<1>8. ASSUME NEW best \in {Resolve[h] : h \in Hosts}, Swap(best) PROVE ServeInv'
  BY <1>8, SwapServeInv
<1> QED BY <1>1, <1>2, <1>3, <1>4, <1>5, <1>6, <1>7, <1>8 DEF EndpointNext

\* Every variable has its type: what the requests write is a configuration, and a
\* core runs with one and serves at least one upstream.
THEOREM EndpointTypeCorrect == EndpointSpec => []EndpointTypeOK
<1>1. EndpointInit => ServeInv
  BY InitServeInv
<1>2. ServeInv /\ [EndpointNext]_endpointVars => ServeInv'
  BY StepServeInv
<1>3. ServeInv => EndpointTypeOK
  BY DEF ServeInv
<1> QED BY <1>1, <1>2, <1>3, PTL DEF EndpointSpec

\* A core that is restarted comes back to what it serves.
THEOREM FileServed == EndpointSpec => []ServesFile
<1>1. EndpointInit => ServeInv
  BY InitServeInv
<1>2. ServeInv /\ [EndpointNext]_endpointVars => ServeInv'
  BY StepServeInv
<1>3. ServeInv => ServesFile
  BY DEF ServeInv
<1> QED BY <1>1, <1>2, <1>3, PTL DEF EndpointSpec

-----------------------------------------------------------------------------
(* What was chosen is what is served.                                      *)

\* Nothing in c but the edge selects the upstream.
Honours(c, edge) ==
  /\ c.lis = <<>>
  /\ \A i \in 1 .. Len(Given(c)) : Given(c)[i].on => Resolved(Given(c)[i].ip) = Resolved(edge.ip)

FileChosen ==
  /\ chosen # Off => Honours(file, chosen)
  /\ asked # Off => file.lis = <<>> /\ file.method = asked

ChosenInv == ServeInv /\ FileChosen /\ ChosenTakesEffect

\* Without listeners the endpoints of a normalised configuration are the given
\* ones, or the top, with what they lacked.
LEMMA UnlistedNormalize ==
  ASSUME NEW c \in Config, c.lis = <<>>
  PROVE  /\ Normalize(c).lis = <<>>
         /\ Given(c) \in Seq(Endpoint) /\ Given(c) # <<>>
         /\ Normalize(c).eps = [i \in 1 .. Len(Given(c)) |-> FilledEndpoint(c, Given(c)[i])]
<1> DEFINE f == FromListeners(c)
<1>1. f = c
  BY DEF FromListeners
<1> HIDE DEF f
<1>2. /\ Normalize(c).lis = f.lis
      /\ Given(f) \in Seq(Endpoint) /\ Given(f) # <<>>
      /\ Normalize(c).eps = [i \in 1 .. Len(Given(f)) |-> FilledEndpoint(f, Given(f)[i])]
  BY NormalizeFields DEF f
<1> QED BY <1>1, <1>2

LEMMA NormalizeHonours ==
  ASSUME NEW c \in Config, NEW edge, Honours(c, edge)
  PROVE  /\ Normalize(c).lis = <<>>
         /\ \A i \in 1 .. Len(Normalize(c).eps) :
              Normalize(c).eps[i].on => Normalize(c).eps[i].ip = Resolved(edge.ip)
         /\ Honours(Normalize(c), edge)
<1> DEFINE g == Given(c)
           n == Normalize(c)
<1>1. c.lis = <<>> /\ \A i \in 1 .. Len(g) : g[i].on => Resolved(g[i].ip) = Resolved(edge.ip)
  BY DEF Honours
<1>2. /\ n.lis = <<>> /\ g \in Seq(Endpoint) /\ g # <<>>
      /\ n.eps = [i \in 1 .. Len(g) |-> FilledEndpoint(c, g[i])]
  BY <1>1, UnlistedNormalize
<1>3. n.eps # <<>>
  BY NormalizeFields
<1>4. \A i \in 1 .. Len(n.eps) : n.eps[i].on => Resolved(n.eps[i].ip) = n.eps[i].ip
  BY NormalizedResolved
<1> HIDE DEF g, n
<1>5. ASSUME NEW i \in 1 .. Len(n.eps), n.eps[i].on
      PROVE  n.eps[i].ip = Resolved(edge.ip)
  <2>1. i \in 1 .. Len(g) /\ n.eps[i] = FilledEndpoint(c, g[i]) /\ g[i] \in Endpoint
    BY <1>2
  <2>2. g[i].on /\ n.eps[i].ip = Resolved(g[i].ip)
    BY <1>5, <2>1, FilledEndpointFields
  <2> QED BY <1>1, <2>1, <2>2
<1>6. Given(n) = n.eps
  BY <1>3 DEF Given
<1> QED BY <1>2, <1>4, <1>5, <1>6 DEF Honours, n

\* What a core loads from such a file serves the edge, and nothing else.
LEMMA HonoursServes ==
  ASSUME NEW c \in Config, NEW edge, Honours(c, edge), NEW d \in Loaded(c)
  PROVE  \E i \in 1 .. Len(Serves(d)) : Serves(d)[i].ip = Resolved(edge.ip)
<1> DEFINE n == Normalize(c)
           active == EnabledEndpoints(n.eps)
<1>1. n \in Config /\ n.eps \in Seq(Endpoint)
  BY NormalizeFields, ConfigFields
<1>2. n.lis = <<>> /\ \A i \in 1 .. Len(n.eps) : n.eps[i].on => n.eps[i].ip = Resolved(edge.ip)
  BY NormalizeHonours
<1>3. /\ active \in Seq(Endpoint) /\ active # <<>> /\ d \in Config
      /\ d.lis = n.lis /\ (d.eps = active \/ d.eps \in Probed(active))
  BY LoadedFields
<1>4. \A k \in 1 .. Len(active) : active[k].ip = Resolved(edge.ip)
  <2>1. \A k \in 1 .. Len(active) :
          Serviceable(active[k]) /\ \E i \in 1 .. Len(n.eps) : active[k] = n.eps[i]
    BY <1>1, FilterFilters DEF Filtered, FilterSound
  <2> HIDE DEF active, n
  <2> QED BY <1>2, <2>1 DEF Serviceable, n
<1> HIDE DEF n, active
<1>5. /\ d.eps \in Seq(Endpoint) /\ d.eps # <<>>
      /\ \A k \in 1 .. Len(d.eps) : \E j \in 1 .. Len(active) : d.eps[k] = active[j]
  BY <1>3, ProbedFields
<1>6. 1 \in 1 .. Len(d.eps) /\ d.eps[1].ip = Resolved(edge.ip)
  BY <1>4, <1>5
<1>7. Serves(d) = [i \in 1 .. Len(d.eps) |->
                     [ip |-> d.eps[i].ip, sni |-> d.eps[i].sni, method |-> d.method]]
  BY <1>2, <1>3, Zenon DEF Serves
<1>8. Len(Serves(d)) = Len(d.eps) /\ Serves(d)[1].ip = d.eps[1].ip
  BY <1>5, <1>6, <1>7
<1> QED BY <1>6, <1>8

LEMMA AskedServes ==
  ASSUME NEW c \in Config, c.lis = <<>>, NEW d \in Loaded(c)
  PROVE  \A i \in 1 .. Len(Serves(d)) : Serves(d)[i].method = c.method
<1>1. Normalize(c) \in Config /\ Normalize(c).lis = <<>> /\ Normalize(c).method = c.method
  BY UnlistedNormalize, NormalizeFields
<1>2. d \in Config /\ d.lis = <<>> /\ d.method = c.method
  BY <1>1, LoadedFields
<1>3. Serves(d) = [i \in 1 .. Len(d.eps) |->
                     [ip |-> d.eps[i].ip, sni |-> d.eps[i].sni, method |-> d.method]]
  BY <1>2, Zenon DEF Serves
<1>4. d.eps \in Seq(Endpoint)
  BY <1>2, ConfigFields
<1> QED BY <1>2, <1>3, <1>4

LEMMA StartedChosenInv ==
  ASSUME ChosenInv, Started
  PROVE  FileChosen' /\ ChosenTakesEffect'
<1>1. UNCHANGED <<file, chosen, asked>> /\ file \in Config
  BY DEF Started, ChosenInv, ServeInv, EndpointTypeOK
<1>2. FileChosen'
  BY <1>1 DEF ChosenInv, FileChosen, Honours
<1>3. CASE core' = Off
  BY <1>2, <1>3 DEF ChosenTakesEffect
<1>4. CASE core' # Off
  <2>1. PICK c \in Loaded(file) : core' = [cfg |-> c, serves |-> Serves(c)]
    BY <1>4 DEF Started
  <2>2. core'.serves = Serves(c)
    BY <2>1
  <2>3. chosen # Off => \E i \in 1 .. Len(Serves(c)) : Serves(c)[i].ip = Resolved(chosen.ip)
    BY <1>1, HonoursServes DEF ChosenInv, FileChosen
  <2>4. asked # Off => \A i \in 1 .. Len(Serves(c)) : Serves(c)[i].method = asked
    BY <1>1, AskedServes DEF ChosenInv, FileChosen
  <2> QED BY <1>1, <1>2, <2>2, <2>3, <2>4 DEF ChosenTakesEffect
<1> QED BY <1>2, <1>3, <1>4

\* A configuration without lists honours the address at its top.
LEMMA UnlistedHonours ==
  ASSUME NEW c \in Config, c.lis = <<>>, c.eps = <<>>, NEW edge, edge.ip = c.ip
  PROVE  Honours(c, edge)
<1>1. Given(c) = <<[ip |-> c.ip, sni |-> c.sni, on |-> TRUE]>>
  BY DEF Given
<1> QED BY <1>1 DEF Honours

\* The form, where it lists nothing, honours the edge, and so does the file.
LEMMA SaveChosenInv ==
  ASSUME ChosenInv, NEW form \in Forms, NEW method \in Methods, Save(form, method)
  PROVE  FileChosen' /\ ChosenTakesEffect'
<1> DEFINE posted == [ip |-> form.ip, sni |-> form.sni, sound |-> form.sound, method |-> method,
                      lis |-> ui.lis, eps |-> ui.eps, probe |-> ui.probe]
<1>1. /\ file' = Normalize(posted) /\ due' = TRUE
      /\ chosen' = Chosen(posted) /\ asked' = Asked(posted, method)
  BY DEF Save
<1>2. posted \in Config /\ posted.method = method
  BY FormWritten DEF ChosenInv, ServeInv, EndpointTypeOK
<1> HIDE DEF posted
<1>3. chosen' # Off => Honours(file', chosen')
  <2> SUFFICES ASSUME chosen' # Off PROVE Honours(file', chosen')
    OBVIOUS
  <2>1. chosen'.ip = posted.ip /\ posted.lis = <<>> /\ posted.eps = <<>>
    BY <1>1, <1>2, ChosenEdge
  <2>2. Honours(posted, chosen')
    BY <1>2, <2>1, UnlistedHonours
  <2> QED BY <1>1, <1>2, <2>2, NormalizeHonours
<1>4. asked' # Off => file'.lis = <<>> /\ file'.method = asked'
  BY <1>1, <1>2, UnlistedNormalize, NormalizeFields DEF Asked
<1> QED BY <1>1, <1>3, <1>4 DEF FileChosen, ChosenTakesEffect, Honours

LEMMA ApplyChosenInv ==
  ASSUME ChosenInv, NEW edge \in Offered, Apply(edge)
  PROVE  FileChosen' /\ ChosenTakesEffect'
<1>1. /\ due' = TRUE /\ chosen' = Chosen(file') /\ asked' = asked
  BY DEF Apply
<1>2. file' \in Config /\ file'.lis = file.lis /\ file'.method = file.method
  BY EdgeWritten DEF Apply, ChosenInv, ServeInv, EndpointTypeOK
<1>3. chosen' # Off => Honours(file', chosen')
  BY <1>1, <1>2, ChosenEdge, UnlistedHonours
<1>4. asked' # Off => file'.lis = <<>> /\ file'.method = asked'
  BY <1>1, <1>2 DEF ChosenInv, FileChosen
<1> QED BY <1>1, <1>3, <1>4 DEF FileChosen, ChosenTakesEffect, Honours

LEMMA TestEndChosenInv ==
  ASSUME ChosenInv, NEW method \in Methods, TestEnd(method)
  PROVE  FileChosen' /\ ChosenTakesEffect'
<1>1. /\ file' = [held EXCEPT !.method = method] /\ held \in Config
      /\ due' = TRUE /\ chosen' = Off /\ asked' = Asked(held, method)
  BY DEF TestEnd, ChosenInv, ServeInv, EndpointTypeOK
<1>2. file'.lis = held.lis /\ file'.method = method
  BY <1>1, ConfigFields
<1>3. asked' # Off => file'.lis = <<>> /\ file'.method = asked'
  BY <1>1, <1>2 DEF Asked
<1> QED BY <1>1, <1>3 DEF FileChosen, ChosenTakesEffect

LEMMA StepChosenInv == ChosenInv /\ [EndpointNext]_endpointVars => ChosenInv'
<1> SUFFICES ASSUME ChosenInv, [EndpointNext]_endpointVars
             PROVE  FileChosen' /\ ChosenTakesEffect'
  BY StepServeInv DEF ChosenInv
<1>1. CASE Fetch \/ TestBegin \/ TestFails \/ UNCHANGED endpointVars
  <2>1. UNCHANGED <<file, core, due, chosen, asked>>
    BY <1>1 DEF Fetch, TestBegin, TestFails, endpointVars
  <2> QED BY <2>1 DEF ChosenInv, FileChosen, Honours, ChosenTakesEffect
<1>2. CASE NoRestart \/ Stop
  <2>1. UNCHANGED <<file, chosen, asked>> /\ core' = Off
    BY <1>2 DEF NoRestart, Stop
  <2> QED BY <2>1 DEF ChosenInv, FileChosen, Honours, ChosenTakesEffect
<1>3. CASE RestartCore \/ Start
  BY <1>3, StartedChosenInv DEF RestartCore, Start
<1>4. ASSUME NEW form \in Forms, NEW method \in Methods, Save(form, method)
      PROVE  FileChosen' /\ ChosenTakesEffect'
  BY <1>4, SaveChosenInv
<1>5. ASSUME NEW edge \in Offered, Apply(edge) PROVE FileChosen' /\ ChosenTakesEffect'
  BY <1>5, ApplyChosenInv
<1>6. ASSUME NEW method \in Methods, TestEnd(method) PROVE FileChosen' /\ ChosenTakesEffect'
  BY <1>6, TestEndChosenInv
<1>7. ASSUME NEW best, Swap(best) PROVE FileChosen' /\ ChosenTakesEffect'
  <2>1. chosen' = Off /\ asked' = Off
    BY <1>7 DEF Swap
  <2> QED BY <2>1 DEF FileChosen, ChosenTakesEffect
<1> QED BY <1>1, <1>2, <1>3, <1>4, <1>5, <1>6, <1>7 DEF EndpointNext

\* What was chosen last is what every core serves that starts after it.
THEOREM ChoiceTakesEffect == EndpointSpec => []ChosenTakesEffect
<1>1. EndpointInit => ChosenInv
  BY InitServeInv DEF EndpointInit, ChosenInv, FileChosen, ChosenTakesEffect
<1>2. ChosenInv /\ [EndpointNext]_endpointVars => ChosenInv'
  BY StepChosenInv
<1>3. ChosenInv => ChosenTakesEffect
  BY DEF ChosenInv
<1> QED BY <1>1, <1>2, <1>3, PTL DEF EndpointSpec

-----------------------------------------------------------------------------
(* A second pass finds nothing to change.                                  *)

TopGiven(c) == c.ip # Blank /\ c.sni # Blank

\* No enabled endpoint and no listener lacks what the top would give it.
Filled(c) ==
  /\ c.eps # <<>>
  /\ \A i \in 1 .. Len(c.eps) : c.eps[i].on => c.eps[i].sni # Blank
  /\ \A i \in 1 .. Len(c.lis) : c.lis[i].ip # Blank /\ c.lis[i].sni # Blank

\* What the top of a configuration does not lack, its listeners do not lack
\* after they were filled in, nor does the top, which is then the first.
LEMMA ListenersFilled ==
  ASSUME NEW c \in Config,
         TopGiven(c) \/ \A i \in 1 .. Len(c.lis) : c.lis[i].ip # Blank /\ c.lis[i].sni # Blank
  PROVE  LET f == FromListeners(c)
         IN /\ \A i \in 1 .. Len(f.lis) : f.lis[i].ip # Blank /\ f.lis[i].sni # Blank
            /\ TopGiven(c) => TopGiven(f)
<1> DEFINE f == FromListeners(c)
<1>1. /\ f.lis = [i \in 1 .. Len(c.lis) |-> FilledListener(c, c.lis[i])]
      /\ IF c.lis = <<>> THEN f.ip = c.ip /\ f.sni = c.sni
         ELSE f.ip = f.lis[1].ip /\ f.sni = f.lis[1].sni
  BY FromListenersFields
<1>2. c.lis \in Seq(Listener)
  BY ConfigFields
<1> HIDE DEF f
<1>3. Len(f.lis) = Len(c.lis)
  BY <1>1, <1>2
<1>4. ASSUME NEW i \in 1 .. Len(c.lis)
      PROVE  f.lis[i].ip # Blank /\ f.lis[i].sni # Blank
  <2> DEFINE l == c.lis[i]
  <2>1. f.lis[i].ip = Resolved(OrElse(l.ip, c.ip)) /\ f.lis[i].sni = OrElse(l.sni, c.sni)
    BY <1>1 DEF FilledListener
  <2>2. l \in Listener
    BY <1>2
  <2> HIDE DEF l
  <2>3. OrElse(l.ip, c.ip) \in Hosts \cup {Blank}
    BY <2>2, ConfigFields DEF Listener, OrElse
  <2>4. OrElse(l.ip, c.ip) # Blank /\ OrElse(l.sni, c.sni) # Blank
    BY DEF OrElse, TopGiven, l
  <2> QED BY <2>1, <2>3, <2>4, ResolvedHost
<1>5. c.lis # <<>> => 1 \in 1 .. Len(c.lis)
  BY <1>2
<1> QED BY <1>1, <1>3, <1>4, <1>5 DEF TopGiven, f

\* The top is that of the first listener, or of the first endpoint, as Normalize
\* leaves it.
Leads(c) ==
  /\ c.eps # <<>>
  /\ IF c.lis = <<>> THEN c.ip = c.eps[1].ip /\ c.sni = c.eps[1].sni
     ELSE c.ip = c.lis[1].ip /\ c.sni = c.lis[1].sni

\* What a listener or an enabled endpoint lacks, the top lacks too.
NothingToGive(c) ==
  /\ \A i \in 1 .. Len(c.lis) : c.lis[i].ip = Blank => c.ip = Blank
  /\ \A i \in 1 .. Len(c.lis) : c.lis[i].sni = Blank => c.sni = Blank
  /\ \A i \in 1 .. Len(c.eps) : c.eps[i].on /\ c.eps[i].sni = Blank => c.sni = Blank

LEMMA NormalizeLeads ==
  ASSUME NEW c \in Config
  PROVE  Leads(Normalize(c))
<1> DEFINE f == FromListeners(c)
           n == Normalize(c)
<1>1. /\ f.lis = [i \in 1 .. Len(c.lis) |-> FilledListener(c, c.lis[i])]
      /\ IF c.lis = <<>> THEN f.ip = c.ip /\ f.sni = c.sni
         ELSE f.ip = f.lis[1].ip /\ f.sni = f.lis[1].sni
  BY FromListenersFields
<1>2. /\ n.lis = f.lis /\ n.eps # <<>>
      /\ IF c.lis = <<>> THEN n.ip = n.eps[1].ip /\ n.sni = n.eps[1].sni
         ELSE n.ip = f.ip /\ n.sni = f.sni
  BY NormalizeFields
<1>3. c.lis \in Seq(Listener)
  BY ConfigFields
<1> HIDE DEF f, n
<1>4. n.lis = <<>> <=> c.lis = <<>>
  BY <1>1, <1>2, <1>3
<1> QED BY <1>1, <1>2, <1>4 DEF Leads, n

\* A top that is given, or nothing lacking, or a top that was taken from the
\* first: after one pass the top has nothing to give.
LEMMA NormalizeGives ==
  ASSUME NEW c \in Config, TopGiven(c) \/ Filled(c) \/ Leads(c)
  PROVE  NothingToGive(Normalize(c))
<1> DEFINE f == FromListeners(c)
           g == Given(f)
           n == Normalize(c)
<1>1. /\ f \in Config /\ f.eps = c.eps
      /\ f.lis = [i \in 1 .. Len(c.lis) |-> FilledListener(c, c.lis[i])]
      /\ IF c.lis = <<>> THEN f.ip = c.ip /\ f.sni = c.sni
         ELSE f.ip = f.lis[1].ip /\ f.sni = f.lis[1].sni
  BY FromListenersFields
<1>2. /\ n.lis = f.lis
      /\ g \in Seq(Endpoint) /\ g # <<>>
      /\ n.eps = [i \in 1 .. Len(g) |-> FilledEndpoint(f, g[i])]
      /\ IF c.lis = <<>> THEN n.ip = n.eps[1].ip /\ n.sni = n.eps[1].sni
         ELSE n.ip = f.ip /\ n.sni = f.sni
  BY NormalizeFields
<1>3. c.lis \in Seq(Listener) /\ c.eps \in Seq(Endpoint)
  BY ConfigFields
<1>4. \A i \in 1 .. Len(c.lis) :
        /\ c.lis[i] \in Listener
        /\ f.lis[i].ip = Blank <=> c.lis[i].ip = Blank /\ c.ip = Blank
        /\ f.lis[i].sni = OrElse(c.lis[i].sni, c.sni)
  <2> SUFFICES ASSUME NEW i \in 1 .. Len(c.lis)
               PROVE  /\ c.lis[i] \in Listener
                      /\ f.lis[i].ip = Blank <=> c.lis[i].ip = Blank /\ c.ip = Blank
                      /\ f.lis[i].sni = OrElse(c.lis[i].sni, c.sni)
    OBVIOUS
  <2> DEFINE l == c.lis[i]
  <2>1. f.lis[i].ip = Resolved(OrElse(l.ip, c.ip)) /\ f.lis[i].sni = OrElse(l.sni, c.sni)
    BY <1>1 DEF FilledListener
  <2>2. l \in Listener
    BY <1>3
  <2> HIDE DEF l
  <2>3. OrElse(l.ip, c.ip) \in Hosts \cup {Blank}
    BY <2>2, ConfigFields DEF Listener, OrElse
  <2>4. OrElse(l.ip, c.ip) = Blank <=> l.ip = Blank /\ c.ip = Blank
    BY DEF OrElse
  <2> QED BY <2>1, <2>2, <2>3, <2>4, ResolvedHost DEF l
<1>5. \A i \in 1 .. Len(g) : g[i].on =>
        (g[i].sni = Blank /\ f.sni = Blank <=> FilledEndpoint(f, g[i]).sni = Blank)
  <2> SUFFICES ASSUME NEW i \in 1 .. Len(g), g[i].on
               PROVE  g[i].sni = Blank /\ f.sni = Blank <=> FilledEndpoint(f, g[i]).sni = Blank
    OBVIOUS
  <2>1. g[i] \in Endpoint
    BY <1>2
  <2>2. FilledEndpoint(f, g[i]).sni = OrElse(g[i].sni, f.sni)
    BY <1>1, <2>1, FilledEndpointFields
  <2> QED BY <2>2 DEF OrElse
<1>6. \A i \in 1 .. Len(g) : ~g[i].on => FilledEndpoint(f, g[i]) = g[i]
  BY DEF FilledEndpoint
<1>7. ASSUME c.eps # <<>> PROVE g = c.eps
  BY <1>1, <1>7 DEF Given
<1>8. ASSUME c.eps = <<>>
      PROVE  Len(g) = 1 /\ g[1].on /\ g[1].sni = f.sni
  <2>1. g = <<[ip |-> f.ip, sni |-> f.sni, on |-> TRUE]>>
    BY <1>1, <1>8 DEF Given
  <2> HIDE DEF g, f
  <2> QED BY <2>1
<1> HIDE DEF f, g, n
<1>9. /\ Len(f.lis) = Len(c.lis) /\ Len(n.eps) = Len(g) /\ 1 \in 1 .. Len(g)
      /\ c.lis # <<>> => 1 \in 1 .. Len(c.lis)
  BY <1>1, <1>2, <1>3
<1>10. \A i \in 1 .. Len(g) : n.eps[i] = FilledEndpoint(f, g[i]) /\ g[i] \in Endpoint
  BY <1>2
<1>11. \A i \in 1 .. Len(n.lis) : /\ n.lis[i].ip = Blank => n.ip = Blank
                                  /\ n.lis[i].sni = Blank => n.sni = Blank
  <2> SUFFICES ASSUME NEW i \in 1 .. Len(n.lis)
               PROVE  /\ n.lis[i].ip = Blank => n.ip = Blank
                      /\ n.lis[i].sni = Blank => n.sni = Blank
    OBVIOUS
  <2>1. /\ i \in 1 .. Len(c.lis) /\ 1 \in 1 .. Len(c.lis) /\ c.lis # <<>>
        /\ n.lis[i] = f.lis[i]
    BY <1>2, <1>3, <1>9
  <2>2. n.ip = f.lis[1].ip /\ n.sni = f.lis[1].sni
    BY <1>1, <1>2, <2>1
  <2>3. ASSUME n.lis[i].ip = Blank PROVE n.ip = Blank
    <3>1. c.lis[i].ip = Blank /\ c.ip = Blank
      BY <1>4, <2>1, <2>3
    <3>2. c.lis[1].ip = Blank
      BY <2>1, <3>1 DEF TopGiven, Filled, Leads
    <3> QED BY <1>4, <2>1, <2>2, <3>1, <3>2
  <2>4. ASSUME n.lis[i].sni = Blank PROVE n.sni = Blank
    <3>1. c.lis[i].sni = Blank /\ c.sni = Blank
      BY <1>4, <2>1, <2>4 DEF OrElse
    <3>2. c.lis[1].sni = Blank
      BY <2>1, <3>1 DEF TopGiven, Filled, Leads
    <3> QED BY <1>4, <2>1, <2>2, <3>1, <3>2 DEF OrElse
  <2> QED BY <2>3, <2>4
<1>12. ASSUME NEW i \in 1 .. Len(n.eps), n.eps[i].on, n.eps[i].sni = Blank
       PROVE  n.sni = Blank
  <2>1. i \in 1 .. Len(g) /\ n.eps[i] = FilledEndpoint(f, g[i]) /\ g[i].on
    BY <1>1, <1>9, <1>10, <1>12, FilledEndpointFields
  <2>2. g[i].sni = Blank /\ f.sni = Blank
    BY <1>5, <1>12, <2>1
  <2>3. CASE c.lis # <<>>
    BY <1>2, <2>2, <2>3
  <2>4. CASE c.lis = <<>>
    <3>1. c.sni = Blank /\ n.sni = n.eps[1].sni
      BY <1>1, <1>2, <2>2, <2>4
    <3>2. CASE c.eps = <<>>
      <4>1. Len(g) = 1
        BY <1>8, <3>2
      <4>2. i = 1
        BY <2>1, <4>1
      <4> QED BY <1>12, <3>1, <4>2
    <3>3. CASE c.eps # <<>>
      <4>1. ~TopGiven(c) /\ ~Filled(c)
        BY <1>7, <2>1, <2>2, <3>1, <3>3 DEF TopGiven, Filled
      <4>2. g[1].sni = Blank
        BY <1>7, <2>4, <3>1, <3>3, <4>1 DEF Leads
      <4>3. n.eps[1].sni = Blank
        BY <1>5, <1>6, <1>9, <1>10, <2>2, <4>2
      <4> QED BY <3>1, <4>3
    <3> QED BY <3>2, <3>3
  <2> QED BY <2>3, <2>4
<1> QED BY <1>11, <1>12 DEF NothingToGive, n

LEMMA GivenSettles ==
  ASSUME NEW c \in Config, NothingToGive(Normalize(c))
  PROVE  Normalize(Normalize(c)) = Normalize(c)
<1> DEFINE n == Normalize(c)
           f == FromListeners(n)
           m == Normalize(n)
<1>1. /\ n \in Config /\ n.lis \in Seq(Listener) /\ n.eps \in Seq(Endpoint) /\ n.eps # <<>>
      /\ n = [ip |-> n.ip, sni |-> n.sni, lis |-> n.lis, eps |-> n.eps,
              method |-> n.method, probe |-> n.probe, sound |-> n.sound]
  BY NormalizeFields, ConfigFields
<1>2. IF n.lis = <<>> THEN n.ip = n.eps[1].ip /\ n.sni = n.eps[1].sni
      ELSE n.ip = n.lis[1].ip /\ n.sni = n.lis[1].sni
  BY NormalizeLeads DEF Leads
<1>3. \A i \in 1 .. Len(n.lis) : FilledListener(n, n.lis[i]) = n.lis[i]
  <2> SUFFICES ASSUME NEW i \in 1 .. Len(n.lis)
               PROVE  FilledListener(n, n.lis[i]) = n.lis[i]
    OBVIOUS
  <2>1. /\ n.lis[i] \in Listener /\ n.lis[i].method \in Methods
        /\ Resolved(n.lis[i].ip) = n.lis[i].ip
    BY NormalizedListeners
  <2>2. /\ n.lis[i].ip = Blank => n.ip = Blank
        /\ n.lis[i].sni = Blank => n.sni = Blank
    <3>1. NothingToGive(n)
      OBVIOUS
    <3> HIDE DEF n
    <3>2. \A k \in 1 .. Len(n.lis) : n.lis[k].ip = Blank => n.ip = Blank
      BY <3>1, Zenon DEF NothingToGive
    <3>3. \A k \in 1 .. Len(n.lis) : n.lis[k].sni = Blank => n.sni = Blank
      BY <3>1, Zenon DEF NothingToGive
    <3> QED BY <3>2, <3>3, Zenon
  <2>3. n.lis[i] = [ip |-> n.lis[i].ip, sni |-> n.lis[i].sni, method |-> n.lis[i].method]
    BY <2>1 DEF Listener
  <2>4. n.lis[i].method # Blank
    BY <2>1, EndpointAssumption
  <2> HIDE DEF n
  <2> QED BY <2>1, <2>2, <2>3, <2>4 DEF FilledListener, OrElse
<1>4. \A e : e.sni = n.sni =>
        \A i \in 1 .. Len(n.eps) : FilledEndpoint(e, n.eps[i]) = n.eps[i]
  <2> SUFFICES ASSUME NEW e, e.sni = n.sni, NEW i \in 1 .. Len(n.eps)
               PROVE  FilledEndpoint(e, n.eps[i]) = n.eps[i]
    OBVIOUS
  <2>1. n.eps[i].on => /\ Resolved(n.eps[i].ip) = n.eps[i].ip
                       /\ n.eps[i].sni = Blank => e.sni = Blank
    BY NormalizedResolved DEF NothingToGive
  <2>2. n.eps[i] \in Endpoint
    BY <1>1
  <2> HIDE DEF n
  <2> QED BY <2>1, <2>2 DEF FilledEndpoint, Endpoint, OrElse
<1> HIDE DEF n, f, m
<1>5. /\ f.eps = n.eps /\ f.lis = [i \in 1 .. Len(n.lis) |-> FilledListener(n, n.lis[i])]
      /\ f.method = n.method /\ f.probe = n.probe /\ f.sound = n.sound
      /\ IF n.lis = <<>> THEN f.ip = n.ip /\ f.sni = n.sni
         ELSE f.ip = f.lis[1].ip /\ f.sni = f.lis[1].sni
  BY <1>1, FromListenersFields DEF f
<1>6. f.lis = n.lis
  <2>1. n.lis = [i \in 1 .. Len(n.lis) |-> n.lis[i]]
    BY <1>1
  <2>2. f.lis = [i \in 1 .. Len(n.lis) |-> n.lis[i]]
    BY <1>3, <1>5, Zenon
  <2> QED BY <2>1, <2>2, Zenon
<1>7. /\ m \in Config /\ m.lis = f.lis /\ m.method = n.method /\ m.probe = n.probe /\ m.sound = n.sound
      /\ m.eps = [i \in 1 .. Len(Given(f)) |-> FilledEndpoint(f, Given(f)[i])]
      /\ IF n.lis = <<>> THEN m.ip = m.eps[1].ip /\ m.sni = m.eps[1].sni
         ELSE m.ip = f.ip /\ m.sni = f.sni
  BY <1>1, NormalizeFields DEF m, f
<1>8. m.eps = n.eps
  <2>1. Given(f) = n.eps
    BY <1>1, <1>5 DEF Given
  <2>2. n.eps = [i \in 1 .. Len(n.eps) |-> n.eps[i]]
    BY <1>1
  <2>3. m.eps = [i \in 1 .. Len(n.eps) |-> FilledEndpoint(f, n.eps[i])]
    BY <1>7, <2>1, Zenon
  <2>4. \A i \in 1 .. Len(n.eps) : FilledEndpoint(f, n.eps[i]) = n.eps[i]
    <3>1. f.sni = n.sni
      BY <1>2, <1>5, <1>6
    <3> QED BY <1>4, <3>1, Zenon
  <2>5. m.eps = [i \in 1 .. Len(n.eps) |-> n.eps[i]]
    BY <2>3, <2>4, Zenon
  <2> QED BY <2>2, <2>5, Zenon
<1>9. m.ip = n.ip /\ m.sni = n.sni
  BY <1>2, <1>5, <1>6, <1>7, <1>8
<1>10. m = [ip |-> m.ip, sni |-> m.sni, lis |-> m.lis, eps |-> m.eps,
            method |-> m.method, probe |-> m.probe, sound |-> m.sound]
  BY <1>7, ConfigFields
<1>11. m = n
  BY <1>1, <1>6, <1>7, <1>8, <1>9, <1>10
<1> QED BY <1>11 DEF m, n

\* The top of the file is given, or it lacks nothing, or it was normalised once;
\* what a test holds was.
PassedInv ==
  /\ ServeInv
  /\ TopGiven(file) \/ Filled(file) \/ Leads(file)
  /\ held # Off => Leads(held)

\* What a core runs with, and writes, is filled.
LEMMA SettledFilled ==
  ASSUME NEW c, Settled(c)
  PROVE  Filled(c)
  BY DEF Settled, Filled, Serviceable

LEMMA StepPassedInv == PassedInv /\ [EndpointNext]_endpointVars => PassedInv'
<1> SUFFICES ASSUME PassedInv, [EndpointNext]_endpointVars
             PROVE  /\ (TopGiven(file) \/ Filled(file) \/ Leads(file))'
                    /\ (held # Off => Leads(held))'
  BY StepServeInv DEF PassedInv
<1>1. file \in Config /\ ui \in Lists /\ (held # Off => held \in Config)
  BY DEF PassedInv, ServeInv, EndpointTypeOK
<1>2. CASE UNCHANGED <<file, held>>
  BY <1>2 DEF PassedInv, TopGiven, Filled, Leads
<1>3. CASE TestFails
  BY <1>3 DEF TestFails, PassedInv, TopGiven, Filled, Leads
<1>4. CASE TestBegin
  <2>1. file' = file /\ held' = Normalize(file)
    BY <1>4 DEF TestBegin
  <2> QED BY <1>1, <2>1, NormalizeLeads DEF PassedInv, TopGiven, Filled, Leads
<1>5. ASSUME NEW form \in Forms, NEW method \in Methods, Save(form, method)
      PROVE  Leads(file') /\ held' = held
  BY <1>1, <1>5, FormWritten, NormalizeLeads DEF Save
<1>6. ASSUME NEW edge \in Offered, Apply(edge)
      PROVE  TopGiven(file') /\ held' = held
  BY <1>1, <1>6, EdgeWritten DEF Apply, TopGiven
<1>7. ASSUME NEW method \in Methods, TestEnd(method)
      PROVE  Leads(file') /\ held' = Off
  <2>1. /\ file' = [held EXCEPT !.method = method] /\ held' = Off
        /\ held \in Config /\ Leads(held)
    BY <1>1, <1>7 DEF TestEnd, PassedInv
  <2>2. file'.ip = held.ip /\ file'.sni = held.sni /\ file'.eps = held.eps /\ file'.lis = held.lis
    BY <2>1, ConfigFields
  <2> QED BY <2>1, <2>2 DEF Leads
<1>8. ASSUME NEW best \in {Resolve[h] : h \in Hosts}, Swap(best)
      PROVE  (file' = file \/ Filled(file')) /\ held' = held
  <2> DEFINE c == SwappedTo(core.cfg, best)
  <2>1. core # Off /\ (file' = c \/ file' = file) /\ held' = held
    BY <1>8 DEF Swap
  <2>2. best \in Hosts /\ Resolve[best] = best
    BY EndpointAssumption
  <2>3. Settled(c)
    BY <2>1, <2>2, SwappedSettled DEF PassedInv, ServeInv, CoreInv
  <2> HIDE DEF c
  <2> QED BY <2>1, <2>3, SettledFilled
<1>9. CASE \/ Fetch \/ RestartCore \/ NoRestart \/ Start \/ Stop
           \/ UNCHANGED endpointVars
  <2>1. UNCHANGED <<file, held>>
    BY <1>9 DEF Fetch, RestartCore, NoRestart, Start, Stop, Started, endpointVars
  <2> QED BY <1>2, <2>1
<1>10. CASE \E form \in Forms, method \in Methods : Save(form, method)
  BY <1>5, <1>10 DEF PassedInv
<1>11. CASE \E edge \in Offered : Apply(edge)
  BY <1>6, <1>11 DEF PassedInv
<1>12. CASE \E method \in Methods : TestEnd(method)
  BY <1>7, <1>12 DEF PassedInv
<1>13. CASE \E best \in {Resolve[h] : h \in Hosts} : Swap(best)
  BY <1>8, <1>13 DEF PassedInv
<1> QED BY <1>3, <1>4, <1>9, <1>10, <1>11, <1>12, <1>13 DEF EndpointNext

\* Where the first configuration has an address and a name at its top (as
\* DefaultConfig has for what the file leaves out), normalising the file a second
\* time changes nothing, whatever was left blank in a form since.
THEOREM SecondPassSettles ==
  ASSUME \A c \in Initial : TopGiven(c) \/ Filled(c) \/ Leads(c)
  PROVE  EndpointSpec => []NormalizeSettles
<1>1. EndpointInit => PassedInv
  BY InitServeInv DEF EndpointInit, PassedInv
<1>2. PassedInv /\ [EndpointNext]_endpointVars => PassedInv'
  BY StepPassedInv
<1>3. PassedInv => NormalizeSettles
  BY NormalizeGives, GivenSettles
  DEF PassedInv, ServeInv, EndpointTypeOK, NormalizeSettles
<1> QED BY <1>1, <1>2, <1>3, PTL DEF EndpointSpec

-----------------------------------------------------------------------------
(* A restart comes back.                                                   *)

\* What the doctor asks of a normalised configuration, apart from the number of
\* endpoints for wrong_seq.
Accepts(c) ==
  /\ TopGiven(c)
  /\ \E i \in 1 .. Len(c.eps) : Serviceable(c.eps[i])
  /\ \A i \in 1 .. Len(c.lis) : c.lis[i].ip # Blank /\ c.lis[i].sni # Blank

\* The lists lack nothing that the top cannot give them.
Usable(c) ==
  c.eps # <<>> =>
    /\ \E i \in 1 .. Len(c.eps) : c.eps[i].on /\ c.eps[i].ip # Blank
    /\ c.lis = <<>> => c.eps[1].ip # Blank /\ (c.eps[1].on \/ c.eps[1].sni # Blank)

Ready(c) == (TopGiven(c) \/ Filled(c)) /\ Usable(c)

\* The top after normalising: the first listener, or the first endpoint.
LEMMA NormalizedTop ==
  ASSUME NEW c \in Config
  PROVE  LET f == FromListeners(c)
             n == Normalize(c)
         IN /\ c.lis = <<>> => f = c /\ n.ip = n.eps[1].ip /\ n.sni = n.eps[1].sni
            /\ c.lis # <<>> => /\ n.ip = f.ip /\ n.sni = f.sni
                               /\ f.ip = f.lis[1].ip /\ f.sni = f.lis[1].sni
                               /\ 1 \in 1 .. Len(f.lis)
            /\ n.lis = <<>> <=> c.lis = <<>>
<1> DEFINE f == FromListeners(c)
           n == Normalize(c)
<1>1. c.lis = <<>> => f = c
  BY DEF FromListeners
<1>2. c.lis \in Seq(Listener)
  BY ConfigFields
<1>3. /\ f.lis = [i \in 1 .. Len(c.lis) |-> FilledListener(c, c.lis[i])]
      /\ IF c.lis = <<>> THEN f.ip = c.ip /\ f.sni = c.sni
         ELSE f.ip = f.lis[1].ip /\ f.sni = f.lis[1].sni
  BY FromListenersFields
<1>4. /\ n.lis = f.lis
      /\ IF c.lis = <<>> THEN n.ip = n.eps[1].ip /\ n.sni = n.eps[1].sni
         ELSE n.ip = f.ip /\ n.sni = f.sni
  BY NormalizeFields
<1> HIDE DEF f, n
<1>5. (c.lis # <<>> => 1 \in 1 .. Len(f.lis)) /\ (f.lis = <<>> <=> c.lis = <<>>)
  BY <1>2, <1>3
<1> QED BY <1>1, <1>3, <1>4, <1>5 DEF f, n

LEMMA ReadyAccepted ==
  ASSUME NEW c \in Config, Ready(c)
  PROVE  Accepts(Normalize(c))
<1> DEFINE f == FromListeners(c)
           g == Given(f)
           n == Normalize(c)
<1>1. /\ \A i \in 1 .. Len(f.lis) : f.lis[i].ip # Blank /\ f.lis[i].sni # Blank
      /\ TopGiven(c) => TopGiven(f)
  BY ListenersFilled DEF Ready, Filled
<1>2. f \in Config /\ f.eps = c.eps
  BY FromListenersFields
<1>3. /\ n.lis = f.lis
      /\ g \in Seq(Endpoint) /\ g # <<>>
      /\ n.eps = [i \in 1 .. Len(g) |-> FilledEndpoint(f, g[i])]
  BY NormalizeFields
<1>4. /\ c.lis = <<>> => f = c /\ n.ip = n.eps[1].ip /\ n.sni = n.eps[1].sni
      /\ c.lis # <<>> => /\ n.ip = f.ip /\ n.sni = f.sni
                         /\ f.ip = f.lis[1].ip /\ f.sni = f.lis[1].sni
                         /\ 1 \in 1 .. Len(f.lis)
  BY NormalizedTop
<1>5. c.eps = <<>> => g = <<[ip |-> f.ip, sni |-> f.sni, on |-> TRUE]>> /\ TopGiven(f)
  BY <1>1, <1>2 DEF Given, Ready, Filled
<1>6. c.eps # <<>> => g = c.eps
  BY <1>2 DEF Given
<1>7. TopGiven(f) \/ \A i \in 1 .. Len(g) : g[i].on => g[i].sni # Blank
  BY <1>1, <1>5, <1>6 DEF Ready, Filled
<1>8. \E i \in 1 .. Len(g) : g[i].on /\ g[i].ip # Blank
  BY <1>5, <1>6 DEF Ready, Usable, TopGiven
<1>9. c.lis = <<>> => g[1].ip # Blank /\ (g[1].on \/ g[1].sni # Blank)
  BY <1>5, <1>6 DEF Ready, Usable, TopGiven
<1> HIDE DEF f, g, n
<1>10. ASSUME NEW i \in 1 .. Len(g)
       PROVE  /\ n.eps[i].on = g[i].on
              /\ g[i].ip # Blank => n.eps[i].ip # Blank
              /\ g[i].on \/ g[i].sni # Blank => n.eps[i].sni # Blank
  <2>1. n.eps[i] = FilledEndpoint(f, g[i]) /\ g[i] \in Endpoint
    BY <1>3
  <2>2. /\ n.eps[i].on = g[i].on
        /\ n.eps[i].ip = IF g[i].on THEN Resolved(g[i].ip) ELSE g[i].ip
        /\ n.eps[i].sni = IF g[i].on THEN OrElse(g[i].sni, f.sni) ELSE g[i].sni
    BY <1>2, <2>1, FilledEndpointFields
  <2>3. g[i].ip \in Hosts \cup {Blank}
    BY <2>1 DEF Endpoint
  <2>4. g[i].on => OrElse(g[i].sni, f.sni) # Blank
    BY <1>7 DEF OrElse, TopGiven
  <2> QED BY <2>2, <2>3, <2>4, ResolvedHost
<1>11. Len(n.eps) = Len(g) /\ 1 \in 1 .. Len(g)
  BY <1>3
<1>12. \E i \in 1 .. Len(n.eps) : Serviceable(n.eps[i])
  BY <1>8, <1>10, <1>11 DEF Serviceable
<1>13. TopGiven(n)
  BY <1>1, <1>4, <1>9, <1>10, <1>11 DEF TopGiven
<1> QED BY <1>1, <1>3, <1>12, <1>13 DEF Accepts, n

\* One endpoint that is on, or the top in place of a list, is one endpoint that
\* the filter keeps.
LEMMA OneEnabled ==
  ASSUME NEW c \in Config, Accepts(Normalize(c)),
         c.eps = <<>> \/ Cardinality({i \in DOMAIN c.eps : c.eps[i].on}) = 1
  PROVE  Len(EnabledEndpoints(Normalize(c).eps)) = 1
<1> DEFINE f == FromListeners(c)
           g == Given(f)
           n == Normalize(c)
           on == {i \in 1 .. Len(g) : g[i].on}
           kept == Positions(n.eps, Len(n.eps))
<1>1. f \in Config /\ f.eps = c.eps
  BY FromListenersFields
<1>2. /\ g \in Seq(Endpoint) /\ g # <<>>
      /\ n \in Config
      /\ n.eps = [i \in 1 .. Len(g) |-> FilledEndpoint(f, g[i])]
  BY NormalizeFields
<1>3. \E x : on \subseteq {x}
  <2>1. CASE c.eps = <<>>
    <3>1. Len(g) = 1
      BY <1>1, <2>1 DEF Given
    <3> HIDE DEF g
    <3>2. on \subseteq {1}
      BY <3>1
    <3> QED BY <3>2
  <2>2. CASE c.eps # <<>>
    <3>1. g = c.eps
      BY <1>1, <2>2 DEF Given
    <3>2. on = {i \in DOMAIN c.eps : c.eps[i].on}
      BY <1>2, <3>1
    <3>3. IsFiniteSet(on)
      <4>1. 1 \in Int /\ Len(g) \in Int /\ on \subseteq 1 .. Len(g)
        BY <1>2
      <4>2. IsFiniteSet(1 .. Len(g))
        BY <4>1, FS_Interval
      <4> HIDE DEF on
      <4> QED BY <4>1, <4>2, FS_Subset
    <3>4. Cardinality(on) = 1
      BY <2>2, <3>2, Zenon
    <3> HIDE DEF on
    <3>5. PICK x : on = {x}
      BY <3>3, <3>4, FS_Singleton
    <3> QED BY <3>5
  <2> QED BY <2>1, <2>2
<1>4. \E i \in 1 .. Len(n.eps) : Serviceable(n.eps[i])
  BY DEF Accepts
<1>5. /\ IsFiniteSet(kept)
      /\ Len(EnabledEndpoints(n.eps)) = Cardinality(kept)
  <2>1. n.eps \in Seq(Endpoint)
    BY <1>2, ConfigFields
  <2> HIDE DEF n
  <2> QED BY <2>1, FilterFilters DEF Filtered, FilterCounts
<1> HIDE DEF f, g, n
<1>6. Len(n.eps) = Len(g)
  BY <1>2
<1>7. \A i \in 1 .. Len(g) : n.eps[i].on = g[i].on
  <2> SUFFICES ASSUME NEW i \in 1 .. Len(g) PROVE n.eps[i].on = g[i].on
    OBVIOUS
  <2>1. n.eps[i] = FilledEndpoint(f, g[i]) /\ g[i] \in Endpoint
    BY <1>2
  <2> QED BY <1>1, <2>1, FilledEndpointFields
<1>8. kept \subseteq on /\ kept # {}
  BY <1>4, <1>6, <1>7 DEF Positions, Serviceable
<1> HIDE DEF on, kept
<1>9. \E x : kept = {x}
  BY <1>3, <1>8
<1>10. Cardinality(kept) = 1
  BY <1>5, <1>9, FS_Singleton
<1> QED BY <1>5, <1>10 DEF n

\* From an accepted file a core starts, unless it has wrong_seq over a number of
\* endpoints other than one.
LEMMA AcceptedStarts ==
  ASSUME file \in Config, file.sound, Accepts(Normalize(file)), ~Mismatched
  PROVE  /\ Doctor(Normalize(file))
         /\ Loaded(file) # {}
         /\ \A d \in Loaded(file) : Startable(d)
<1> DEFINE n == Normalize(file)
           active == EnabledEndpoints(n.eps)
<1>1. n \in Config /\ n.method = file.method /\ n.sound /\ n.eps \in Seq(Endpoint)
  BY NormalizeFields, ConfigFields
<1>2. n.method = "wrong_seq" => Len(active) = 1
  <2> SUFFICES ASSUME n.method = "wrong_seq" PROVE Len(active) = 1
    OBVIOUS
  <2>1. file.eps = <<>> \/ Cardinality({i \in DOMAIN file.eps : file.eps[i].on}) = 1
    BY <1>1, Zenon DEF Mismatched
  <2> QED BY <2>1, OneEnabled
<1>3. active \in Seq(Endpoint) /\ active # <<>>
  <2>1. active \in Seq(Endpoint) /\ FilterComplete(n.eps, active, Len(n.eps))
    BY <1>1, FilterFilters DEF Filtered
  <2>2. \E i \in 1 .. Len(n.eps) : Serviceable(n.eps[i])
    BY DEF Accepts
  <2> HIDE DEF active, n
  <2>3. \E k \in 1 .. Len(active) : TRUE
    BY <2>1, <2>2 DEF FilterComplete
  <2> QED BY <2>1, <2>3
<1>4. Doctor(n)
  BY <1>1, <1>2, <1>3 DEF Doctor, Accepts, TopGiven
<1>5. active \in Probed(active) /\ (Len(active) = 1 => Probed(active) = {active})
  BY <1>3, ProbedHas
<1>6. Loaded(file) = {[n EXCEPT !.eps = eps] :
                        eps \in IF n.probe THEN Probed(active) ELSE {active}}
  BY <1>3, Zenon DEF Loaded
<1>7. Loaded(file) # {}
  BY <1>5, <1>6
<1>8. ASSUME NEW d \in Loaded(file)
      PROVE  Startable(d)
  <2>1. /\ d.method = n.method /\ (d.eps = active \/ d.eps \in Probed(active))
    BY LoadedFields
  <2> HIDE DEF active, n
  <2> QED BY <1>2, <1>5, <2>1 DEF Startable
<1> QED BY <1>4, <1>7, <1>8

\* Of a list of endpoints one is on, and without listeners the first one, when
\* it is off, has what the top takes from it.
Listed(c) ==
  c.eps # <<>> =>
    /\ \E i \in 1 .. Len(c.eps) : c.eps[i].on
    /\ c.lis = <<>> => c.eps[1].on \/ (c.eps[1].ip # Blank /\ c.eps[1].sni # Blank)

LEMMA NormalizeListed ==
  ASSUME NEW c \in Config, Listed(c)
  PROVE  Listed(Normalize(c))
<1> DEFINE f == FromListeners(c)
           g == Given(f)
           n == Normalize(c)
<1>1. f \in Config /\ f.eps = c.eps
  BY FromListenersFields
<1>2. /\ g \in Seq(Endpoint) /\ g # <<>>
      /\ n.eps = [i \in 1 .. Len(g) |-> FilledEndpoint(f, g[i])]
  BY NormalizeFields
<1>3. n.lis = <<>> <=> c.lis = <<>>
  BY NormalizedTop
<1>4. c.eps # <<>> => g = c.eps
  BY <1>1 DEF Given
<1>5. c.eps = <<>> => g = <<[ip |-> f.ip, sni |-> f.sni, on |-> TRUE]>>
  BY <1>1 DEF Given
<1> HIDE DEF f, g, n
<1>6. \A i \in 1 .. Len(g) : n.eps[i].on = g[i].on /\ (~g[i].on => n.eps[i] = g[i])
  <2> SUFFICES ASSUME NEW i \in 1 .. Len(g)
               PROVE  n.eps[i].on = g[i].on /\ (~g[i].on => n.eps[i] = g[i])
    OBVIOUS
  <2>1. n.eps[i] = FilledEndpoint(f, g[i]) /\ g[i] \in Endpoint
    BY <1>2
  <2>2. n.eps[i].on = g[i].on
    BY <1>1, <2>1, FilledEndpointFields
  <2> QED BY <2>1, <2>2 DEF FilledEndpoint
<1>7. Len(n.eps) = Len(g) /\ 1 \in 1 .. Len(g)
  BY <1>2
<1>8. \E i \in 1 .. Len(g) : g[i].on
  <2>1. CASE c.eps = <<>>
    <3>1. 1 \in 1 .. Len(g) /\ g[1].on
      BY <1>5, <1>7, <2>1
    <3> QED BY <3>1
  <2>2. CASE c.eps # <<>>
    BY <1>4, <2>2 DEF Listed
  <2> QED BY <2>1, <2>2
<1>9. c.lis = <<>> => g[1].on \/ (g[1].ip # Blank /\ g[1].sni # Blank)
  BY <1>4, <1>5 DEF Listed
<1> QED BY <1>3, <1>6, <1>7, <1>8, <1>9 DEF Listed, n

\* What is complete and listed is accepted once it is normalised.
LEMMA CompleteAccepted ==
  ASSUME file \in Config, Listed(file), ~Incomplete
  PROVE  file.sound /\ Accepts(Normalize(file))
<1>1. /\ file.sound /\ TopGiven(file)
      /\ \A i \in 1 .. Len(file.eps) : file.eps[i].on => file.eps[i].ip # Blank
  <2>1. file.eps \in Seq(Endpoint)
    BY ConfigFields
  <2>2. DOMAIN file.eps = 1 .. Len(file.eps)
    BY <2>1
  <2> QED BY <2>2 DEF Incomplete, TopGiven
<1>2. file.eps # <<>> => 1 \in 1 .. Len(file.eps)
  BY ConfigFields
<1>3. Usable(file)
  BY <1>1, <1>2 DEF Listed, Usable
<1> QED BY <1>1, <1>3, ReadyAccepted DEF Ready

ListedInv ==
  /\ ServeInv
  /\ Listed(file)
  /\ Listed(ui)
  /\ held # Off => Listed(held)

LEMMA StepListedInv == ListedInv /\ [EndpointNext]_endpointVars => ListedInv'
<1> SUFFICES ASSUME ListedInv, [EndpointNext]_endpointVars
             PROVE  Listed(file') /\ Listed(ui') /\ (held' # Off => Listed(held'))
  BY StepServeInv DEF ListedInv, Listed
<1>1. /\ file \in Config /\ ui \in Lists /\ (held # Off => held \in Config)
      /\ Listed(file) /\ Listed(ui) /\ (held # Off => Listed(held))
  BY DEF ListedInv, ServeInv, EndpointTypeOK
<1>2. CASE UNCHANGED <<file, ui, held>>
  BY <1>1, <1>2
<1>3. CASE Fetch
  BY <1>1, <1>3, ListsOfConfig DEF Fetch, Listed
<1>4. CASE TestFails
  BY <1>1, <1>4 DEF TestFails
<1>5. CASE TestBegin
  BY <1>1, <1>5, NormalizeListed DEF TestBegin
<1>6. ASSUME NEW form \in Forms, NEW method \in Methods, Save(form, method)
      PROVE  Listed(file') /\ ui' = ui /\ held' = held
  <2> DEFINE posted == [ip |-> form.ip, sni |-> form.sni, sound |-> form.sound, method |-> method,
                        lis |-> ui.lis, eps |-> ui.eps, probe |-> ui.probe]
  <2>1. file' = Normalize(posted) /\ ui' = ui /\ held' = held
    BY <1>6 DEF Save
  <2>2. posted \in Config /\ posted.lis = ui.lis /\ posted.eps = ui.eps
    BY <1>1, FormWritten
  <2> HIDE DEF posted
  <2>3. Listed(posted)
    BY <1>1, <2>2 DEF Listed
  <2> QED BY <2>1, <2>2, <2>3, NormalizeListed
<1>7. ASSUME NEW edge \in Offered, Apply(edge)
      PROVE  Listed(file') /\ ui' = ui /\ held' = held
  <2>1. file'.lis = file.lis /\ file'.eps = file.eps /\ ui' = ui /\ held' = held
    BY <1>1, <1>7, EdgeWritten DEF Apply
  <2> QED BY <1>1, <2>1 DEF Listed
<1>8. ASSUME NEW method \in Methods, TestEnd(method)
      PROVE  Listed(file') /\ ui' = ui /\ held' = Off
  <2>1. /\ file' = [held EXCEPT !.method = method] /\ held \in Config /\ Listed(held)
        /\ ui' = ui /\ held' = Off
    BY <1>1, <1>8 DEF TestEnd
  <2>2. file'.lis = held.lis /\ file'.eps = held.eps
    BY <2>1, ConfigFields
  <2> QED BY <2>1, <2>2 DEF Listed
<1>9. ASSUME NEW best \in {Resolve[h] : h \in Hosts}, Swap(best)
      PROVE  Listed(file') /\ ui' = ui /\ held' = held
  <2> DEFINE c == SwappedTo(core.cfg, best)
  <2>1. core # Off /\ (file' = c \/ file' = file) /\ ui' = ui /\ held' = held
    BY <1>9 DEF Swap
  <2>2. best \in Hosts /\ Resolve[best] = best
    BY EndpointAssumption
  <2>3. Settled(c)
    BY <2>1, <2>2, SwappedSettled DEF ListedInv, ServeInv, CoreInv
  <2> HIDE DEF c
  <2>4. 1 \in 1 .. Len(c.eps) /\ \A i \in 1 .. Len(c.eps) : c.eps[i].on
    BY <2>3, ConfigFields DEF Settled, Serviceable
  <2>5. Listed(c)
    BY <2>4 DEF Listed
  <2> QED BY <1>1, <2>1, <2>5
<1>10. CASE RestartCore \/ NoRestart \/ Start \/ Stop \/ UNCHANGED endpointVars
  <2>1. UNCHANGED <<file, ui, held>>
    BY <1>10 DEF RestartCore, NoRestart, Start, Stop, Started, endpointVars
  <2> QED BY <1>2, <2>1
<1>11. CASE \E form \in Forms, method \in Methods : Save(form, method)
  BY <1>1, <1>6, <1>11
<1>12. CASE \E edge \in Offered : Apply(edge)
  BY <1>1, <1>7, <1>12
<1>13. CASE \E method \in Methods : TestEnd(method)
  BY <1>1, <1>8, <1>13
<1>14. CASE \E best \in {Resolve[h] : h \in Hosts} : Swap(best)
  BY <1>1, <1>9, <1>14
<1> QED BY <1>3, <1>4, <1>5, <1>10, <1>11, <1>12, <1>13, <1>14 DEF EndpointNext

\* Where of the first list of endpoints, if there is one, an endpoint is on (and
\* a first one that is off has an address and a name), a restart brings the core
\* back, but for a file that has wrong_seq over another number of endpoints than
\* one, or a field that was posted blank or out of order.
THEOREM RestartsComeBack ==
  ASSUME \A c \in Initial : Listed(c)
  PROVE  EndpointSpec => RestartComesBack
<1>1. EndpointInit => ListedInv
  BY InitServeInv, ListsOfConfig, EndpointAssumption DEF EndpointInit, ListedInv, Listed
<1>2. ListedInv /\ [EndpointNext]_endpointVars => ListedInv'
  BY StepListedInv
<1>3. ListedInv =>
        [RestartCore /\ core' = Off => Mismatched \/ Incomplete]_endpointVars
  <2> SUFFICES ASSUME ListedInv, RestartCore, core' = Off, ~Mismatched, ~Incomplete
               PROVE  FALSE
    OBVIOUS
  <2>1. file \in Config /\ file.sound /\ Accepts(Normalize(file))
    BY CompleteAccepted DEF ListedInv, ServeInv, EndpointTypeOK
  <2>2. /\ Doctor(Normalize(file)) /\ Loaded(file) # {}
        /\ \A d \in Loaded(file) : Startable(d)
    BY <2>1, AcceptedStarts
  <2>3. PICK c \in Loaded(file) : core' = [cfg |-> c, serves |-> Serves(c)]
    BY <2>2 DEF RestartCore, Started
  <2>4. Settled(c)
    BY <2>1, <2>2, LoadedSettled
  <2>5. c \in Config /\ Serves(c) \in Seq(Upstream)
    BY <2>4, SettledServes DEF Settled
  <2> QED BY <2>3, <2>5, EndpointAssumption
<1> QED BY <1>1, <1>2, <1>3, PTL DEF EndpointSpec, RestartComesBack
=============================================================================
