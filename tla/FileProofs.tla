----------------------------- MODULE FileProofs -----------------------------
(***************************************************************************)
(* Proofs about FileTable, for any number of processes, files and pipes:   *)
(* pipes do what Pipes promises, until a process uses a node that has been *)
(* freed; descriptors and nodes stay in step, as long as processes follow  *)
(* the rule ~Reopen.  Without it NoDangling fails (see files_reopen).      *)
(***************************************************************************)
EXTENDS FileTable, FiniteSetTheorems, SequenceTheorems, TLAPS

(***************************************************************************)
(* What makes NoDangling inductive.  A descriptor is backed by its node;   *)
(* the rule makes it the only one of its process there, so that nothing    *)
(* but its own close can strike out its process.  Process 0 has the log    *)
(* open without a descriptor, and therefore never by one.                  *)
(***************************************************************************)
Backed(t, p, d) ==
  /\ d.node \in t.opened
  /\ d.mode = "READONLY" => t.readers[d.node][p] > 0
  /\ d.mode = "WRITEONLY" => t.writers[d.node][p] > 0

Sound(t, p, own, counter) ==
  /\ \A fd \in Fd : own[fd] # NoFile => Backed(t, p, own[fd]) /\ fd < counter
  /\ \A a, b \in Fd : own[a] # NoFile /\ own[b] # NoFile /\ own[a].node = own[b].node
                        => a = b
  /\ p = 0 => \A fd \in Fd : own[fd] # NoFile => own[fd].node # Log

LogKept(t) == Log \in t.opened /\ t.writers[Log][0] > 0

Kept(t, i) == Registered(t, i) \/ (i \in Fifo /\ t.fifo[i] # << >>)

(***************************************************************************)
(* u is t after some closes by process p: nobody else's lists change, and  *)
(* a node goes only if nobody is listed and no byte is lost.               *)
(***************************************************************************)
AfterCloses(t, u, p) ==
  /\ u \in TableType /\ u.fifo = t.fifo /\ u.opened \subseteq t.opened
  /\ \A i \in t.opened :
       i \notin u.opened => ~Registered(u, i) /\ (i \in Fifo => t.fifo[i] = << >>)
  /\ \A i \in u.opened :
       Kept(u, i) \/ (u.readers[i] = t.readers[i] /\ u.writers[i] = t.writers[i])
  /\ \A i \in Inode, q \in Pid : q # p =>
       u.readers[i][q] = t.readers[i][q] /\ u.writers[i][q] = t.writers[i][q]

(***************************************************************************)
(* What a descriptor that is not stale points to is a node that is there:  *)
(* whoever frees a node makes the descriptors of it stale.                 *)
(***************************************************************************)
Points(p, fd) ==
  fds[p][fd] # NoFile /\ ~Stale(p, fd) => fds[p][fd].node \in table.opened

Pointers == \A p \in live, fd \in Fd : Points(p, fd)

\* What holds of the nodes and the descriptors of processes that follow the rule.
IInv ==
  /\ TypeOK
  /\ pid_counter # 0
  /\ LogKept(table)
  /\ \A p \in live : Sound(table, p, fds[p], fd_counter[p])
  /\ Released

\* The inductive invariant.
Held == IInv /\ Pointers /\ stale = {}

-----------------------------------------------------------------------------
(* Nodes                                                                   *)

\* A table with one more listing of process p at inode i.
LEMMA OpenNodeFacts ==
  ASSUME NEW t \in TableType, NEW p \in Pid, NEW i \in Inode, NEW mode \in Mode
  PROVE  LET u == OpenNode(t, p, i, mode)
         IN  /\ u \in TableType
             /\ u.opened = t.opened \cup {i}
             /\ \A j \in Inode, q \in Pid :
                  /\ u.readers[j][q] = IF j = i /\ q = p /\ mode = "READONLY"
                                       THEN t.readers[j][q] + 1 ELSE t.readers[j][q]
                  /\ u.writers[j][q] = IF j = i /\ q = p /\ mode # "READONLY"
                                       THEN t.writers[j][q] + 1 ELSE t.writers[j][q]
             /\ \A j \in Fifo : u.fifo[j] = IF j = i /\ i \notin t.opened
                                            THEN << >> ELSE t.fifo[j]
<1> DEFINE Queue == {q \in Seq(Byte) : Len(q) <= FIFO_SIZE}
           fresh == i \notin t.opened /\ i \in Fifo
           fifo == IF fresh THEN [t.fifo EXCEPT ![i] = << >>] ELSE t.fifo
           added == [t EXCEPT !.opened = t.opened \cup {i}, !.fifo = fifo]
           Increment(list) == [list EXCEPT ![i][p] = list[i][p] + 1]
           u == OpenNode(t, p, i, mode)
<1>1. \A list \in [Inode -> [Pid -> Nat]] :
        /\ Increment(list) \in [Inode -> [Pid -> Nat]]
        /\ \A j \in Inode, q \in Pid :
             Increment(list)[j][q] = IF j = i /\ q = p THEN list[j][q] + 1
                                                       ELSE list[j][q]
  OBVIOUS
<1>2. /\ fifo \in [Fifo -> Queue]
      /\ \A j \in Fifo : fifo[j] = IF j = i /\ i \notin t.opened
                                   THEN << >> ELSE t.fifo[j]
  BY FileAssumption DEF TableType
<1> HIDE DEF fifo
<1>3. /\ added \in TableType /\ added.opened = t.opened \cup {i}
      /\ added.readers = t.readers /\ added.writers = t.writers
      /\ added.fifo = fifo
  BY <1>2 DEF TableType
<1>4. u = IF mode = "READONLY"
          THEN [added EXCEPT !.readers = Increment(added.readers)]
          ELSE [added EXCEPT !.writers = Increment(added.writers)]
  BY DEF OpenNode, fifo
<1> HIDE DEF added, Increment, u
<1>5. /\ u \in TableType
      /\ u.opened = added.opened /\ u.fifo = added.fifo
      /\ u.readers = IF mode = "READONLY" THEN Increment(t.readers) ELSE t.readers
      /\ u.writers = IF mode # "READONLY" THEN Increment(t.writers) ELSE t.writers
  BY <1>1, <1>3, <1>4 DEF TableType
<1>6. t.readers \in [Inode -> [Pid -> Nat]] /\ t.writers \in [Inode -> [Pid -> Nat]]
  BY DEF TableType
<1>7. \A j \in Inode, q \in Pid :
        u.readers[j][q] = IF j = i /\ q = p /\ mode = "READONLY"
                          THEN t.readers[j][q] + 1 ELSE t.readers[j][q]
  BY <1>1, <1>5, <1>6
<1>8. \A j \in Inode, q \in Pid :
        u.writers[j][q] = IF j = i /\ q = p /\ mode # "READONLY"
                          THEN t.writers[j][q] + 1 ELSE t.writers[j][q]
  BY <1>1, <1>5, <1>6
<1> QED
  BY <1>2, <1>3, <1>5, <1>7, <1>8 DEF u

\* A table after k closes of inode i by process p; other inodes are left alone.
LEMMA CloseNodeFacts ==
  ASSUME NEW t \in TableType, NEW p \in Pid, NEW i \in Inode, NEW k \in Nat
  PROVE  LET u == CloseNode(t, p, i, k)
         IN  /\ AfterCloses(t, u, p)
             /\ \A j \in Inode, q \in Pid : j # i =>
                  /\ u.readers[j][q] = t.readers[j][q]
                  /\ u.writers[j][q] = t.writers[j][q]
<1> DEFINE Struck(list) == [list EXCEPT ![i][p] = Less(list[i][p], k)]
           struck == [t EXCEPT !.readers = Struck(t.readers),
                               !.writers = Struck(t.writers)]
           u == CloseNode(t, p, i, k)
<1>1. \A n \in Nat : Less(n, k) \in Nat /\ (k = 0 => Less(n, k) = n)
  BY DEF Less
<1>2. \A list \in [Inode -> [Pid -> Nat]] :
        /\ Struck(list) \in [Inode -> [Pid -> Nat]]
        /\ \A j \in Inode, q \in Pid :
             j # i \/ q # p => Struck(list)[j][q] = list[j][q]
        /\ \A j \in Inode : j # i \/ k = 0 => Struck(list)[j] = list[j]
  BY <1>1
<1>3. u = IF k > 0 /\ Unused(struck, i) THEN [struck EXCEPT !.opened = @ \ {i}]
                                        ELSE struck
  BY DEF CloseNode
<1> HIDE DEF Struck, u
<1>4. t.readers \in [Inode -> [Pid -> Nat]] /\ t.writers \in [Inode -> [Pid -> Nat]]
      /\ t.opened \subseteq Inode
  BY DEF TableType
<1>5. /\ struck \in TableType /\ struck.opened = t.opened
      /\ struck.readers = Struck(t.readers) /\ struck.writers = Struck(t.writers)
      /\ struck.fifo = t.fifo
  BY <1>2, <1>4 DEF TableType
<1> HIDE DEF struck
<1>6. /\ u \in TableType
      /\ u.readers = struck.readers /\ u.writers = struck.writers
      /\ u.fifo = struck.fifo
      /\ u.opened = IF k > 0 /\ Unused(struck, i) THEN struck.opened \ {i}
                                                  ELSE struck.opened
  BY <1>3, <1>5 DEF TableType
<1>7. \A j \in t.opened :
        j \notin u.opened => ~Registered(u, j) /\ (j \in Fifo => t.fifo[j] = << >>)
  BY <1>5, <1>6 DEF Unused, Registered
<1>8. ASSUME NEW j \in u.opened
      PROVE  Kept(u, j)
             \/ (u.readers[j] = t.readers[j] /\ u.writers[j] = t.writers[j])
  <2>1. CASE j = i /\ k > 0
    <3>1. ~Unused(struck, i)
      BY <1>6, <2>1
    <3> QED
      BY <1>6, <2>1, <3>1 DEF Unused, Kept, Registered
  <2>2. CASE j # i \/ ~(k > 0)
    <3>1. (j # i \/ k = 0) /\ j \in Inode
      BY <1>4, <1>5, <1>6, <2>2
    <3> QED
      BY <1>2, <1>4, <1>5, <1>6, <3>1
  <2> QED
    BY <2>1, <2>2
<1>9. \A j \in Inode, q \in Pid : j # i \/ q # p =>
        u.readers[j][q] = t.readers[j][q] /\ u.writers[j][q] = t.writers[j][q]
  BY <1>2, <1>4, <1>5, <1>6
<1>10. u.fifo = t.fifo /\ u.opened \subseteq t.opened
  BY <1>5, <1>6
<1> QED
  BY <1>6, <1>7, <1>8, <1>9, <1>10 DEF AfterCloses, u

-----------------------------------------------------------------------------
(* Types, and what the pipes hold                                          *)

Content == [f \in Fifo |-> IF f \in table.opened THEN table.fifo[f] ELSE << >>]

\* A step that no reader or writer of a pipe notices.
NothingMoves == UNCHANGED <<Content, received>>

\* The pipes hold what the table's queues hold.
LEMMA SameTableContent ==
  ASSUME UNCHANGED <<table, received>>
  PROVE  NothingMoves
BY DEF NothingMoves, Content

\* The steps of Pipes, in terms of Content.
LEMMA PipeActions ==
  ASSUME NEW f \in Fifo
  PROVE  /\ \A n \in 0 .. FIFO_SIZE :
              /\ n <= Len(Content[f])
              /\ received' = SubSeq(Content[f], 1, n)
              /\ Content' = [Content EXCEPT
                               ![f] = SubSeq(Content[f], n + 1, Len(Content[f]))]
              => PipesOfNodes!Next
         /\ \A bytes \in Message : \A k \in 0 .. Len(bytes) :
              /\ Len(Content[f]) + k <= FIFO_SIZE
              /\ k < Len(bytes) => Len(Content[f]) + k = FIFO_SIZE
              /\ Content' = [Content EXCEPT
                               ![f] = Content[f] \o SubSeq(bytes, 1, k)]
              /\ UNCHANGED received
              => PipesOfNodes!Next
<1>1. ASSUME NEW n \in 0 .. FIFO_SIZE,
             n <= Len(Content[f]),
             received' = SubSeq(Content[f], 1, n),
             Content' = [Content EXCEPT
                           ![f] = SubSeq(Content[f], n + 1, Len(Content[f]))]
      PROVE  PipesOfNodes!Read(f, n)
  BY ONLY <1>1 DEF PipesOfNodes!Read, Content
<1>2. ASSUME NEW bytes \in Message, NEW k \in 0 .. Len(bytes),
             Len(Content[f]) + k <= FIFO_SIZE,
             k < Len(bytes) => Len(Content[f]) + k = FIFO_SIZE,
             Content' = [Content EXCEPT
                           ![f] = Content[f] \o SubSeq(bytes, 1, k)],
             UNCHANGED received
      PROVE  PipesOfNodes!Write(f, bytes, k)
  BY ONLY <1>2 DEF PipesOfNodes!Write, Content
<1> QED
  BY <1>1, <1>2 DEF PipesOfNodes!Next

\* Steps that change neither nodes nor descriptors.
LEMMA QuietTypes ==
  ASSUME TypeOK, exists' \subseteq Inode, halted' \in BOOLEAN,
         UNCHANGED <<table, inode_size, processes, fds, fd_counter, stale, received>>
  PROVE  TypeOK' /\ NothingMoves
BY SameTableContent DEF TypeOK, processes

\* A descriptor's new offset: its node and its mode stay.
LEMMA OffsetTypes ==
  ASSUME TypeOK, NEW p \in Pid, NEW fd \in InUse(p), NEW x \in Nat,
         fds' = [fds EXCEPT ![p][fd].offset = x],
         inode_size' \in [File -> 0 .. MaxSize],
         UNCHANGED <<table, exists, processes, fd_counter, stale, received, halted>>
  PROVE  /\ TypeOK'
         /\ \A q \in Pid, f \in Fd :
              /\ fds'[q][f] # NoFile <=> fds[q][f] # NoFile
              /\ fds'[q][f].node = fds[q][f].node
              /\ fds'[q][f].mode = fds[q][f].mode
<1>1. fd \in Fd /\ fds \in [Pid -> [Fd -> Descriptor \cup {NoFile}]]
      /\ fds[p][fd] \in Descriptor
  BY DEF TypeOK, InUse
<1> DEFINE d == [fds[p][fd] EXCEPT !.offset = x]
<1>2. d \in Descriptor /\ d.node = fds[p][fd].node /\ d.mode = fds[p][fd].mode
  BY <1>1 DEF Descriptor
<1>3. fds' = [fds EXCEPT ![p] = [fds[p] EXCEPT ![fd] = d]]
  OBVIOUS
<1> HIDE DEF d
<1>4. fds' \in [Pid -> [Fd -> Descriptor \cup {NoFile}]]
  BY ONLY <1>1, <1>2, <1>3, p \in Pid
<1>5. ASSUME NEW q \in Pid, NEW f \in Fd
      PROVE  /\ fds'[q][f] # NoFile <=> fds[q][f] # NoFile
             /\ fds'[q][f].node = fds[q][f].node
             /\ fds'[q][f].mode = fds[q][f].mode
  <2>1. fds'[q][f] = IF q = p /\ f = fd THEN d ELSE fds[q][f]
    BY ONLY <1>1, <1>3, <1>5, p \in Pid
  <2>2. NoFile \notin Descriptor
    BY FileAssumption
  <2> QED
    BY ONLY <1>1, <1>2, <2>1, <2>2
<1>6. TypeOK'
  BY <1>4 DEF TypeOK, processes
<1> QED
  BY <1>5, <1>6

\* Seek, and reads and writes of regular files: at most an offset moves.
LEMMA FileTypes ==
  ASSUME TypeOK, NEW p \in Pid, NEW fd \in Fd, NEW n \in Nat,
         \/ ReadFile(p, fd, n)
         \/ ReadFileBeyondEnd(p, fd, n)
         \/ WriteFile(p, fd, n)
         \/ Seek(p, fd, n)
  PROVE  /\ TypeOK'
         /\ UNCHANGED <<table, processes, fd_counter, stale, received>>
         /\ \A q \in Pid, f \in Fd :
              /\ fds'[q][f] # NoFile <=> fds[q][f] # NoFile
              /\ fds'[q][f].node = fds[q][f].node
              /\ fds'[q][f].mode = fds[q][f].mode
<1> DEFINE d == fds[p][fd]
           end == inode_size[d.node]
<1>1. fds[p][fd] # NoFile => d \in Descriptor
  BY DEF TypeOK
<1>2. inode_size \in [File -> 0 .. MaxSize] /\ MaxSize \in Nat
  BY FileAssumption DEF TypeOK
<1>3. fd \in InUse(p)
  BY DEF ReadFile, ReadFileBeyondEnd, WriteFile, Seek, Valid
<1>4. d.node \in File /\ d.offset \in Nat /\ end \in Nat
  BY <1>1, <1>2, <1>3
  DEF ReadFile, ReadFileBeyondEnd, WriteFile, Seek, InUse, Descriptor
<1>5. CASE ReadFile(p, fd, n)
  <2>1. Least(d.offset + n, end) \in Nat
    BY <1>4 DEF Least
  <2> QED
    BY <1>2, <1>3, <1>5, <2>1, OffsetTypes DEF ReadFile, files
<1>6. CASE ReadFileBeyondEnd(p, fd, n)
  <2>1. CASE UNCHANGED halted /\ fds' = [fds EXCEPT ![p][fd].offset = end]
    BY <1>2, <1>3, <1>4, <1>6, <2>1, OffsetTypes DEF ReadFileBeyondEnd, files
  <2>2. CASE halted' = TRUE /\ UNCHANGED fds
    <3>1. exists' \subseteq Inode
      BY <1>6 DEF ReadFileBeyondEnd, files, TypeOK
    <3> QED
      BY <1>6, <2>2, <3>1, QuietTypes DEF ReadFileBeyondEnd, files
  <2> QED
    BY <1>6, <2>1, <2>2 DEF ReadFileBeyondEnd
<1>7. CASE WriteFile(p, fd, n)
  <2>1. d.offset + n \in 0 .. MaxSize
    BY <1>2, <1>4, <1>7 DEF WriteFile
  <2>2. inode_size' \in [File -> 0 .. MaxSize]
    BY <1>2, <1>4, <1>7, <2>1 DEF WriteFile
  <2>3. PICK x \in Nat : x = d.offset + n
    BY <1>2, <2>1
  <2>4. fds' = [fds EXCEPT ![p][fd].offset = x]
        /\ UNCHANGED <<table, exists, processes, fd_counter, stale, received, halted>>
    BY <1>7, <2>3 DEF WriteFile
  <2> HIDE DEF d
  <2> QED
    BY <1>3, <2>2, <2>4, OffsetTypes
<1>8. CASE Seek(p, fd, n)
  BY <1>2, <1>3, <1>8, OffsetTypes DEF Seek, files
<1> QED
  BY <1>5, <1>6, <1>7, <1>8

(***************************************************************************)
(* A pipe's queue changes: types stay, and its content is the new queue,   *)
(* because its node is there.                                              *)
(***************************************************************************)
LEMMA QueueTypes ==
  ASSUME TypeOK, NEW i \in Fifo, i \in table.opened,
         NEW q \in Seq(Byte), Len(q) <= FIFO_SIZE,
         table' = [table EXCEPT !.fifo[i] = q], received' \in Seq(Byte),
         UNCHANGED <<exists, inode_size, processes, fds, fd_counter, stale, halted>>
  PROVE  /\ TypeOK'
         /\ table'.opened = table.opened
         /\ table'.readers = table.readers /\ table'.writers = table.writers
         /\ \A j \in Fifo : j = i \/ table'.fifo[j] = table.fifo[j]
         /\ Content[i] = table.fifo[i] /\ Content' = [Content EXCEPT ![i] = q]
<1> DEFINE fifo == [table.fifo EXCEPT ![i] = q]
<1>1. table \in TableType /\ table' = [table EXCEPT !.fifo = fifo]
      /\ fifo \in [Fifo -> {r \in Seq(Byte) : Len(r) <= FIFO_SIZE}]
      /\ \A j \in Fifo : fifo[j] = IF j = i THEN q ELSE table.fifo[j]
  BY DEF TypeOK, TableType
<1> HIDE DEF fifo
<1>2. /\ table' \in TableType /\ table'.opened = table.opened
      /\ table'.readers = table.readers /\ table'.writers = table.writers
      /\ table'.fifo = fifo
  BY <1>1 DEF TableType
<1>3. Content[i] = table.fifo[i] /\ Content' = [Content EXCEPT ![i] = q]
  BY <1>1, <1>2 DEF Content
<1>4. TypeOK'
  BY <1>2 DEF TypeOK, processes
<1> QED
  BY <1>1, <1>2, <1>3, <1>4

\* What a read of k bytes takes, and what it leaves behind.
LEMMA ReadFacts ==
  ASSUME NEW q \in Seq(Byte), Len(q) <= FIFO_SIZE, NEW n \in Nat,
         NEW k, k = Least(Len(q), n)
  PROVE  /\ k \in 0 .. Len(q) /\ k \in 0 .. FIFO_SIZE
         /\ SubSeq(q, 1, k) \in Seq(Byte)
         /\ SubSeq(q, k + 1, Len(q)) \in Seq(Byte)
         /\ Len(SubSeq(q, k + 1, Len(q))) <= FIFO_SIZE
<1>1. Len(q) \in Nat /\ FIFO_SIZE \in Nat
  BY FileAssumption
<1>2. k \in 0 .. Len(q) /\ k \in 0 .. FIFO_SIZE
  BY <1>1 DEF Least
<1>3. SubSeq(q, 1, k) \in Seq(Byte)
  BY <1>1, <1>2, SubSeqProperties
<1>4. SubSeq(q, k + 1, Len(q)) \in Seq(Byte)
      /\ Len(SubSeq(q, k + 1, Len(q))) <= FIFO_SIZE
  BY <1>1, <1>2, SubSeqProperties
<1> QED
  BY <1>2, <1>3, <1>4

\* A write stores a prefix that fits, and fills the pipe if it is not all.
LEMMA PushFacts ==
  ASSUME NEW q \in Seq(Byte), Len(q) <= FIFO_SIZE, NEW bytes \in Seq(Byte)
  PROVE  \E m \in 0 .. Len(bytes) :
           /\ Push(q, bytes) = q \o SubSeq(bytes, 1, m)
           /\ Len(q) + m <= FIFO_SIZE
           /\ m < Len(bytes) => Len(q) + m = FIFO_SIZE
           /\ Push(q, bytes) \in Seq(Byte)
           /\ Len(Push(q, bytes)) <= FIFO_SIZE
<1>1. Len(q) \in Nat /\ Len(bytes) \in Nat /\ FIFO_SIZE \in Nat
  BY FileAssumption
<1>2. PICK m : m = Least(FIFO_SIZE - Len(q), Len(bytes))
  OBVIOUS
<1>3. m \in 0 .. Len(bytes) /\ Len(q) + m <= FIFO_SIZE
      /\ (m < Len(bytes) => Len(q) + m = FIFO_SIZE)
  BY <1>1, <1>2 DEF Least
<1>4. Push(q, bytes) = q \o SubSeq(bytes, 1, m)
  BY <1>2 DEF Push
<1>5. SubSeq(bytes, 1, m) \in Seq(Byte) /\ Len(SubSeq(bytes, 1, m)) = m
  BY <1>1, <1>3, SubSeqProperties
<1>6. Push(q, bytes) \in Seq(Byte) /\ Len(Push(q, bytes)) = Len(q) + m
  BY <1>1, <1>4, <1>5, ConcatProperties
<1> QED
  BY <1>3, <1>4, <1>6

\* Reads and writes of pipes are those that Pipes promises.
LEMMA PipeTypes ==
  ASSUME TypeOK, Pointers, NEW p \in Pid, NEW fd \in Fd,
         \/ \E n \in Nat : ReadPipe(p, fd, n)
         \/ \E bytes \in Message : WritePipe(p, fd, bytes)
  PROVE  LET i == fds[p][fd].node
         IN  /\ TypeOK' /\ PipesOfNodes!Next
             /\ p \in live /\ fd \in InUse(p)
             /\ table'.opened = table.opened
             /\ table'.readers = table.readers /\ table'.writers = table.writers
             /\ \A j \in Fifo : j = i \/ table'.fifo[j] = table.fifo[j]
             /\ UNCHANGED <<processes, fds, fd_counter, stale>>
<1> DEFINE i == fds[p][fd].node
           queue == table.fifo[i]
           Result ==
             /\ TypeOK' /\ PipesOfNodes!Next
             /\ table'.opened = table.opened
             /\ table'.readers = table.readers /\ table'.writers = table.writers
             /\ \A j \in Fifo : j = i \/ table'.fifo[j] = table.fifo[j]
<1>1. p \in live /\ fd \in InUse(p) /\ i \in Fifo /\ i \in table.opened
      /\ UNCHANGED <<exists, inode_size, processes, fds, fd_counter, stale, halted>>
  BY DEF ReadPipe, WritePipe, Calls, Valid, Pointers, Points, InUse
<1>2. queue \in Seq(Byte) /\ Len(queue) <= FIFO_SIZE
  BY <1>1 DEF TypeOK, TableType
<1>3. ASSUME NEW n \in Nat, ReadPipe(p, fd, n)
      PROVE  Result
  <2> DEFINE k == Least(Len(queue), n)
             rest == SubSeq(queue, k + 1, Len(queue))
  <2>1. table' = [table EXCEPT !.fifo[i] = rest] /\ received' = SubSeq(queue, 1, k)
    BY <1>3 DEF ReadPipe
  <2>2. /\ k \in 0 .. Len(queue) /\ k \in 0 .. FIFO_SIZE
        /\ SubSeq(queue, 1, k) \in Seq(Byte)
        /\ rest \in Seq(Byte) /\ Len(rest) <= FIFO_SIZE
    BY <1>2, ReadFacts
  <2> HIDE DEF k, rest
  <2>3. /\ TypeOK' /\ Content[i] = queue /\ Content' = [Content EXCEPT ![i] = rest]
        /\ table'.opened = table.opened
        /\ table'.readers = table.readers /\ table'.writers = table.writers
        /\ \A j \in Fifo : j = i \/ table'.fifo[j] = table.fifo[j]
    BY <1>1, <2>1, <2>2, QueueTypes
  <2>4. /\ k <= Len(Content[i]) /\ received' = SubSeq(Content[i], 1, k)
        /\ Content' = [Content EXCEPT
                         ![i] = SubSeq(Content[i], k + 1, Len(Content[i]))]
    <3>1. k <= Len(queue)
      BY <1>2, <2>2
    <3>2. rest = SubSeq(queue, k + 1, Len(queue))
      BY DEF rest
    <3>3. Content[i] = queue /\ Content' = [Content EXCEPT ![i] = rest]
      BY <2>3
    <3> HIDE DEF i, queue
    <3> QED BY <2>1, <3>1, <3>2, <3>3, Zenon
  <2>5. PipesOfNodes!Next
    BY ONLY <1>1, <2>2, <2>4, PipeActions
  <2> QED
    BY <2>3, <2>5
<1>4. ASSUME NEW bytes \in Message, WritePipe(p, fd, bytes)
      PROVE  Result
  <2> DEFINE pushed == Push(queue, bytes)
  <2>1. table' = [table EXCEPT !.fifo[i] = pushed] /\ UNCHANGED received
    BY <1>4 DEF WritePipe
  <2>2. bytes \in Seq(Byte)
    BY FileAssumption
  <2>3. PICK m \in 0 .. Len(bytes) :
          /\ pushed = queue \o SubSeq(bytes, 1, m)
          /\ Len(queue) + m <= FIFO_SIZE
          /\ m < Len(bytes) => Len(queue) + m = FIFO_SIZE
          /\ pushed \in Seq(Byte)
          /\ Len(pushed) <= FIFO_SIZE
    BY <1>2, <2>2, PushFacts
  <2> HIDE DEF pushed
  <2>4. received' \in Seq(Byte)
    BY <2>1 DEF TypeOK
  <2>5. /\ TypeOK' /\ Content[i] = queue /\ Content' = [Content EXCEPT ![i] = pushed]
        /\ table'.opened = table.opened
        /\ table'.readers = table.readers /\ table'.writers = table.writers
        /\ \A j \in Fifo : j = i \/ table'.fifo[j] = table.fifo[j]
    BY <1>1, <2>1, <2>3, <2>4, QueueTypes
  <2>6. /\ Len(Content[i]) + m <= FIFO_SIZE
        /\ m < Len(bytes) => Len(Content[i]) + m = FIFO_SIZE
        /\ Content' = [Content EXCEPT ![i] = Content[i] \o SubSeq(bytes, 1, m)]
    BY <2>3, <2>5
  <2>7. PipesOfNodes!Next
    BY ONLY <1>1, <2>1, <2>3, <2>6, PipeActions
  <2> QED
    BY <2>5, <2>7
<1> HIDE DEF Result
<1>5. Result
  BY <1>3, <1>4
<1> QED
  BY <1>1, <1>5 DEF Result

-----------------------------------------------------------------------------
(* Opening and closing                                                     *)

\* What is opened and closed keeps its bytes.
LEMMA ContentStays ==
  ASSUME UNCHANGED received,
         \A f \in Fifo : \/ /\ f \in table.opened <=> f \in table'.opened
                            /\ f \in table.opened => table'.fifo[f] = table.fifo[f]
                         \/ /\ f \notin table.opened /\ table'.fifo[f] = << >>
                         \/ /\ f \notin table'.opened /\ table.fifo[f] = << >>
  PROVE  NothingMoves
BY DEF NothingMoves, Content

\* A node goes only with an empty queue.
LEMMA ClosesTypes ==
  ASSUME NEW p, AfterCloses(table, table', p), UNCHANGED received
  PROVE  NothingMoves
BY ContentStays DEF AfterCloses

\* open: a new node of a pipe has an empty queue, as the pipe had before.
LEMMA OpenTypes ==
  ASSUME TypeOK, NEW p \in Pid, NEW i \in Inode, NEW mode \in Mode, Open(p, i, mode)
  PROVE  TypeOK' /\ NothingMoves
<1> DEFINE c == fd_counter[p]
           new == [node |-> i, mode |-> mode, offset |-> 0]
<1>1. /\ table \in TableType
      /\ fds \in [Pid -> [Fd -> Descriptor \cup {NoFile}]]
      /\ fd_counter \in [Pid -> Nat] /\ c \in Nat /\ c \in Fd
      /\ new \in Descriptor
  BY FileAssumption DEF TypeOK, Open, Fd, Descriptor
<1>2. /\ table' = OpenNode(table, p, i, mode)
      /\ fds' = [fds EXCEPT ![p] = [fds[p] EXCEPT ![c] = new]]
      /\ fd_counter' = [fd_counter EXCEPT ![p] = c + 1]
      /\ UNCHANGED <<exists, processes, stale, received, halted>>
  BY DEF Open
<1> HIDE DEF c, new
<1>3. /\ table' \in TableType /\ table'.opened = table.opened \cup {i}
      /\ \A j \in Fifo : table'.fifo[j] = IF j = i /\ i \notin table.opened
                                          THEN << >> ELSE table.fifo[j]
  BY ONLY <1>1, <1>2, OpenNodeFacts, p \in Pid, i \in Inode, mode \in Mode
<1>4. NothingMoves
  BY <1>2, <1>3, ContentStays
<1>5. inode_size' \in [File -> 0 .. MaxSize]
  BY FileAssumption DEF TypeOK, Open
<1>6. fds' \in [Pid -> [Fd -> Descriptor \cup {NoFile}]]
  BY <1>1, <1>2
<1>7. fd_counter' \in [Pid -> Nat]
  BY <1>1, <1>2
<1> QED
  BY <1>2, <1>3, <1>4, <1>5, <1>6, <1>7 DEF TypeOK, processes

\* What is stale are descriptors of live processes.
LEMMA StaleTypes ==
  ASSUME TypeOK, NEW t, NEW dropped
  PROVE  StaleAfter(t, dropped) \subseteq (live \X Fd) \ dropped
BY DEF TypeOK, StaleAfter, PointTo

\* close strikes out, unless the node has gone already and the kernel halts.
LEMMA CloseTypes ==
  ASSUME TypeOK, NEW p \in Pid, NEW fd \in Fd, Close(p, fd)
  PROVE  LET i == fds[p][fd].node
         IN  /\ TypeOK' /\ AfterCloses(table, table', p)
             /\ \A j \in Inode, q \in Pid : j # i =>
                  /\ table'.readers[j][q] = table.readers[j][q]
                  /\ table'.writers[j][q] = table.writers[j][q]
             /\ \A q \in Pid, f \in Fd :
                  fds'[q][f] = IF q = p /\ f = fd THEN NoFile ELSE fds[q][f]
<1> DEFINE i == fds[p][fd].node
<1>1. /\ table \in TableType /\ fds \in [Pid -> [Fd -> Descriptor \cup {NoFile}]]
      /\ fds[p][fd] \in Descriptor /\ i \in Inode
  BY DEF TypeOK, Close, InUse, Descriptor
<1>2. /\ fds' = [fds EXCEPT ![p] = [fds[p] EXCEPT ![fd] = NoFile]]
      /\ UNCHANGED <<exists, inode_size, processes, fd_counter, received>>
      /\ halted' \in BOOLEAN /\ stale' \subseteq live \X Fd
  <2>1. stale' \subseteq live \X Fd
    BY StaleTypes DEF Close
  <2>2. halted' \in BOOLEAN
    BY DEF Close, Stale
  <2>3. /\ fds' = [fds EXCEPT ![p] = [fds[p] EXCEPT ![fd] = NoFile]]
        /\ UNCHANGED <<exists, inode_size, processes, fd_counter, received>>
    BY DEF Close
  <2> QED BY <2>1, <2>2, <2>3
<1>3. \A q \in Pid, f \in Fd :
        fds'[q][f] = IF q = p /\ f = fd THEN NoFile ELSE fds[q][f]
  BY <1>1, <1>2
<1>4. fds' \in [Pid -> [Fd -> Descriptor \cup {NoFile}]]
  BY <1>1, <1>2
<1>5. AfterCloses(table, table', p)
      /\ \A j \in Inode, q \in Pid : j # i =>
           /\ table'.readers[j][q] = table.readers[j][q]
           /\ table'.writers[j][q] = table.writers[j][q]
  <2>1. CASE table' = table
    BY <1>1, <2>1 DEF AfterCloses
  <2>2. CASE table' = CloseNode(table, p, i, 1)
    BY <1>1, <2>2, CloseNodeFacts
  <2> QED
    BY <2>1, <2>2 DEF Close
<1>6. TypeOK'
  BY <1>2, <1>4, <1>5 DEF TypeOK, processes, AfterCloses
<1> QED
  BY <1>3, <1>5, <1>6

\* How many descriptors of an inode a process has is a number.
LEMMA OpensFacts ==
  ASSUME TypeOK, NEW p \in Pid, NEW i \in Inode
  PROVE  /\ IsFiniteSet(FdsOn(p, i)) /\ Opens(p, i) \in Nat
         /\ FdsOn(p, i) # {} => Opens(p, i) > 0
<1>1. IsFiniteSet(Fd)
  BY FileAssumption, FS_Interval DEF Fd
<1>2. IsFiniteSet(FdsOn(p, i))
  BY <1>1, FS_Subset DEF FdsOn, InUse
<1> QED
  BY <1>2, FS_CardinalityType, FS_EmptySet DEF Opens

\* exit: the closes of one inode do not bear on those of another.
LEMMA ExitTypes ==
  ASSUME TypeOK, NEW p \in Pid, Exit(p)
  PROVE  TypeOK' /\ AfterCloses(table, table', p)
<1> DEFINE after(i) == CloseNode(table, p, i, Opens(p, i))
           kept == {i \in table.opened : i \in after(i).opened}
           readers == [i \in Inode |-> after(i).readers[i]]
           writers == [i \in Inode |-> after(i).writers[i]]
<1>1. table \in TableType /\ table.opened \subseteq Inode
  BY DEF TypeOK, TableType
<1>2. \A i \in Inode : AfterCloses(table, after(i), p)
  BY <1>1, OpensFacts, CloseNodeFacts
<1>3. AfterCloses(table, table', p)
  <2>1. CASE table' = table
    BY <1>1, <2>1 DEF AfterCloses
  <2>2. CASE table' = [table EXCEPT !.opened = kept, !.readers = readers,
                                    !.writers = writers]
    <3> HIDE DEF after
    <3>1. /\ readers \in [Inode -> [Pid -> Nat]]
          /\ writers \in [Inode -> [Pid -> Nat]]
      BY <1>2 DEF AfterCloses, TableType
    <3>2. /\ table' \in TableType
          /\ table'.opened = kept /\ table'.fifo = table.fifo
          /\ table'.readers = readers /\ table'.writers = writers
      BY <1>1, <2>2, <3>1 DEF TableType
    <3>3. ASSUME NEW i \in Inode
          PROVE  /\ table'.readers[i] = after(i).readers[i]
                 /\ table'.writers[i] = after(i).writers[i]
                 /\ Registered(table', i) <=> Registered(after(i), i)
                 /\ Kept(table', i) <=> Kept(after(i), i)
                 /\ i \in table'.opened <=> i \in table.opened /\ i \in after(i).opened
      <4>1. after(i).fifo = table.fifo
        BY <1>2 DEF AfterCloses
      <4>2. /\ table'.readers[i] = after(i).readers[i]
            /\ table'.writers[i] = after(i).writers[i]
        BY <3>2
      <4>3. i \in table'.opened <=> i \in table.opened /\ i \in after(i).opened
        BY <3>2
      <4> QED
        BY <3>2, <4>1, <4>2, <4>3 DEF Registered, Kept
    <3> HIDE DEF kept, readers, writers
    <3>4. \A i \in table.opened : i \notin table'.opened =>
            ~Registered(table', i) /\ (i \in Fifo => table.fifo[i] = << >>)
      BY <1>1, <1>2, <3>3 DEF AfterCloses
    <3>5. \A i \in table'.opened :
            Kept(table', i) \/ ( /\ table'.readers[i] = table.readers[i]
                                 /\ table'.writers[i] = table.writers[i])
      BY <1>1, <1>2, <3>2, <3>3 DEF AfterCloses, TableType
    <3>6. \A i \in Inode, q \in Pid : q # p =>
            /\ table'.readers[i][q] = table.readers[i][q]
            /\ table'.writers[i][q] = table.writers[i][q]
      BY <1>2, <3>3 DEF AfterCloses
    <3>7. table'.opened \subseteq table.opened
      BY <3>2 DEF kept
    <3> QED
      BY <3>2, <3>4, <3>5, <3>6, <3>7 DEF AfterCloses
  <2> QED
    BY <2>1, <2>2 DEF Exit
<1>4. fds' \in [Pid -> [Fd -> Descriptor \cup {NoFile}]]
  BY DEF TypeOK, Exit
<1>5. live' \subseteq Pid /\ halted' \in BOOLEAN
  BY DEF TypeOK, Exit
<1>6. stale' \subseteq live' \X Fd
  <2>1. PICK t, dropped : t = table' /\ dropped = {p} \X Fd
    OBVIOUS
  <2>2. live' = live \ {p} /\ stale' = StaleAfter(t, dropped)
    BY <2>1 DEF Exit
  <2>3. StaleAfter(t, dropped) \subseteq (live \X Fd) \ dropped
    BY StaleTypes
  <2> QED BY <2>1, <2>2, <2>3
<1> QED
  BY <1>3, <1>4, <1>5, <1>6 DEF TypeOK, Exit, AfterCloses

\* exec: the kernel's open and close of a file, which is not a pipe.
LEMMA ExecTypes ==
  ASSUME TypeOK, NEW p \in Pid, NEW i \in File, Exec(p, i)
  PROVE  /\ TypeOK' /\ NothingMoves
         /\ i \in Inode /\ i \notin Fifo /\ i # Log
         /\ table'.fifo = table.fifo
         /\ table'.opened \subseteq table.opened \cup {i}
         /\ \A j \in table.opened : Registered(table', j) => j \in table'.opened
         /\ i \in table'.opened => Kept(table', i)
         /\ \A j \in Inode, q \in Pid : j # i \/ q # 0 =>
              /\ table'.readers[j][q] = table.readers[j][q]
              /\ table'.writers[j][q] = table.writers[j][q]
<1>1. /\ table \in TableType
      /\ table' = CloseNode(OpenNode(table, 0, i, "READONLY"), 0, i, 1)
      /\ UNCHANGED <<exists, inode_size, processes, received, halted>>
  BY DEF TypeOK, Exec
<1>2. /\ i \in Inode /\ i \notin Fifo /\ i # Log /\ "READONLY" \in Mode
  BY FileAssumption DEF Mode
<1>3. PICK init \in Pid : init = 0
  BY FileAssumption
<1> DEFINE u == OpenNode(table, init, i, "READONLY")
<1>4. table' = CloseNode(u, init, i, 1)
  BY <1>1, <1>3
<1> HIDE DEF u
<1>5. /\ u \in TableType /\ u.opened = table.opened \cup {i}
      /\ u.readers[i][init] = table.readers[i][init] + 1
      /\ \A j \in Inode, q \in Pid : j # i \/ q # init =>
           /\ u.readers[j][q] = table.readers[j][q]
           /\ u.writers[j][q] = table.writers[j][q]
      /\ \A j \in Fifo : u.fifo[j] = table.fifo[j]
  BY ONLY <1>1, <1>2, OpenNodeFacts, init \in Pid DEF u
<1>6. /\ AfterCloses(u, table', init)
      /\ \A j \in Inode, q \in Pid : j # i =>
           /\ table'.readers[j][q] = u.readers[j][q]
           /\ table'.writers[j][q] = u.writers[j][q]
  BY ONLY <1>2, <1>4, <1>5, CloseNodeFacts, init \in Pid
<1>7. table'.fifo = u.fifo /\ table'.opened \subseteq table.opened \cup {i}
  BY <1>5, <1>6 DEF AfterCloses
<1>8. table'.fifo = table.fifo
  <2>1. u.fifo \in [Fifo -> {q \in Seq(Byte) : Len(q) <= FIFO_SIZE}]
        /\ table.fifo \in [Fifo -> {q \in Seq(Byte) : Len(q) <= FIFO_SIZE}]
    BY <1>1, <1>5 DEF TableType
  <2> QED
    BY <1>5, <1>7, <2>1
<1>9. \A j \in table.opened :
        j \notin table'.opened => ~Registered(table', j)
                                  /\ (j \in Fifo => table.fifo[j] = << >>)
  BY <1>5, <1>6 DEF AfterCloses
<1>10. i \in table'.opened => Kept(table', i)
  <2>1. Registered(u, i)
    <3>1. table.readers[i][init] \in Nat
      BY <1>1, <1>2 DEF TableType
    <3> QED
      BY <1>5, <3>1 DEF Registered
  <2>2. table'.readers[i] = u.readers[i] /\ table'.writers[i] = u.writers[i]
          => Registered(table', i)
    BY <2>1 DEF Registered
  <2> QED
    BY <1>6, <2>2 DEF AfterCloses, Kept
<1>11. \A j \in Inode, q \in Pid : j # i \/ q # 0 =>
         /\ table'.readers[j][q] = table.readers[j][q]
         /\ table'.writers[j][q] = table.writers[j][q]
  BY <1>3, <1>5, <1>6 DEF AfterCloses
<1>12. NothingMoves
  <2>1. ASSUME NEW f \in Fifo
        PROVE  \/ /\ f \in table.opened <=> f \in table'.opened
                  /\ f \in table.opened => table'.fifo[f] = table.fifo[f]
               \/ /\ f \notin table'.opened /\ table.fifo[f] = << >>
    <3>1. f \in table'.opened => f \in table.opened
      BY <1>2, <1>7
    <3> QED
      BY <1>8, <1>9, <3>1
  <2> QED
    BY <1>1, <2>1, ContentStays
<1>13. TypeOK'
  <2>1. fds' \in [Pid -> [Fd -> Descriptor \cup {NoFile}]]
        /\ fd_counter' \in [Pid -> Nat]
    BY DEF TypeOK, Exec
  <2>2. table' \in TableType
    BY <1>6 DEF AfterCloses
  <2>3. stale' \subseteq live \X Fd
    BY StaleTypes DEF Exec
  <2> QED
    BY <1>1, <2>1, <2>2, <2>3 DEF TypeOK, processes
<1> QED
  BY <1>2, <1>7, <1>8, <1>9, <1>10, <1>11, <1>12, <1>13

(***************************************************************************)
(* fork adds entries of the child to lists: for an inode that the parent   *)
(* has open, as many as the parent has, once for every descriptor.         *)
(***************************************************************************)
LEMMA ForkTypes ==
  ASSUME TypeOK, NEW p \in Pid, Fork(p)
  PROVE  /\ TypeOK' /\ NothingMoves
         /\ table'.opened = table.opened /\ table'.fifo = table.fifo
         /\ \A i \in Inode, q \in Pid :
              /\ table.readers[i][q] > 0 => table'.readers[i][q] > 0
              /\ table.writers[i][q] > 0 => table'.writers[i][q] > 0
         /\ \A i \in Inode : FdsOn(p, i) # {} =>
              /\ table.readers[i][p] > 0 => table'.readers[i][pid_counter] > 0
              /\ table.writers[i][p] > 0 => table'.writers[i][pid_counter] > 0
<1> DEFINE c == pid_counter
           n == [i \in Inode |-> Opens(p, i)]
           Listed(list) ==
             [i \in Inode |-> [list[i] EXCEPT ![c] = list[i][c] + n[i] * list[i][p]]]
<1>1. /\ table \in TableType
      /\ table.readers \in [Inode -> [Pid -> Nat]]
      /\ table.writers \in [Inode -> [Pid -> Nat]]
      /\ fds \in [Pid -> [Fd -> Descriptor \cup {NoFile}]]
      /\ fd_counter \in [Pid -> Nat]
      /\ live \subseteq Pid /\ c \in Pid /\ c \in Nat
  BY DEF TypeOK, TableType, Fork
<1>2. /\ n \in [Inode -> Nat]
      /\ \A i \in Inode : FdsOn(p, i) # {} => n[i] > 0
  BY OpensFacts
<1>3. /\ table' = [table EXCEPT !.readers = Listed(table.readers),
                                !.writers = Listed(table.writers)]
      /\ fds' = [fds EXCEPT ![c] = fds[p]]
      /\ fd_counter' = [fd_counter EXCEPT ![c] = fd_counter[p]]
      /\ live' = live \cup {c}
      /\ exists' = exists \cup Stdio[c]
      /\ pid_counter' = c + 1
      /\ UNCHANGED <<inode_size, stale, received, halted>>
  BY DEF Fork, Inherit
<1> HIDE DEF n, c
<1>4. ASSUME NEW list \in [Inode -> [Pid -> Nat]]
      PROVE  /\ Listed(list) \in [Inode -> [Pid -> Nat]]
             /\ \A i \in Inode, q \in Pid :
                  /\ Listed(list)[i][q] >= list[i][q]
                  /\ n[i] > 0 /\ list[i][p] > 0 => Listed(list)[i][c] > 0
  <2>1. \A i \in Inode : n[i] * list[i][p] \in Nat
    BY <1>2
  <2>2. Listed(list) \in [Inode -> [Pid -> Nat]]
    BY <1>1, <2>1
  <2>3. \A i \in Inode, q \in Pid :
          Listed(list)[i][q] = IF q = c THEN list[i][c] + n[i] * list[i][p]
                                        ELSE list[i][q]
    BY <1>1
  <2>4. \A i \in Inode : n[i] > 0 /\ list[i][p] > 0 => n[i] * list[i][p] > 0
    BY <1>2
  <2> HIDE DEF Listed
  <2> QED
    BY <1>1, <2>1, <2>2, <2>3, <2>4
<1> HIDE DEF Listed
<1>5. /\ table' \in TableType /\ table'.opened = table.opened
      /\ table'.fifo = table.fifo
      /\ table'.readers = Listed(table.readers)
      /\ table'.writers = Listed(table.writers)
  BY <1>1, <1>3, <1>4 DEF TableType
<1>6. \A i \in Inode, q \in Pid :
        /\ table.readers[i][q] > 0 => table'.readers[i][q] > 0
        /\ table.writers[i][q] > 0 => table'.writers[i][q] > 0
  <2>1. /\ table'.readers \in [Inode -> [Pid -> Nat]]
        /\ table'.writers \in [Inode -> [Pid -> Nat]]
        /\ \A i \in Inode, q \in Pid :
             /\ table'.readers[i][q] >= table.readers[i][q]
             /\ table'.writers[i][q] >= table.writers[i][q]
    BY <1>1, <1>4, <1>5
  <2>2. \A a, b \in Nat : b >= a /\ a > 0 => b > 0
    OBVIOUS
  <2>3. \A i \in Inode, q \in Pid :
          /\ table.readers[i][q] \in Nat /\ table'.readers[i][q] \in Nat
          /\ table.writers[i][q] \in Nat /\ table'.writers[i][q] \in Nat
    BY <1>1, <2>1
  <2> QED
    BY ONLY <2>1, <2>2, <2>3
<1>7. \A i \in Inode : FdsOn(p, i) # {} =>
        /\ table.readers[i][p] > 0 => table'.readers[i][c] > 0
        /\ table.writers[i][p] > 0 => table'.writers[i][c] > 0
  BY <1>1, <1>2, <1>4, <1>5
<1>8. TypeOK'
  <2>1. fds' \in [Pid -> [Fd -> Descriptor \cup {NoFile}]]
        /\ fd_counter' \in [Pid -> Nat] /\ pid_counter' \in Nat
    BY <1>1, <1>3
  <2>2. exists' \subseteq Inode
    BY <1>1, <1>3, FileAssumption DEF TypeOK
  <2>3. stale' \subseteq live' \X Fd
    BY <1>3 DEF TypeOK
  <2> QED
    BY <1>1, <1>3, <1>5, <2>1, <2>2, <2>3 DEF TypeOK
<1>9. NothingMoves
  BY <1>3, <1>5, ContentStays
<1> QED
  BY <1>5, <1>6, <1>7, <1>8, <1>9 DEF c

(***************************************************************************)
(* Whatever processes do, types are kept and pipes do what Pipes promises. *)
(***************************************************************************)
LEMMA NextTypes ==
  ASSUME TypeOK, Pointers, [Next]_vars
  PROVE  TypeOK' /\ [PipesOfNodes!Next]_<<Content, received>>
<1> DEFINE Goal == TypeOK' /\ (PipesOfNodes!Next \/ NothingMoves)
<1>1. ASSUME UNCHANGED vars PROVE Goal
  <2>1. /\ UNCHANGED <<table, inode_size, processes, fds, fd_counter, stale, received>>
        /\ UNCHANGED exists /\ UNCHANGED halted
    BY <1>1 DEF vars, files
  <2>2. exists' \subseteq Inode
    BY <2>1 DEF TypeOK
  <2>3. halted' \in BOOLEAN
    BY <2>1 DEF TypeOK
  <2> QED
    BY <2>1, <2>2, <2>3, QuietTypes
<1>2. ASSUME NEW p \in Pid, NEW i \in Inode, Create(p, i) PROVE Goal
  <2>1. exists' \subseteq Inode /\ halted' \in BOOLEAN
    BY <1>2 DEF Create, TypeOK
  <2> QED
    BY <1>2, <2>1, QuietTypes DEF Create
<1>3. ASSUME NEW p \in Pid, NEW i \in Inode, NEW mode \in Mode, Open(p, i, mode)
      PROVE  Goal
  BY <1>3, OpenTypes
<1>4. ASSUME NEW p \in Pid, NEW fd \in Fd, Close(p, fd) PROVE Goal
  BY <1>4, CloseTypes, ClosesTypes DEF Close
<1>5. ASSUME NEW p \in Pid, NEW fd \in Fd, UseFreed(p, fd) PROVE Goal
  <2>1. exists' \subseteq Inode /\ halted' \in BOOLEAN
    BY <1>5 DEF UseFreed, files, TypeOK
  <2> QED
    BY <1>5, <2>1, QuietTypes DEF UseFreed, files
<1>6. ASSUME NEW p \in Pid, NEW fd \in Fd,
             \/ \E n \in Amount : ReadPipe(p, fd, n)
             \/ \E bytes \in Message : WritePipe(p, fd, bytes)
      PROVE  Goal
  BY <1>6, PipeTypes, FileAssumption
<1>7. ASSUME NEW p \in Pid, NEW fd \in Fd, NEW n \in Nat,
             \/ ReadFile(p, fd, n)
             \/ ReadFileBeyondEnd(p, fd, n)
             \/ WriteFile(p, fd, n)
             \/ Seek(p, fd, n)
      PROVE  Goal
  BY <1>7, FileTypes, SameTableContent
<1>8. ASSUME NEW p \in Pid, Fork(p) PROVE Goal
  BY <1>8, ForkTypes
<1>9. ASSUME NEW p \in Pid, NEW i \in File, Exec(p, i) PROVE Goal
  BY <1>9, ExecTypes
<1>10. ASSUME NEW p \in Pid, Exit(p) PROVE Goal
  BY <1>10, ExitTypes, ClosesTypes DEF Exit
<1>11. ASSUME Halt PROVE Goal
  BY <1>1, <1>11 DEF Halt
<1>12. Amount \subseteq Nat /\ 0 .. MaxSize \subseteq Nat
  BY FileAssumption
<1> HIDE DEF Goal
<1>13. Goal
  BY <1>1, <1>2, <1>3, <1>4, <1>5, <1>6, <1>7, <1>8, <1>9, <1>10, <1>11, <1>12
  DEF Next
<1> QED
  BY <1>13 DEF Goal, NothingMoves

-----------------------------------------------------------------------------
(* What descriptors point to                                               *)

\* A step that frees no node and opens none through a descriptor.
LEMMA PointersStay ==
  ASSUME TypeOK, Pointers, table.opened \subseteq table'.opened, UNCHANGED <<live, stale>>,
         \A q \in live, f \in Fd : /\ fds'[q][f] # NoFile <=> fds[q][f] # NoFile
                                 /\ fds'[q][f].node = fds[q][f].node
  PROVE  Pointers'
BY DEF Pointers, Points, Stale

\* A step that frees nodes: the descriptors of them become stale.
LEMMA PointersFreed ==
  ASSUME TypeOK, Pointers, NEW dropped, live' \subseteq live,
         stale' = StaleAfter(table', dropped),
         \A q \in live', f \in Fd : fds'[q][f] # NoFile =>
           fds'[q][f] = fds[q][f] /\ <<q, f>> \notin dropped
  PROVE  Pointers'
<1> SUFFICES ASSUME NEW q \in live', NEW f \in Fd, fds'[q][f] # NoFile, <<q, f>> \notin stale'
             PROVE  fds'[q][f].node \in table'.opened
  BY DEF Pointers, Points, Stale
<1> DEFINE d == <<q, f>>
<1>1. fds'[q][f] = fds[q][f] /\ d \notin dropped /\ d \in live \X Fd
  OBVIOUS
<1>2. d \notin stale /\ d \notin PointTo(table.opened \ table'.opened)
  BY <1>1 DEF StaleAfter
<1>3. fds[q][f].node \in table.opened
  BY <1>1, <1>2 DEF Pointers, Points, Stale
<1>4. fds[q][f].node \notin table.opened \ table'.opened
  BY <1>1, <1>2 DEF PointTo
<1> QED BY <1>1, <1>3, <1>4

\* Every step keeps what descriptors point to.
LEMMA NextPointers ==
  ASSUME TypeOK, Pointers, [Next]_vars
  PROVE  Pointers'
<1>t. TypeOK'
  BY NextTypes
<1>1. ASSUME UNCHANGED <<table, processes, fds, stale>> PROVE Pointers'
  BY <1>1, PointersStay DEF processes
<1>2. ASSUME NEW p \in Pid, NEW i \in Inode, Create(p, i) PROVE Pointers'
  BY <1>1, <1>2 DEF Create
<1>3. ASSUME NEW p \in Pid, NEW i \in Inode, NEW mode \in Mode, Open(p, i, mode)
      PROVE  Pointers'
  <2> DEFINE c == fd_counter[p]
             new == [node |-> i, mode |-> mode, offset |-> 0]
  <2>1. /\ table \in TableType /\ fds \in [Pid -> [Fd -> Descriptor \cup {NoFile}]]
        /\ live \subseteq Pid
        /\ fds' = [fds EXCEPT ![p] = [fds[p] EXCEPT ![c] = new]]
        /\ table' = OpenNode(table, p, i, mode) /\ UNCHANGED <<live, stale>>
    BY <1>3 DEF TypeOK, Open, processes
  <2>2. table'.opened = table.opened \cup {i}
    BY <1>3, <2>1, OpenNodeFacts
  <2>3. new.node = i
    OBVIOUS
  <2> HIDE DEF c, new
  <2>4. ASSUME NEW q \in live, NEW f \in Fd, fds'[q][f] # NoFile, <<q, f>> \notin stale
        PROVE  fds'[q][f].node \in table'.opened
    <3>1. CASE fds'[q][f] = fds[q][f]
      BY <2>2, <2>4, <3>1 DEF Pointers, Points, Stale
    <3>2. CASE fds'[q][f] = new
      BY <2>2, <2>3, <3>2
    <3>3. fds'[q][f] = fds[q][f] \/ fds'[q][f] = new
      BY <2>1
    <3> QED BY <3>1, <3>2, <3>3
  <2> QED BY <2>1, <2>4 DEF Pointers, Points, Stale
<1>4. ASSUME NEW p \in Pid, NEW fd \in Fd, Close(p, fd) PROVE Pointers'
  <2>1. PICK dropped : dropped = {<<p, fd>>}
    OBVIOUS
  <2>2. \A q \in Pid, f \in Fd :
          fds'[q][f] = IF q = p /\ f = fd THEN NoFile ELSE fds[q][f]
    BY <1>4, CloseTypes
  <2>3. live' = live /\ live \subseteq Pid /\ stale' = StaleAfter(table', dropped)
    BY <1>4, <2>1 DEF Close, processes, TypeOK
  <2>4. \A q \in live', f \in Fd : fds'[q][f] # NoFile =>
          fds'[q][f] = fds[q][f] /\ <<q, f>> \notin dropped
    BY <2>1, <2>2, <2>3
  <2> QED BY <2>3, <2>4, PointersFreed
<1>5. ASSUME NEW p \in Pid, NEW fd \in Fd, UseFreed(p, fd) PROVE Pointers'
  BY <1>1, <1>5 DEF UseFreed, files
<1>6. ASSUME NEW p \in Pid, NEW fd \in Fd,
             \/ \E n \in Amount : ReadPipe(p, fd, n)
             \/ \E bytes \in Message : WritePipe(p, fd, bytes)
      PROVE  Pointers'
  <2>1. table'.opened = table.opened /\ UNCHANGED <<processes, fds, stale>>
    BY <1>6, PipeTypes, FileAssumption
  <2> QED BY <2>1, PointersStay DEF processes
<1>7. ASSUME NEW p \in Pid, NEW fd \in Fd, NEW n \in Nat,
             \/ ReadFile(p, fd, n)
             \/ ReadFileBeyondEnd(p, fd, n)
             \/ WriteFile(p, fd, n)
             \/ Seek(p, fd, n)
      PROVE  Pointers'
  <2>1. /\ UNCHANGED <<table, processes, stale>> /\ live \subseteq Pid
        /\ \A q \in Pid, f \in Fd : /\ fds'[q][f] # NoFile <=> fds[q][f] # NoFile
                                   /\ fds'[q][f].node = fds[q][f].node
    BY <1>7, FileTypes DEF TypeOK
  <2> QED BY <2>1, PointersStay DEF processes
<1>8. ASSUME NEW p \in Pid, Fork(p) PROVE Pointers'
  <2> DEFINE c == pid_counter
  <2>1. /\ fds \in [Pid -> [Fd -> Descriptor \cup {NoFile}]] /\ live \subseteq Pid
        /\ p \in live /\ c \in Pid /\ live' = live \cup {c} /\ stale' = stale
        /\ fds' = [fds EXCEPT ![c] = fds[p]]
        /\ \A fd \in Fd : fds[p][fd] # NoFile => ~Stale(p, fd)
    BY <1>8 DEF TypeOK, Fork, Calls, InUse
  <2>2. table'.opened = table.opened
    BY <1>8, ForkTypes
  <2> HIDE DEF c
  <2>3. ASSUME NEW q \in live', NEW f \in Fd, fds'[q][f] # NoFile, <<q, f>> \notin stale'
        PROVE  fds'[q][f].node \in table'.opened
    <3>1. CASE q = c
      <4>1. fds'[q][f] = fds[p][f]
        BY <2>1, <3>1
      <4> QED BY <2>1, <2>2, <2>3, <4>1 DEF Pointers, Points
    <3>2. CASE q # c
      <4>1. fds'[q][f] = fds[q][f] /\ q \in live
        BY <2>1, <3>2
      <4> QED BY <2>1, <2>2, <2>3, <4>1 DEF Pointers, Points, Stale
    <3> QED BY <3>1, <3>2
  <2> QED BY <2>3 DEF Pointers, Points, Stale
<1>9. ASSUME NEW p \in Pid, NEW i \in File, Exec(p, i) PROVE Pointers'
  <2>1. PICK dropped : dropped = {p} \X Fd
    OBVIOUS
  <2>2. /\ fds \in [Pid -> [Fd -> Descriptor \cup {NoFile}]] /\ live \subseteq Pid
        /\ live' = live /\ stale' = StaleAfter(table', dropped)
        /\ fds' = [fds EXCEPT ![p] = [fd \in Fd |-> NoFile]]
    BY <1>9, <2>1 DEF TypeOK, Exec, processes
  <2>3. \A q \in live', f \in Fd : fds'[q][f] # NoFile => fds'[q][f] = fds[q][f] /\ q # p
    BY <2>2
  <2>4. \A q \in live', f \in Fd : fds'[q][f] # NoFile =>
          fds'[q][f] = fds[q][f] /\ <<q, f>> \notin dropped
    BY <2>1, <2>3
  <2> QED BY <2>2, <2>4, PointersFreed
<1>10. ASSUME NEW p \in Pid, Exit(p) PROVE Pointers'
  <2>1. PICK dropped : dropped = {p} \X Fd
    OBVIOUS
  <2>2. /\ fds \in [Pid -> [Fd -> Descriptor \cup {NoFile}]] /\ live \subseteq Pid
        /\ live' = live \ {p} /\ stale' = StaleAfter(table', dropped)
        /\ fds' = [fds EXCEPT ![p] = [fd \in Fd |-> NoFile]]
    BY <1>10, <2>1 DEF TypeOK, Exit
  <2>3. \A q \in live', f \in Fd : fds'[q][f] = fds[q][f] /\ q # p
    BY <2>2
  <2>4. \A q \in live', f \in Fd : fds'[q][f] # NoFile =>
          fds'[q][f] = fds[q][f] /\ <<q, f>> \notin dropped
    BY <2>1, <2>3
  <2>5. live' \subseteq live
    BY <2>2
  <2> QED BY <2>2, <2>4, <2>5, PointersFreed
<1>11. ASSUME UNCHANGED vars PROVE Pointers'
  BY <1>1, <1>11 DEF vars, files
<1>12. Amount \subseteq Nat /\ 0 .. MaxSize \subseteq Nat
  BY FileAssumption
<1> QED
  BY <1>2, <1>3, <1>4, <1>5, <1>6, <1>7, <1>8, <1>9, <1>10, <1>11, <1>12
  DEF Next, Halt

-----------------------------------------------------------------------------
(* The invariant of descriptors                                            *)

\* The process of a backed descriptor is listed at its node.
LEMMA BackedRegistered ==
  ASSUME NEW t, NEW p \in Pid, NEW d \in Descriptor, Backed(t, p, d)
  PROVE  Registered(t, d.node)
BY DEF Backed, Registered, Descriptor, Mode

\* A table that lists a process where it did before leaves it sound.
LEMMA SoundStays ==
  ASSUME NEW t, NEW u, NEW p \in Pid, NEW own \in [Fd -> Descriptor \cup {NoFile}],
         NEW counter, Sound(t, p, own, counter),
         \A fd \in Fd : own[fd] # NoFile =>
           LET i == own[fd].node
           IN  /\ i \in u.opened
               /\ t.readers[i][p] > 0 => u.readers[i][p] > 0
               /\ t.writers[i][p] > 0 => u.writers[i][p] > 0
  PROVE  Sound(u, p, own, counter)
BY DEF Sound, Backed

(***************************************************************************)
(* A step that leaves the lists alone keeps the invariant if it keeps      *)
(* Released: the invariant knows a descriptor by its node and its mode.    *)
(***************************************************************************)
LEMMA SameListings ==
  ASSUME IInv, TypeOK', Released',
         table'.opened = table.opened,
         table'.readers = table.readers, table'.writers = table.writers,
         UNCHANGED <<processes, fd_counter>>,
         \A q \in Pid, f \in Fd :
           /\ fds'[q][f] # NoFile <=> fds[q][f] # NoFile
           /\ fds'[q][f].node = fds[q][f].node /\ fds'[q][f].mode = fds[q][f].mode
  PROVE  IInv'
<1>1. LogKept(table)' /\ (pid_counter # 0)'
  BY DEF IInv, LogKept, processes
<1>2. ASSUME NEW p \in live
      PROVE  Sound(table', p, fds'[p], fd_counter'[p])
  <2>1. p \in Pid /\ Sound(table, p, fds[p], fd_counter[p])
    BY DEF IInv, TypeOK
  <2> QED
    BY <2>1 DEF Sound, Backed
<1> QED
  BY <1>1, <1>2 DEF IInv, processes

\* A step that changes no node either.
LEMMA SameTable ==
  ASSUME IInv, TypeOK', UNCHANGED <<table, processes, fd_counter>>,
         \A q \in Pid, f \in Fd :
           /\ fds'[q][f] # NoFile <=> fds[q][f] # NoFile
           /\ fds'[q][f].node = fds[q][f].node /\ fds'[q][f].mode = fds[q][f].mode
  PROVE  IInv'
<1>1. Released'
  BY DEF IInv, Released, Registered
<1> QED
  BY <1>1, SameListings

\* Whoever reads or writes a pipe is listed at its node.
LEMMA PipeStep ==
  ASSUME IInv, Pointers, NEW p \in Pid, NEW fd \in Fd,
         \/ \E n \in Nat : ReadPipe(p, fd, n)
         \/ \E bytes \in Message : WritePipe(p, fd, bytes)
  PROVE  IInv'
<1> DEFINE i == fds[p][fd].node
<1>1. /\ TypeOK /\ TypeOK'
      /\ p \in live /\ fd \in InUse(p)
      /\ table'.opened = table.opened
      /\ table'.readers = table.readers /\ table'.writers = table.writers
      /\ \A j \in Fifo : j = i \/ table'.fifo[j] = table.fifo[j]
      /\ UNCHANGED <<processes, fds, fd_counter>>
  BY PipeTypes DEF IInv
<1>2. Registered(table, i)
  <2>1. fds[p][fd] \in Descriptor /\ Backed(table, p, fds[p][fd])
    BY <1>1 DEF IInv, TypeOK, InUse, Sound
  <2> QED
    BY <2>1, BackedRegistered
<1>3. \A j \in Inode : Registered(table, j) => Registered(table', j)
  BY <1>1 DEF Registered
<1>4. Released'
  BY <1>1, <1>2, <1>3 DEF IInv, Released, TypeOK, TableType
<1> QED
  BY <1>1, <1>4, SameListings

\* The new descriptor is the process's only one of its inode.
LEMMA OpenStep ==
  ASSUME ~Reopen, IInv, NEW p \in Pid, NEW i \in Inode, NEW mode \in Mode,
         Open(p, i, mode)
  PROVE  IInv'
<1> DEFINE c == fd_counter[p]
           new == [node |-> i, mode |-> mode, offset |-> 0]
<1>1. /\ table \in TableType /\ live \subseteq Pid /\ p \in live
      /\ fds \in [Pid -> [Fd -> Descriptor \cup {NoFile}]]
      /\ fd_counter \in [Pid -> Nat] /\ c \in Fd
      /\ new \in Descriptor /\ new # NoFile
  BY FileAssumption, SMTT(30) DEF IInv, TypeOK, Open, Calls, Fd, Descriptor
<1>2. /\ table' = OpenNode(table, p, i, mode)
      /\ fds' = [fds EXCEPT ![p] = [fds[p] EXCEPT ![c] = new]]
      /\ fd_counter' = [fd_counter EXCEPT ![p] = c + 1]
      /\ UNCHANGED <<live, pid_counter>>
      /\ FdsOn(p, i) = {} /\ ~(p = 0 /\ i = Log)
  BY DEF Open, MayOpen, processes
<1> HIDE DEF c, new
<1>3. /\ table' \in TableType /\ table'.opened = table.opened \cup {i}
      /\ \A j \in Inode, q \in Pid :
           /\ table'.readers[j][q] = IF j = i /\ q = p /\ mode = "READONLY"
                                     THEN table.readers[j][q] + 1
                                     ELSE table.readers[j][q]
           /\ table'.writers[j][q] = IF j = i /\ q = p /\ mode # "READONLY"
                                     THEN table.writers[j][q] + 1
                                     ELSE table.writers[j][q]
      /\ \A j \in Fifo : j = i \/ table'.fifo[j] = table.fifo[j]
  BY ONLY <1>1, <1>2, OpenNodeFacts, p \in Pid, i \in Inode, mode \in Mode
<1>4. table.readers \in [Inode -> [Pid -> Nat]]
      /\ table.writers \in [Inode -> [Pid -> Nat]] /\ table.opened \subseteq Inode
  BY <1>1 DEF TableType
<1>5. \A j \in Inode, q \in Pid :
        /\ table.readers[j][q] > 0 => table'.readers[j][q] > 0
        /\ table.writers[j][q] > 0 => table'.writers[j][q] > 0
  BY ONLY <1>3, <1>4
<1>6. /\ mode = "READONLY" => table'.readers[i][p] > 0
      /\ mode = "WRITEONLY" => table'.writers[i][p] > 0
      /\ mode = "READONLY" \/ mode = "WRITEONLY"
  BY <1>3, <1>4 DEF Mode
<1>7. TypeOK'
  BY OpenTypes DEF IInv
<1>8. LogKept(table')
  BY <1>3, <1>5, FileAssumption DEF IInv, LogKept
<1>9. Released'
  <2> SUFFICES ASSUME NEW j \in table'.opened
               PROVE  Registered(table', j)
                      \/ (j \in Fifo /\ table'.fifo[j] # << >>)
    BY DEF Released
  <2>1. CASE j = i
    BY <1>6, <2>1 DEF Registered
  <2>2. CASE j # i
    BY <1>3, <1>4, <1>5, <2>2 DEF IInv, Released, Registered
  <2> QED
    BY <2>1, <2>2
<1>10. ASSUME NEW q \in live'
       PROVE  Sound(table', q, fds'[q], fd_counter'[q])
  <2>1. q \in live /\ q \in Pid /\ Sound(table, q, fds[q], fd_counter[q])
    BY <1>1, <1>2 DEF IInv
  <2>2. ASSUME NEW fd \in Fd, fds[q][fd] # NoFile
        PROVE  fds[q][fd] \in Descriptor /\ fds[q][fd].node \in table'.opened
               /\ fds[q][fd].node \in Inode
    BY <1>1, <1>3, <2>1, <2>2 DEF Sound, Backed, Descriptor
  <2>3. Sound(table', q, fds[q], fd_counter[q])
    <3>1. fds[q] \in [Fd -> Descriptor \cup {NoFile}]
      BY <1>1, <2>1
    <3> QED
      BY ONLY <1>5, <2>1, <2>2, <3>1, SoundStays
  <2>4. CASE q # p
    BY <1>1, <1>2, <2>1, <2>3, <2>4
  <2>5. CASE q = p
    <3>1. fd_counter'[p] = c + 1 /\ c \in Nat
          /\ \A fd \in Fd : fds'[p][fd] = IF fd = c THEN new ELSE fds[p][fd]
      <4>1. c \in Nat
        BY <1>1 DEF c
      <4>2. fd_counter'[p] = c + 1
        BY ONLY <1>1, <1>2, p \in Pid
      <4>3. \A fd \in Fd : fds'[p][fd] = IF fd = c THEN new ELSE fds[p][fd]
        BY ONLY <1>1, <1>2, p \in Pid
      <4> QED
        BY <4>1, <4>2, <4>3
    <3>2. Backed(table', p, new)
      BY <1>3, <1>6 DEF Backed, new
    <3>3. \A fd \in Fd : fds[p][fd] # NoFile => fds[p][fd].node # i
      BY <1>2 DEF FdsOn, InUse
    <3>4. new.node = i
      BY DEF new
    <3>5. \A fd \in Fd : fds[p][fd] # NoFile => fd < c /\ Backed(table', p, fds[p][fd])
      BY <2>3, <2>5 DEF Sound, c
    <3>6. \A fd \in Fd : fds'[p][fd] # NoFile
                           => Backed(table', p, fds'[p][fd]) /\ fd < fd_counter'[p]
      BY <3>1, <3>2, <3>5 DEF Fd
    <3>7. \A a, b \in Fd : (fds'[p][a] # NoFile /\ fds'[p][b] # NoFile
                            /\ fds'[p][a].node = fds'[p][b].node) => a = b
      BY <2>3, <2>5, <3>1, <3>3, <3>4 DEF Sound
    <3>8. p = 0 => \A fd \in Fd : fds'[p][fd] # NoFile => fds'[p][fd].node # Log
      BY <1>2, <2>3, <2>5, <3>1, <3>4 DEF Sound
    <3> QED
      BY <2>5, <3>6, <3>7, <3>8 DEF Sound
  <2> QED
    BY <2>4, <2>5
<1> QED
  BY <1>2, <1>7, <1>8, <1>9, <1>10 DEF IInv

(***************************************************************************)
(* A step after which processes have no descriptors they did not have, and *)
(* are still listed where they have one.                                   *)
(***************************************************************************)
LEMMA FewerDescriptors ==
  ASSUME IInv, TypeOK', Released', live' \subseteq live, UNCHANGED pid_counter,
         \A i \in table.opened : Registered(table', i) => i \in table'.opened,
         table'.writers[Log][0] > 0,
         \A q \in live', fd \in Fd : fds'[q][fd] # NoFile =>
           LET i == fds[q][fd].node
           IN  /\ fds'[q][fd] = fds[q][fd] /\ fd_counter'[q] = fd_counter[q]
               /\ table.readers[i][q] > 0 => table'.readers[i][q] > 0
               /\ table.writers[i][q] > 0 => table'.writers[i][q] > 0
  PROVE  IInv'
<1>1. LogKept(table')
  <2>1. Log \in table.opened /\ 0 \in Pid
    BY FileAssumption DEF IInv, LogKept
  <2>2. Registered(table', Log)
    BY <2>1 DEF Registered
  <2> QED
    BY <2>1, <2>2 DEF LogKept
<1>2. ASSUME NEW q \in live'
      PROVE  Sound(table', q, fds'[q], fd_counter'[q])
  <2>1. q \in Pid /\ Sound(table, q, fds[q], fd_counter[q])
        /\ fds[q] \in [Fd -> Descriptor \cup {NoFile}]
    BY DEF IInv, TypeOK
  <2>2. ASSUME NEW fd \in Fd, fds'[q][fd] # NoFile
        PROVE  /\ fds'[q][fd] = fds[q][fd]
               /\ Backed(table', q, fds'[q][fd]) /\ fd < fd_counter'[q]
    <3>1. /\ fds'[q][fd] = fds[q][fd] /\ fds[q][fd] \in Descriptor
          /\ fd_counter'[q] = fd_counter[q]
      BY <2>1, <2>2
    <3>2. Backed(table, q, fds[q][fd]) /\ fd < fd_counter[q]
      BY <2>1, <2>2, <3>1 DEF Sound
    <3> DEFINE i == fds[q][fd].node
    <3>3. /\ fds[q][fd].mode = "READONLY" => table'.readers[i][q] > 0
          /\ fds[q][fd].mode = "WRITEONLY" => table'.writers[i][q] > 0
      BY <2>2, <3>2 DEF Backed
    <3>4. Registered(table', i)
      BY <2>1, <3>1, <3>3 DEF Registered, Descriptor, Mode
    <3>5. i \in table'.opened
      BY <3>2, <3>4 DEF Backed
    <3> QED
      BY <3>1, <3>2, <3>3, <3>5 DEF Backed
  <2> QED
    BY <2>1, <2>2 DEF Sound
<1> QED
  BY <1>1, <1>2 DEF IInv

(***************************************************************************)
(* Closes by process p that leave it listed where it keeps a descriptor.   *)
(***************************************************************************)
LEMMA ClosesStep ==
  ASSUME IInv, TypeOK', NEW p \in Pid, AfterCloses(table, table', p),
         table'.writers[Log][0] > 0,
         live' \subseteq live, UNCHANGED <<pid_counter, fd_counter>>,
         \A q \in live', f \in Fd : fds'[q][f] # NoFile =>
           LET i == fds[q][f].node
           IN  /\ fds'[q][f] = fds[q][f]
               /\ q # p \/ ( /\ table'.readers[i][q] = table.readers[i][q]
                             /\ table'.writers[i][q] = table.writers[i][q] )
  PROVE  IInv'
<1>1. TypeOK /\ table.opened \subseteq Inode
  BY DEF IInv, TypeOK, TableType
<1>2. \A i \in table.opened : Registered(table', i) => i \in table'.opened
  BY DEF AfterCloses
<1>3. Released'
  <2> SUFFICES ASSUME NEW i \in table'.opened
               PROVE  Registered(table', i) \/ (i \in Fifo /\ table'.fifo[i] # << >>)
    BY DEF Released
  <2>1. i \in table.opened /\ table'.fifo = table.fifo
    BY DEF AfterCloses
  <2>2. CASE Kept(table', i)
    BY <2>2 DEF Kept
  <2>3. CASE /\ table'.readers[i] = table.readers[i]
             /\ table'.writers[i] = table.writers[i]
    BY <2>1, <2>3 DEF IInv, Released, Registered
  <2> QED
    BY <2>2, <2>3 DEF AfterCloses
<1>4. ASSUME NEW q \in live', NEW f \in Fd, fds'[q][f] # NoFile
      PROVE  LET i == fds[q][f].node
             IN  /\ fds'[q][f] = fds[q][f] /\ fd_counter'[q] = fd_counter[q]
                 /\ table.readers[i][q] > 0 => table'.readers[i][q] > 0
                 /\ table.writers[i][q] > 0 => table'.writers[i][q] > 0
  <2>1. q \in Pid /\ fds'[q][f] = fds[q][f] /\ fds[q][f].node \in Inode
    BY <1>1, <1>4 DEF TypeOK, Descriptor
  <2> QED
    BY <1>4, <2>1 DEF AfterCloses
<1> QED
  BY <1>2, <1>3, <1>4, FewerDescriptors

\* The rest of the process's descriptors are of other inodes.
LEMMA CloseStep ==
  ASSUME IInv, NEW p \in Pid, NEW fd \in Fd, Close(p, fd)
  PROVE  IInv'
<1> DEFINE i == fds[p][fd].node
<1>1. /\ TypeOK' /\ AfterCloses(table, table', p)
      /\ \A j \in Inode, q \in Pid : j # i =>
           /\ table'.readers[j][q] = table.readers[j][q]
           /\ table'.writers[j][q] = table.writers[j][q]
      /\ \A q \in Pid, f \in Fd :
           fds'[q][f] = IF q = p /\ f = fd THEN NoFile ELSE fds[q][f]
      /\ UNCHANGED <<live, pid_counter, fd_counter>>
  BY CloseTypes DEF IInv, Close, processes
<1>2. /\ fds \in [Pid -> [Fd -> Descriptor \cup {NoFile}]] /\ live \subseteq Pid
      /\ Sound(table, p, fds[p], fd_counter[p]) /\ fds[p][fd] # NoFile
  BY DEF IInv, TypeOK, Close, Calls, InUse
<1>3. table'.writers[Log][0] > 0
  <2>1. p = 0 => i # Log
    BY <1>2 DEF Sound
  <2> QED
    BY <1>1, <2>1, FileAssumption DEF IInv, LogKept, AfterCloses
<1>4. ASSUME NEW q \in live', NEW f \in Fd, fds'[q][f] # NoFile
      PROVE  LET j == fds[q][f].node
             IN  /\ fds'[q][f] = fds[q][f]
                 /\ q # p \/ ( /\ table'.readers[j][q] = table.readers[j][q]
                               /\ table'.writers[j][q] = table.writers[j][q] )
  <2>1. q \in Pid /\ fds'[q][f] = fds[q][f] /\ ~(q = p /\ f = fd)
    BY <1>1, <1>2, <1>4
  <2>2. fds[q][f].node \in Inode
    BY <1>2, <1>4, <2>1 DEF Descriptor
  <2>3. fds[q][f].node # i \/ q # p
    BY <1>2, <1>4, <2>1 DEF Sound
  <2> QED
    BY <1>1, <2>1, <2>2, <2>3
<1> QED
  BY <1>1, <1>3, <1>4, ClosesStep

\* The process that leaves is not process 0, and keeps no descriptor.
LEMMA ExitStep ==
  ASSUME IInv, NEW p \in Pid, Exit(p)
  PROVE  IInv'
<1>1. TypeOK' /\ AfterCloses(table, table', p)
  BY ExitTypes DEF IInv
<1>2. /\ p # 0 /\ live' = live \ {p} /\ live \subseteq Pid
      /\ UNCHANGED <<pid_counter, fd_counter>>
      /\ \A q \in live' : fds'[q] = fds[q]
  BY DEF IInv, TypeOK, Exit
<1>3. table'.writers[Log][0] > 0
  BY <1>1, <1>2, FileAssumption DEF IInv, LogKept, AfterCloses
<1> QED
  BY <1>1, <1>2, <1>3, ClosesStep

(***************************************************************************)
(* Nobody else is touched by the kernel's open and close: by the rule,     *)
(* process 0 has no descriptor of the program's file.                      *)
(***************************************************************************)
LEMMA ExecStep ==
  ASSUME ~Reopen, IInv, NEW p \in Pid, NEW i \in File, Exec(p, i)
  PROVE  IInv'
<1>1. /\ TypeOK' /\ i \in Inode /\ i \notin Fifo /\ i # Log
      /\ table'.fifo = table.fifo
      /\ table'.opened \subseteq table.opened \cup {i}
      /\ \A j \in table.opened : Registered(table', j) => j \in table'.opened
      /\ i \in table'.opened => Kept(table', i)
      /\ \A j \in Inode, q \in Pid : j # i \/ q # 0 =>
           /\ table'.readers[j][q] = table.readers[j][q]
           /\ table'.writers[j][q] = table.writers[j][q]
  BY ExecTypes DEF IInv
<1>2. /\ table.opened \subseteq Inode /\ live \subseteq Pid
      /\ fds \in [Pid -> [Fd -> Descriptor \cup {NoFile}]]
      /\ fd_counter \in [Pid -> Nat] /\ FdsOn(0, i) = {}
      /\ fds' = [fds EXCEPT ![p] = [fd \in Fd |-> NoFile]]
      /\ fd_counter' = [fd_counter EXCEPT ![p] = 0]
      /\ UNCHANGED <<live, pid_counter>>
  BY DEF IInv, TypeOK, TableType, Exec, processes
<1>3. Released'
  <2> SUFFICES ASSUME NEW j \in table'.opened
               PROVE  Registered(table', j) \/ (j \in Fifo /\ table'.fifo[j] # << >>)
    BY DEF Released
  <2>1. CASE j = i
    BY <1>1, <2>1 DEF Kept
  <2>2. CASE j # i
    <3>1. j \in table.opened /\ j \in Inode
      BY <1>1, <1>2, <2>2
    <3>2. Registered(table, j) => Registered(table', j)
      BY <1>1, <2>2, <3>1 DEF Registered
    <3> QED
      BY <1>1, <3>1, <3>2 DEF IInv, Released
  <2> QED
    BY <2>1, <2>2
<1>4. table'.writers[Log][0] > 0
  BY <1>1, FileAssumption DEF IInv, LogKept
<1>5. ASSUME NEW q \in live', NEW f \in Fd, fds'[q][f] # NoFile
      PROVE  LET j == fds[q][f].node
             IN  /\ fds'[q][f] = fds[q][f] /\ fd_counter'[q] = fd_counter[q]
                 /\ table.readers[j][q] > 0 => table'.readers[j][q] > 0
                 /\ table.writers[j][q] > 0 => table'.writers[j][q] > 0
  <2>1. q \in Pid /\ q # p
    BY <1>2, <1>5
  <2>2. fds'[q][f] = fds[q][f] /\ fd_counter'[q] = fd_counter[q]
    BY <1>2, <2>1
  <2>3. fds[q][f].node \in Inode
    BY <1>2, <1>5, <2>1, <2>2 DEF Descriptor
  <2>4. fds[q][f].node # i \/ q # 0
    BY <1>2, <1>5, <2>2 DEF FdsOn, InUse
  <2> QED
    BY <1>1, <2>1, <2>2, <2>3, <2>4
<1> QED
  BY <1>1, <1>2, <1>3, <1>4, <1>5, FewerDescriptors

\* The child has its parent's descriptors, and is listed where they are.
LEMMA ForkStep ==
  ASSUME IInv, NEW p \in Pid, Fork(p)
  PROVE  IInv'
<1> DEFINE c == pid_counter
<1>1. /\ TypeOK' /\ table'.opened = table.opened /\ table'.fifo = table.fifo
      /\ \A i \in Inode, q \in Pid :
           /\ table.readers[i][q] > 0 => table'.readers[i][q] > 0
           /\ table.writers[i][q] > 0 => table'.writers[i][q] > 0
      /\ \A i \in Inode : FdsOn(p, i) # {} =>
           /\ table.readers[i][p] > 0 => table'.readers[i][c] > 0
           /\ table.writers[i][p] > 0 => table'.writers[i][c] > 0
  BY ForkTypes DEF IInv
<1>2. /\ table.opened \subseteq Inode
      /\ fds \in [Pid -> [Fd -> Descriptor \cup {NoFile}]]
      /\ fd_counter \in [Pid -> Nat]
      /\ live \subseteq Pid /\ p \in live /\ c \in Pid /\ c \in Nat /\ c # 0
      /\ fds' = [fds EXCEPT ![c] = fds[p]]
      /\ fd_counter' = [fd_counter EXCEPT ![c] = fd_counter[p]]
      /\ live' = live \cup {c} /\ pid_counter' = c + 1
  BY DEF IInv, TypeOK, TableType, Fork, Calls
<1> HIDE DEF c
<1>3. Released'
  BY <1>1, <1>2 DEF IInv, Released, Registered
<1>4. LogKept(table')
  BY <1>1, FileAssumption DEF IInv, LogKept
<1>5. ASSUME NEW q \in live'
      PROVE  Sound(table', q, fds'[q], fd_counter'[q])
  <2>1. CASE q = c
    <3>1. fds'[q] = fds[p] /\ fd_counter'[q] = fd_counter[p]
          /\ fds[p] \in [Fd -> Descriptor \cup {NoFile}]
      BY <1>2, <2>1
    <3>2. Sound(table, p, fds[p], fd_counter[p])
      BY <1>2 DEF IInv
    <3>3. ASSUME NEW fd \in Fd, fds[p][fd] # NoFile
          PROVE  Backed(table', c, fds[p][fd])
      <4>1. fds[p][fd] \in Descriptor /\ Backed(table, p, fds[p][fd])
        BY <3>1, <3>2, <3>3 DEF Sound
      <4>2. fd \in FdsOn(p, fds[p][fd].node)
        BY <3>3 DEF FdsOn, InUse
      <4> QED
        BY <1>1, <4>1, <4>2 DEF Backed, Descriptor
    <3> QED
      BY <1>2, <2>1, <3>1, <3>2, <3>3 DEF Sound
  <2>2. CASE q # c
    <3>1. q \in live /\ q \in Pid /\ Sound(table, q, fds[q], fd_counter[q])
      BY <1>2, <2>2 DEF IInv
    <3>2. fds'[q] = fds[q] /\ fd_counter'[q] = fd_counter[q]
          /\ fds[q] \in [Fd -> Descriptor \cup {NoFile}]
      BY <1>2, <2>2, <3>1
    <3>3. ASSUME NEW fd \in Fd, fds[q][fd] # NoFile
          PROVE  fds[q][fd].node \in Inode /\ fds[q][fd].node \in table'.opened
      BY <1>1, <3>1, <3>2, <3>3 DEF Sound, Backed, Descriptor
    <3> QED
      BY <1>1, <3>1, <3>2, <3>3, SoundStays
  <2> QED
    BY <2>1, <2>2
<1> QED
  BY <1>1, <1>2, <1>3, <1>4, <1>5 DEF IInv

\* By the rule ~Reopen, every step keeps the invariant.
LEMMA NextIInv == ASSUME ~Reopen, IInv, Pointers, [Next]_vars PROVE IInv'
<1>1. TypeOK /\ TypeOK'
  BY NextTypes DEF IInv
<1>2. ASSUME UNCHANGED <<table, processes, fds, fd_counter>> PROVE IInv'
  BY <1>1, <1>2, SameTable
<1>3. ASSUME NEW p \in Pid, NEW i \in Inode, Create(p, i) PROVE IInv'
  BY <1>2, <1>3 DEF Create
<1>4. ASSUME NEW p \in Pid, NEW i \in Inode, NEW mode \in Mode, Open(p, i, mode)
      PROVE  IInv'
  BY <1>4, OpenStep
<1>5. ASSUME NEW p \in Pid, NEW fd \in Fd, Close(p, fd) PROVE IInv'
  BY <1>5, CloseStep
<1>6. ASSUME NEW p \in Pid, NEW fd \in Fd, UseFreed(p, fd) PROVE IInv'
  BY <1>2, <1>6 DEF UseFreed, files
<1>7. ASSUME NEW p \in Pid, NEW fd \in Fd,
             \/ \E n \in Amount : ReadPipe(p, fd, n)
             \/ \E bytes \in Message : WritePipe(p, fd, bytes)
      PROVE  IInv'
  BY <1>7, PipeStep, FileAssumption
<1>8. ASSUME NEW p \in Pid, NEW fd \in Fd, NEW n \in Nat,
             \/ ReadFile(p, fd, n)
             \/ ReadFileBeyondEnd(p, fd, n)
             \/ WriteFile(p, fd, n)
             \/ Seek(p, fd, n)
      PROVE  IInv'
  BY <1>1, <1>8, FileTypes, SameTable
<1>9. ASSUME NEW p \in Pid, Fork(p) PROVE IInv'
  BY <1>9, ForkStep
<1>10. ASSUME NEW p \in Pid, NEW i \in File, Exec(p, i) PROVE IInv'
  BY <1>10, ExecStep
<1>11. ASSUME NEW p \in Pid, Exit(p) PROVE IInv'
  BY <1>11, ExitStep
<1>12. Amount \subseteq Nat /\ 0 .. MaxSize \subseteq Nat
  BY FileAssumption
<1>13. ASSUME UNCHANGED vars PROVE IInv'
  BY <1>2, <1>13 DEF vars, files
<1> QED
  BY <1>3, <1>4, <1>5, <1>6, <1>7, <1>8, <1>9, <1>10, <1>11, <1>12, <1>13
  DEF Next, Halt

\* Closes make no descriptor stale, if those that stay are of nodes that stay.
LEMMA NothingStale ==
  ASSUME IInv, IInv', stale = {}, NEW dropped, stale' = StaleAfter(table', dropped),
         \A q \in live, f \in Fd : <<q, f>> \notin dropped =>
           q \in live' /\ fds'[q][f] = fds[q][f]
  PROVE  stale' = {}
<1> SUFFICES ASSUME NEW d \in stale' PROVE FALSE
  OBVIOUS
<1>1. d \in live \X Fd /\ d \notin dropped /\ d \in PointTo(table.opened \ table'.opened)
  BY DEF StaleAfter, PointTo
<1>2. PICK q \in live, f \in Fd : d = <<q, f>>
  BY <1>1
<1>3. fds[q][f] # NoFile /\ fds[q][f].node \notin table'.opened
  BY <1>1, <1>2 DEF PointTo
<1>4. q \in live' /\ fds'[q][f] = fds[q][f]
  BY <1>1, <1>2
<1>5. Sound(table', q, fds'[q], fd_counter'[q])
  BY <1>4 DEF IInv
<1> QED BY <1>3, <1>4, <1>5 DEF Sound, Backed

\* By the rule ~Reopen, every step keeps the inductive invariant.
LEMMA NextHeld == ASSUME ~Reopen, Held, [Next]_vars PROVE Held'
<1>1. IInv /\ Pointers /\ stale = {} /\ TypeOK
  BY DEF Held, IInv
<1>2. IInv' /\ Pointers'
  BY <1>1, NextIInv, NextPointers
<1>3. stale' = {}
  <2>1. fds \in [Pid -> [Fd -> Descriptor \cup {NoFile}]] /\ live \subseteq Pid
    BY <1>1 DEF TypeOK
  <2>2. ASSUME NEW p \in Pid, NEW fd \in Fd, Close(p, fd) PROVE stale' = {}
    <3>1. PICK dropped : dropped = {<<p, fd>>}
      OBVIOUS
    <3>2. live' = live /\ stale' = StaleAfter(table', dropped)
          /\ fds' = [fds EXCEPT ![p] = [fds[p] EXCEPT ![fd] = NoFile]]
      BY <2>2, <3>1 DEF Close, processes
    <3>3. \A q \in live, f \in Fd : <<q, f>> \notin dropped =>
            q \in live' /\ fds'[q][f] = fds[q][f]
      BY <2>1, <3>1, <3>2
    <3> QED BY <1>1, <1>2, <3>2, <3>3, NothingStale
  <2>3. ASSUME NEW p \in Pid,
               Exit(p) \/ \E i \in File : Exec(p, i) PROVE stale' = {}
    <3>1. PICK dropped : dropped = {p} \X Fd
      OBVIOUS
    <3>2. /\ live' = live \/ live' = live \ {p}
          /\ stale' = StaleAfter(table', dropped)
          /\ fds' = [fds EXCEPT ![p] = [fd \in Fd |-> NoFile]]
      BY <2>3, <3>1 DEF Exit, Exec, processes
    <3>3. \A q \in live, f \in Fd : <<q, f>> \notin dropped => q # p
      BY <3>1
    <3>4. \A q \in live, f \in Fd : <<q, f>> \notin dropped =>
            q \in live' /\ fds'[q][f] = fds[q][f]
      BY <2>1, <3>2, <3>3
    <3> QED BY <1>1, <1>2, <3>2, <3>4, NothingStale
  <2>4. CASE UNCHANGED vars
    BY <1>1, <2>4 DEF vars
  <2>5. ASSUME NEW p \in Pid,
               \/ \E i \in Inode : Create(p, i)
               \/ \E i \in Inode, mode \in Mode : Open(p, i, mode)
               \/ Fork(p)
        PROVE  stale' = stale
    BY <2>5 DEF Create, Open, Fork
  <2>6. ASSUME NEW p \in Pid, NEW fd \in Fd,
               \/ UseFreed(p, fd)
               \/ \E bytes \in Message : WritePipe(p, fd, bytes)
               \/ \E offset \in 0 .. MaxSize : Seek(p, fd, offset)
        PROVE  stale' = stale
    BY <2>6 DEF UseFreed, WritePipe, Seek
  <2>7. ASSUME NEW p \in Pid, NEW fd \in Fd, NEW n \in Amount,
               \/ ReadPipe(p, fd, n) \/ ReadFile(p, fd, n)
               \/ ReadFileBeyondEnd(p, fd, n) \/ WriteFile(p, fd, n)
        PROVE  stale' = stale
    BY <2>7 DEF ReadPipe, ReadFile, ReadFileBeyondEnd, WriteFile
  <2> QED BY <1>1, <2>2, <2>3, <2>4, <2>5, <2>6, <2>7 DEF Next, Halt
<1> QED BY <1>2, <1>3 DEF Held

\* main() has opened the log for process 0, which has no descriptors.
LEMMA InitHeld == Init => Held /\ PipesOfNodes!Init
<1> SUFFICES ASSUME Init PROVE Held /\ PipesOfNodes!Init
  OBVIOUS
<1>1. /\ 0 \in Pid /\ Log \in Inode /\ "WRITEONLY" \in Mode
      /\ "WRITEONLY" # "READONLY"
  BY FileAssumption DEF Mode
<1>2. NoNodes \in TableType /\ NoNodes.opened = {}
      /\ (\A i \in Inode, p \in Pid : NoNodes.writers[i][p] = 0)
      /\ (\A f \in Fifo : NoNodes.fifo[f] = << >>)
  <2>1. << >> \in {q \in Seq(Byte) : Len(q) <= FIFO_SIZE}
    BY FileAssumption
  <2> QED
    BY <2>1 DEF NoNodes, TableType
<1>3. PICK init \in Pid : init = 0
  BY <1>1
<1>4. table = OpenNode(NoNodes, init, Log, "WRITEONLY")
  BY <1>3 DEF Init
<1>5. /\ table \in TableType /\ table.opened = {Log}
      /\ table.writers[Log][init] = NoNodes.writers[Log][init] + 1
      /\ \A f \in Fifo : table.fifo[f] = << >>
  BY ONLY <1>1, <1>2, <1>4, OpenNodeFacts
<1>6. LogKept(table) /\ Registered(table, Log)
  BY <1>1, <1>2, <1>3, <1>5 DEF LogKept, Registered
<1>7. TypeOK
  <2>1. exists \subseteq Inode
    BY <1>1, FileAssumption DEF Init
  <2>2. inode_size \in [File -> 0 .. MaxSize]
    BY FileAssumption DEF Init
  <2>3. fds \in [Pid -> [Fd -> Descriptor \cup {NoFile}]]
        /\ fd_counter \in [Pid -> Nat]
    BY DEF Init
  <2>4. live \subseteq Pid /\ pid_counter \in Nat
    BY <1>1 DEF Init
  <2>5. received \in Seq(Byte)
    BY DEF Init
  <2>6. halted \in BOOLEAN /\ stale \subseteq live \X Fd
    BY DEF Init
  <2> QED
    BY <1>5, <2>1, <2>2, <2>3, <2>4, <2>5, <2>6 DEF TypeOK
<1>8. Released
  BY <1>5, <1>6 DEF Released
<1>9. \A p \in live : Sound(table, p, fds[p], fd_counter[p])
  BY <1>1 DEF Init, Sound
<1>10. Held
  <2>1. Pointers /\ stale = {}
    BY <1>1 DEF Init, Pointers, Points
  <2> QED BY <1>6, <1>7, <1>8, <1>9, <2>1 DEF Init, IInv, Held
<1>11. Content = [f \in Fifo |-> << >>] /\ received = << >>
  BY <1>5 DEF Init, Content
<1> QED
  BY <1>10, <1>11 DEF PipesOfNodes!Init, Content

(***************************************************************************)
(* A process has one descriptor of an inode at most, so that being listed  *)
(* once is being listed once per descriptor.                               *)
(***************************************************************************)
LEMMA HeldNoDangling == Held => NoDangling
<1> SUFFICES ASSUME IInv, stale = {} PROVE NoDangling
  BY DEF Held
<1>1. ASSUME NEW p \in live, NEW i \in Inode
      PROVE  /\ FdsOn(p, i) # {} => i \in table.opened
             /\ Cardinality(FdsIn(p, i, "READONLY")) <= table.readers[i][p]
             /\ Cardinality(FdsIn(p, i, "WRITEONLY")) <= table.writers[i][p]
  <2>1. p \in Pid /\ Sound(table, p, fds[p], fd_counter[p])
        /\ table.readers[i][p] \in Nat /\ table.writers[i][p] \in Nat
    BY DEF IInv, TypeOK, TableType
  <2>2. \A fd \in FdsOn(p, i) : Backed(table, p, fds[p][fd]) /\ fds[p][fd].node = i
    BY <2>1 DEF FdsOn, InUse, Sound
  <2>3. \A a, b \in FdsOn(p, i) : a = b
    BY <2>1 DEF FdsOn, InUse, Sound
  <2>4. ASSUME NEW mode \in Mode, NEW n \in Nat,
               \A fd \in FdsIn(p, i, mode) : n > 0
        PROVE  Cardinality(FdsIn(p, i, mode)) <= n
    <3>1. CASE FdsIn(p, i, mode) = {}
      BY <3>1, FS_EmptySet
    <3>2. CASE FdsIn(p, i, mode) # {}
      <4>1. PICK fd : FdsIn(p, i, mode) = {fd}
        BY <2>3, <3>2 DEF FdsIn
      <4> QED
        <5>1. Cardinality({fd}) = 1
          BY FS_Singleton
        <5>2. n >= 1
          BY <2>4, <4>1
        <5> QED
          BY ONLY <4>1, <5>1, <5>2
    <3> QED
      BY <3>1, <3>2
  <2>5. \A fd \in FdsIn(p, i, "READONLY") : table.readers[i][p] > 0
    BY <2>2 DEF FdsIn, Backed
  <2>6. \A fd \in FdsIn(p, i, "WRITEONLY") : table.writers[i][p] > 0
    BY <2>2 DEF FdsIn, Backed
  <2>7. FdsOn(p, i) # {} => i \in table.opened
    BY <2>2 DEF Backed
  <2> QED
    BY <2>1, <2>4, <2>5, <2>6, <2>7 DEF Mode
<1>2. \A p \in live : \A fd \in InUse(p) : fd < fd_counter[p]
  BY DEF IInv, Sound, InUse
<1> QED
  BY <1>1, <1>2 DEF IInv, LogKept, NoDangling

-----------------------------------------------------------------------------
(* Theorems                                                                *)

(***************************************************************************)
(* Pipes lose, reorder and repeat nothing, for any number of processes and *)
(* pipes of any capacity, and whoever opens, forks, execs, exits or closes *)
(* in between: a node goes only with an empty queue.  This is so for       *)
(* processes that break the rule ~Reopen, too, until one of them uses a    *)
(* descriptor whose node has been freed, where the model stops.  As long   *)
(* as none does, the node that an inode gets later serves those only that  *)
(* have opened it since.                                                   *)
(***************************************************************************)
THEOREM PipesImplemented == Spec => ImplementsPipes
<1>1. Init => TypeOK /\ Pointers /\ PipesOfNodes!Init
  BY InitHeld DEF Held, IInv
<1>2. TypeOK /\ Pointers /\ [Next]_vars
        => TypeOK' /\ Pointers' /\ [PipesOfNodes!Next]_(PipesOfNodes!vars)
  BY NextTypes, NextPointers DEF PipesOfNodes!vars, Content
<1> QED
  BY <1>1, <1>2, PTL DEF Spec, ImplementsPipes, PipesOfNodes!Spec

(***************************************************************************)
(* No descriptor dangles, whatever the processes, the files and the pipes: *)
(* no open, fork, exec, exit or close by anybody takes a node away from a  *)
(* process that has a descriptor of it, as long as no process opens what   *)
(* it has open already.                                                    *)
(***************************************************************************)
THEOREM NoDanglingHolds == ASSUME ~Reopen PROVE Spec => []NoDangling
<1>1. Held /\ [Next]_vars => Held'
  BY NextHeld
<1>2. Init => Held
  BY InitHeld
<1> QED
  BY <1>1, <1>2, HeldNoDangling, PTL DEF Spec

(***************************************************************************)
(* And nodes are not leaked: one at which nobody is listed is a pipe with  *)
(* bytes in it.                                                            *)
(***************************************************************************)
THEOREM ReleasedHolds == ASSUME ~Reopen PROVE Spec => []Released
<1>1. Held /\ [Next]_vars => Held'
  BY NextHeld
<1>2. Init => Held
  BY InitHeld
<1>3. Held => Released
  BY DEF Held, IInv
<1> QED
  BY <1>1, <1>2, <1>3, PTL DEF Spec
=============================================================================
