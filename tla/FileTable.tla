----------------------------- MODULE FileTable -----------------------------
(***************************************************************************)
(* Open files and named pipes: kernel/filesystem.cc and the descriptor     *)
(* calls of kernel/process.cc.                                             *)
(*                                                                         *)
(* Descriptors point to nodes (see Nodes), which list the processes that   *)
(* have them open; close, exit, fork and exec must keep the two in step.   *)
(*                                                                         *)
(* System calls are atomic (see Kernel), and any live process may make the *)
(* next one.  Abstracted: path lookup and the names of files, the data in  *)
(* regular files (sizes and offsets are kept), return values other than    *)
(* the bytes that arrive from a pipe.  A refused call changes nothing and  *)
(* is a stuttering step.                                                   *)
(***************************************************************************)
EXTENDS Nodes, FiniteSets, SequencesExt

(***************************************************************************)
(* Process ids are an initial segment of Nat, and 0 is init.               *)
(***************************************************************************)
CONSTANTS
  File,        \* regular files
  Directory,   \* directories
  Log,         \* the pipe /kernel/log
  Stdio,       \* [Pid -> SUBSET Fifo]: /proc/<pid>/fifo/stdin and stdout
  Byte,        \* what travels through a pipe
  Message,     \* what is written at once
  FIFO_SIZE,   \* capacity of a pipe
  BlockSize,   \* bytes per block of the file system
  Reopen,      \* BOOLEAN: a process may open an inode it has open already
  MaxFd,       \* bound: descriptors a process opens
  MaxSize,     \* bound: size of a file
  MaxListed,   \* bound: how often a process that opens an inode is listed
  Amount,      \* sizes asked for in one read or write
  NoFile       \* the value of a descriptor that is not in use

Fd == 0 .. MaxFd - 1

Mode == {"READONLY", "WRITEONLY"}

\* fd_info; the offset of a pipe or a directory is never used and stays 0
Descriptor == [node : Inode, mode : Mode, offset : Nat]

ASSUME FileAssumption ==
  /\ Pid \subseteq Nat /\ 0 \in Pid
  /\ Inode = File \cup Fifo \cup Directory
  /\ File \cap Fifo = {} /\ Directory \cap (File \cup Fifo) = {}
  /\ Log \in Fifo
  /\ Stdio \in [Pid -> SUBSET Fifo]
  /\ Message \subseteq Seq(Byte)
  /\ FIFO_SIZE \in Nat \ {0} /\ BlockSize \in Nat \ {0}
  /\ Reopen \in BOOLEAN
  /\ MaxFd \in Nat /\ MaxSize \in Nat /\ MaxListed \in Nat /\ Amount \subseteq Nat
  /\ NoFile \notin Descriptor

VARIABLES
  table,       \* the shared_file_nodes, see TableType
  exists,      \* inodes that have been created
  inode_size,  \* size of a regular file
  live,        \* processes that have not exited
  pid_counter,
  fds,         \* task_info::fds, NoFile where the map has no entry
  fd_counter,  \* task_info::fd_counter
  stale,       \* descriptors, <<process, fd>>, whose node has been freed
  received,    \* the bytes the last read from a pipe returned
  halted       \* an assertion of the kernel has failed

files == <<table, exists, inode_size>>
processes == <<live, pid_counter>>
vars == <<files, processes, fds, fd_counter, stale, received, halted>>

TableType ==
  [ opened  : SUBSET Inode,                \* inodes that have a node
    readers : [Inode -> [Pid -> Nat]],     \* how often a process is listed
    writers : [Inode -> [Pid -> Nat]],
    fifo    : [Fifo -> {q \in Seq(Byte) : Len(q) <= FIFO_SIZE}] ]

TypeOK ==
  /\ table \in TableType
  /\ exists \subseteq Inode
  /\ inode_size \in [File -> 0 .. MaxSize]
  /\ live \subseteq Pid
  /\ pid_counter \in Nat
  /\ fds \in [Pid -> [Fd -> Descriptor \cup {NoFile}]]
  /\ fd_counter \in [Pid -> Nat]
  /\ stale \subseteq live \X Fd
  /\ received \in Seq(Byte)
  /\ halted \in BOOLEAN

-----------------------------------------------------------------------------
(* Descriptors                                                             *)

InUse(p) == {fd \in Fd : fds[p][fd] # NoFile}

FdsOn(p, i) == {fd \in InUse(p) : fds[p][fd].node = i}

\* How many descriptors of an inode the process has.
Opens(p, i) == Cardinality(FdsOn(p, i))

\* The next system call is one of process p's.
Calls(p) == p \in live /\ ~halted

\* fd_info::node points to a node that has been freed.
Stale(p, fd) == <<p, fd>> \in stale

Valid(p, fd, mode) ==
  fd \in InUse(p) /\ fds[p][fd].mode = mode /\ ~Stale(p, fd)

\* The descriptors that point to the nodes of some inodes.
PointTo(inodes) ==
  {d \in live \X Fd : /\ fds[d[1]][d[2]] # NoFile
                      /\ fds[d[1]][d[2]].node \in inodes}

(***************************************************************************)
(* When closes leave the table t, whoever has a descriptor of a node that  *)
(* they free keeps it, and it stays stale when the inode gets a new node.  *)
(***************************************************************************)
StaleAfter(t, dropped) ==
  (stale \cup PointTo(table.opened \ t.opened)) \ dropped

(***************************************************************************)
(* main() has opened /kernel/log in the name of process 0 and created      *)
(* process 0 with its pipes.                                               *)
(***************************************************************************)
Init ==
  /\ table = OpenNode(NoNodes, 0, Log, "WRITEONLY")
  /\ exists = Directory \cup {Log} \cup Stdio[0]
  /\ inode_size = [i \in File |-> 0]
  /\ live = {0}
  /\ pid_counter = 1
  /\ fds = [p \in Pid |-> [fd \in Fd |-> NoFile]]
  /\ fd_counter = [p \in Pid |-> 0]
  /\ stale = {}
  /\ received = << >>
  /\ halted = FALSE

\* current_task_create
Create(p, i) ==
  /\ Calls(p)
  /\ i \in Inode \ exists
  /\ \A q \in Pid : i \notin Stdio[q]
  /\ exists' = exists \cup {i}
  /\ UNCHANGED <<table, inode_size, processes, fds, fd_counter, stale>>
  /\ UNCHANGED <<received, halted>>

\* The programs that follow the rule `~Reopen' describes.
MayOpen(p, i) == Reopen \/ (FdsOn(p, i) = {} /\ ~(p = 0 /\ i = Log))

(***************************************************************************)
(* current_task_open.  Opening a file for writing truncates it, whoever    *)
(* has it open.                                                            *)
(***************************************************************************)
Open(p, i, mode) ==
  /\ Calls(p)
  /\ i \in exists
  /\ i \in Directory => mode = "READONLY"
  /\ fd_counter[p] < MaxFd
  /\ MayOpen(p, i)
  /\ table.readers[i][p] + table.writers[i][p] < MaxListed
  /\ table' = OpenNode(table, p, i, mode)
  /\ inode_size' = IF mode = "WRITEONLY" /\ i \in File
                   THEN [inode_size EXCEPT ![i] = 0] ELSE inode_size
  /\ fds' = [fds EXCEPT ![p][fd_counter[p]] =
               [node |-> i, mode |-> mode, offset |-> 0]]
  /\ fd_counter' = [fd_counter EXCEPT ![p] = @ + 1]
  /\ UNCHANGED <<exists, processes, stale, received, halted>>

(***************************************************************************)
(* current_task_close.  The pointer of a stale descriptor is followed, and *)
(* what close_shared_file_node does to a freed node is undefined: see      *)
(* UseFreed.                                                               *)
(***************************************************************************)
Close(p, fd) ==
  /\ Calls(p)
  /\ fd \in InUse(p)
  /\ LET i == fds[p][fd].node
     IN  /\ halted' = Stale(p, fd)
         /\ table' = IF halted' THEN table ELSE CloseNode(table, p, i, 1)
  /\ stale' = StaleAfter(table', {<<p, fd>>})
  /\ fds' = [fds EXCEPT ![p][fd] = NoFile]
  /\ UNCHANGED <<exists, inode_size, processes, fd_counter, received>>

-----------------------------------------------------------------------------
(* Reading and writing                                                     *)

Least(a, b) == IF a <= b THEN a ELSE b

\* cycle_queue::push for each byte until the queue is full
Push(queue, bytes) ==
  queue \o SubSeq(bytes, 1, Least(FIFO_SIZE - Len(queue), Len(bytes)))

\* current_task_read of a pipe: what there is, up to n bytes; never waits.
ReadPipe(p, fd, n) ==
  /\ Calls(p)
  /\ Valid(p, fd, "READONLY")
  /\ LET i == fds[p][fd].node
         queue == table.fifo[i]
         k == Least(Len(queue), n)
     IN  /\ i \in Fifo
         /\ received' = SubSeq(queue, 1, k)
         /\ table' = [table EXCEPT !.fifo[i] = SubSeq(queue, k + 1, Len(queue))]
  /\ UNCHANGED <<exists, inode_size, processes, fds, fd_counter, stale>>
  /\ UNCHANGED halted

\* current_task_write to a pipe: what fits.
WritePipe(p, fd, bytes) ==
  /\ Calls(p)
  /\ Valid(p, fd, "WRITEONLY")
  /\ LET i == fds[p][fd].node
     IN  /\ i \in Fifo
         /\ table' = [table EXCEPT !.fifo[i] = Push(@, bytes)]
  /\ UNCHANGED <<exists, inode_size, processes, fds, fd_counter, stale>>
  /\ UNCHANGED <<received, halted>>

(***************************************************************************)
(* current_task_read of a file, at or before its end.                      *)
(***************************************************************************)
ReadFile(p, fd, n) ==
  /\ Calls(p)
  /\ Valid(p, fd, "READONLY")
  /\ LET d == fds[p][fd]
     IN  /\ d.node \in File
         /\ d.offset <= inode_size[d.node]
         /\ fds' = [fds EXCEPT ![p][fd].offset =
                      Least(@ + n, inode_size[d.node])]
  /\ UNCHANGED <<files, processes, fd_counter, stale, received, halted>>

(***************************************************************************)
(* The same beyond the end, where an open for writing may have left a      *)
(* reader: read_data computes inode_size - offset, which wraps around.  If *)
(* the offset lies in a later block than the end, no block is copied and   *)
(* the offset goes back to the end.  Otherwise memcpy is asked for nearly  *)
(* 2^64 bytes and runs into unmapped memory: on_data_abort asserts.        *)
(***************************************************************************)
ReadFileBeyondEnd(p, fd, n) ==
  /\ Calls(p)
  /\ Valid(p, fd, "READONLY")
  /\ n > 0
  /\ LET d == fds[p][fd]
         end == inode_size[d.node]
     IN  /\ d.node \in File
         /\ d.offset > end
         /\ IF end > 0 /\ d.offset \div BlockSize > (end - 1) \div BlockSize
            THEN /\ fds' = [fds EXCEPT ![p][fd].offset = end]
                 /\ UNCHANGED halted
            ELSE /\ halted' = TRUE
                 /\ UNCHANGED fds
  /\ UNCHANGED <<files, processes, fd_counter, stale, received>>

\* current_task_write to a file, which grows to the end of what is written.
WriteFile(p, fd, n) ==
  /\ Calls(p)
  /\ Valid(p, fd, "WRITEONLY")
  /\ n > 0
  /\ LET d == fds[p][fd]
     IN  /\ d.node \in File
         /\ d.offset + n <= MaxSize
         /\ inode_size' = [inode_size EXCEPT ![d.node] =
                             IF d.offset + n > @ THEN d.offset + n ELSE @]
         /\ fds' = [fds EXCEPT ![p][fd].offset = @ + n]
  /\ UNCHANGED <<table, exists, processes, fd_counter, stale, received, halted>>

\* current_task_seek: only to a place before the end of the file.
Seek(p, fd, offset) ==
  /\ Calls(p)
  /\ fd \in InUse(p) /\ ~Stale(p, fd)
  /\ LET d == fds[p][fd]
     IN  /\ d.node \in File
         /\ offset < inode_size[d.node]
         /\ fds' = [fds EXCEPT ![p][fd].offset = offset]
  /\ UNCHANGED <<files, processes, fd_counter, stale, received, halted>>

(***************************************************************************)
(* A call on a descriptor whose node has been freed, or a fork of the      *)
(* process that has it.  The model stops there, although the freed memory  *)
(* may be untouched as yet or hold the next node: the code promises        *)
(* nothing of it.                                                          *)
(***************************************************************************)
UseFreed(p, fd) ==
  /\ Calls(p)
  /\ fd \in InUse(p)
  /\ Stale(p, fd)
  /\ halted' = TRUE
  /\ UNCHANGED <<files, processes, fds, fd_counter, stale, received>>

-----------------------------------------------------------------------------
(* Processes                                                               *)

(***************************************************************************)
(* fork_current_task.  It goes through the lists of every node the parent  *)
(* has a descriptor of; if one has been freed, see UseFreed.               *)
(***************************************************************************)
Fork(p) ==
  /\ Calls(p)
  /\ pid_counter \in Pid
  /\ \A fd \in InUse(p) : ~Stale(p, fd)
  /\ LET c == pid_counter
     IN  /\ table' = Inherit(table, p, c, [i \in Inode |-> Opens(p, i)])
         /\ fds' = [fds EXCEPT ![c] = fds[p]]
         /\ fd_counter' = [fd_counter EXCEPT ![c] = fd_counter[p]]
         /\ live' = live \cup {c}
         /\ exists' = exists \cup Stdio[c]
  /\ pid_counter' = pid_counter + 1
  /\ UNCHANGED <<inode_size, stale, received, halted>>

(***************************************************************************)
(* replace_current_task with the program in file i, which the kernel opens *)
(* and closes in the name of process 0.  The new task_info has no          *)
(* descriptors; those of the old one are not closed.                       *)
(***************************************************************************)
Exec(p, i) ==
  /\ Calls(p)
  /\ i \in exists \cap File
  /\ Reopen \/ FdsOn(0, i) = {}
  /\ table' = CloseNode(OpenNode(table, 0, i, "READONLY"), 0, i, 1)
  /\ stale' = StaleAfter(table', {p} \X Fd)
  /\ fds' = [fds EXCEPT ![p] = [fd \in Fd |-> NoFile]]
  /\ fd_counter' = [fd_counter EXCEPT ![p] = 0]
  /\ UNCHANGED <<exists, inode_size, processes, received, halted>>

(***************************************************************************)
(* current_task_exit closes every descriptor.  Process 0 cannot exit.      *)
(***************************************************************************)
Exit(p) ==
  /\ Calls(p)
  /\ p # 0
  /\ LET after(i) == CloseNode(table, p, i, Opens(p, i))
     IN  /\ halted' = \/ \E fd \in Fd : Stale(p, fd)
                      \/ \E i \in Inode : FreedBefore(table, p, i, Opens(p, i))
         /\ table' = IF halted' THEN table
                     ELSE [table EXCEPT
                             !.opened  = {i \in @ : i \in after(i).opened},
                             !.readers = [i \in Inode |-> after(i).readers[i]],
                             !.writers = [i \in Inode |-> after(i).writers[i]]]
  /\ stale' = StaleAfter(table', {p} \X Fd)
  /\ fds' = [fds EXCEPT ![p] = [fd \in Fd |-> NoFile]]
  /\ live' = live \ {p}
  /\ UNCHANGED <<exists, inode_size, pid_counter, fd_counter, received>>

\* A failed assertion: while(true).
Halt == halted /\ UNCHANGED vars

-----------------------------------------------------------------------------
Next ==
  \/ \E p \in Pid :
       \/ \E i \in Inode : Create(p, i)
       \/ \E i \in Inode, mode \in Mode : Open(p, i, mode)
       \/ \E fd \in Fd :
            \/ Close(p, fd)
            \/ UseFreed(p, fd)
            \/ \E bytes \in Message : WritePipe(p, fd, bytes)
            \/ \E n \in Amount : \/ ReadPipe(p, fd, n)
                                 \/ ReadFile(p, fd, n)
                                 \/ ReadFileBeyondEnd(p, fd, n)
                                 \/ WriteFile(p, fd, n)
            \/ \E offset \in 0 .. MaxSize : Seek(p, fd, offset)
       \/ Fork(p)
       \/ \E i \in File : Exec(p, i)
       \/ Exit(p)
  \/ Halt

Spec == Init /\ [][Next]_vars

-----------------------------------------------------------------------------
(* Properties                                                              *)

(***************************************************************************)
(* No descriptor dangles: its node has not been freed, and the process is  *)
(* listed there, in the list of the descriptor's mode, once per descriptor *)
(* at least.  The kernel's own node of the log stays, too.  close strikes  *)
(* out by process and not by descriptor, fork copies the lists, and exec   *)
(* and the kernel itself use the lists of process 0.  The descriptor that  *)
(* the next open will use is free (map::insert asserts it), in a process   *)
(* that was forked with descriptors or runs a new program, too.            *)
(***************************************************************************)
FdsIn(p, i, mode) == {fd \in FdsOn(p, i) : fds[p][fd].mode = mode}

NoDangling ==
  /\ TypeOK
  /\ \A p \in live, i \in Inode :
       /\ FdsOn(p, i) # {} => i \in table.opened
       /\ Cardinality(FdsIn(p, i, "READONLY")) <= table.readers[i][p]
       /\ Cardinality(FdsIn(p, i, "WRITEONLY")) <= table.writers[i][p]
  /\ stale = {}
  /\ \A p \in live : \A fd \in InUse(p) : fd < fd_counter[p]
  /\ Log \in table.opened

(***************************************************************************)
(* Nodes are not leaked: one that nobody is listed at is a pipe with bytes *)
(* in it.                                                                  *)
(***************************************************************************)
Released ==
  \A i \in table.opened :
    Registered(table, i) \/ (i \in Fifo /\ table.fifo[i] # << >>)

(***************************************************************************)
(* The kernel never halts, whatever its processes do with their files:     *)
(* the assertions "key not found" and "data abort" hold.                   *)
(***************************************************************************)
NeverHalted == ~halted

(***************************************************************************)
(* The queues implement Pipes.  A pipe without a node is empty.            *)
(***************************************************************************)
PipesOfNodes ==
  INSTANCE Pipes
    WITH Pipe <- Fifo, Capacity <- FIFO_SIZE,
         content <- [f \in Fifo |-> IF f \in table.opened THEN table.fifo[f]
                                                        ELSE << >>]

ImplementsPipes == PipesOfNodes!Spec
=============================================================================
