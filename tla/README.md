# wwos in TLA+

wwos is a small operating system for QEMU's AArch64 machine: one core, a kernel
that runs with interrupts masked, user processes that are preempted by a timer.
This directory holds TLA+ models of its kernel, of the data structures below it and
of the shell and the terminals above it, the TLC configurations that check them, and
TLAPS proofs about each of them, for every value of the constants.  Paths below are those
of the repository.

    tlc -workers 2 -config kernel.cfg MCKernel      # a run
    tlapm KernelProofs.tla                          # proofs

`PROJECT.json` is the index: the runs with their properties, for each definition
the lines it models, and for each property a mutant of the code that breaks it.

## The system

| Component | State | Operations | Talks to |
|---|---|---|---|
| Scheduler (`kernel/scheduler.cc`) | executing task, tree of ready tasks ordered by `vruntime` | `add_task`, `remove_task`, `replace_task`, `schedule` | called by process.cc |
| Processes, semaphores, clocks (`kernel/process.cc`) | live tasks, counts and queues of semaphores, tree of timed signals, counters for ids | fork, exec, exit, set_priority, tstat; create, delete, wait, signal, signal_after; `on_timeout`, `schedule()` | scheduler, files, pages |
| Open files and pipes (`kernel/filesystem.cc`, process.cc) | a `shared_file_node` per open inode, with lists of readers and writers by process; descriptors; queues of pipes | open, close, create, read, write, seek; what fork, exec and exit do to descriptors | wwfs below, all processes above |
| File system (`libwwos/wwfs.cc`) | two bitmaps, inodes, data blocks, blocks of block numbers | format, create, read, write, resize | kernel; `tools/wwfs.cc` on the host |
| Page allocator (`kernel/memory.cc`) | list of free memory | `alloc`, `alloc(n)`, `alloc_specific_page` | fork, exec, faults, boot |
| Page tables (`kernel/aarch64/memory.cc`) | a tree per process, one of the kernel | `set_page`, `get_all_pages`, destructor, `activate` | page allocator, kernel heap |
| Heap (`libwwos/alloc.cc`, `runtime.cc`) | list of free chunks, headers of blocks | `operator new` and `delete`, growing by pages | all programs and the kernel |
| Containers (`include/wwos/*.h`) | AVL tree, map, vector, list, bounded queue | insert, remove, find, push, pop | everything |
| Interrupts and system calls (`kernel/aarch64/interrupt.cc`, `kernel/syscall.cc`) | saved registers | dispatch | process.cc |
| Shell (`applications/shell/main.cc`) | `fd_stdin` and `fd_stdout`; buffer of input, descriptors of a child's pipes | parses lines, redirects, `ls`, `mkdir`, `cat`, `echo`; starts a program and carries bytes between it and the terminal | files, four pipes, tstat |
| Terminals (`applications/tty/main.cc`) | of each terminal the line, buffers of input and output, what the screen shows | multiplexes keyboard and screen | pipes of the shells |
| Image tool (`tools/wwfs.cc`) | the image | formats it and adds files with their directories | wwfs |
| Boot, drivers, strings, tests, demos | | | |

What is hard in it:

* **Interleavings of processes.** A system call is atomic, since the kernel runs
  with interrupts masked, but the timer may come between any two instructions of
  a program; what several processes do to a semaphore, a pipe, a node, a
  directory or a file is interleaved in every order.
* **One thing kept in two structures.** A task is in the scheduler or in the queue
  of a semaphore; a descriptor points to a node that lists the process; the
  key of an ordered tree is a field of the objects in it; page tables of a
  process and of the kernel both map its pages.
* **Time.** A timed signal is noticed only when the scheduler runs, and may race
  the wait it is meant for and the deletion of its semaphore.
* **Limits.** Pipes, disk, inodes and memory run full; unsigned numbers wrap.
* **Assertions halt the machine** (`wwassert` loops forever), so an
  assumption of the kernel that turns out wrong stops every process.

Nothing is persisted (the file system is a memory disk) and there is one core: there
are no crashes to recover from and no data races between cores.

## The modules

| Module | Models | Abstract specification | Relation |
|---|---|---|---|
| `Scheduler` | the scheduler, as functions on its state | | used by `Kernel` |
| `Kernel` | processes, semaphores, clocks, timer, `schedule()` | `ProcessLifecycle` | refinement, checked and proved |
| `Nodes` | the nodes of open inodes, as functions | | used by `FileTable` and `Commands` |
| `FileTable` | nodes, descriptors, pipes | `Pipes` | refinement, checked and proved |
| `Paths` | paths in a tree of files; what the image tool adds | | used by `Commands` |
| `Commands` | shells and their command lines, on one tree of files | | built on what `Files` promises |
| `Shell`, with `CycleQueue` | the shell's relay | | built on what `Pipes` promises |
| `Terminals`, with `CycleQueue` | keyboard, terminals, screen | | built on what `Pipes` promises |
| `PageAllocator` | the page allocator, as functions | | used by `AddressSpaces` |
| `AddressSpaces` | page tables; fork, exec, exit, allocate_page, faults | `PrivateMemory` | refinement, checked and proved |
| `HeapAllocator` | the heap | | |
| `Wwfs` | the file system | `Files` | refinement, checked |
| `AvlTree` | the tree with its pointers | `OrderedQueue` | refinement, checked and proved |
| `MC...` | small instances for TLC | | |
| `KernelProofs` | proofs about `Kernel` and, in its second half, `AvlTree` | | |
| `FileProofs`, `WwfsProofs`, `CommandProofs`, `ShellProofs`, `TerminalProofs` | proofs about the module of that name | | |
| `MemoryProofs` | proofs about `HeapAllocator` and `AddressSpaces` | | |
| `ListLemmas` | proofs about the operators that these share | | |

The modules fit together by these refinements.  `Scheduler` and `Kernel` treat the trees
of ready tasks and of clocks as ordered sequences in which a newcomer goes behind its
equals; that this is what `avl.h` does is `AvlTree!ImplementsQueue`.  `Shell` and
`Terminals` treat their pipes as bounded queues that never block; that this is what nodes
and descriptors provide is `FileTable!ImplementsPipes`.  Their fairness rests on `Kernel`.
`Commands` works on a tree of files with contents, which is what blocks and inodes
provide (`MCWwfs!ImplementsFiles`), through the same `Nodes` as `FileTable`.

### Kernel and Scheduler

`scheduler`, `p_tasks`, `p_semaphores`, `p_clock_tree` and the counters are the
variables of the same names; `count` and `waiting_tasks` are the fields of the
semaphores.  Every system call of the executing task is one action, with its early
returns as guards (a call that is refused changes nothing and is left out as a
stuttering step).  `schedule()`, which the timer and `exit` run, has a loop over
the expired clocks: each iteration is an action, and `mode` excludes the others.
A clock is kept as the time left, so time needs no bound; a negative delay is a
sum of time and delay that wraps around.  A failed assertion sets `halted`.
`priority` is 16 bits wide (`% 65536`), as 65536 becomes 0, by which `schedule`
divides (0 on AArch64).  A semaphore is an id; its count is an integer, and `~0ull` is -1.

### Nodes and FileTable

`table` holds the nodes: which inodes have one, how often a process is listed as a
reader and as a writer, and the queues.  As in the code, `close` strikes out one
reader *and* one writer of the process, whatever the mode of the descriptor, fork
lists the child as often as the parent for every descriptor, and exec drops the
descriptors of the old program without closing them.  A descriptor holds a pointer to its
node, so a node that is freed stays freed for the descriptors that point to it: they are
remembered in `stale` until they are closed, although an inode that is opened again, by
whomever, has a new node.  What the code does with a node that has been freed is undefined,
and the model stops where a stale descriptor is used (`UseFreed`, and `halted` in `Close` and
`Exit`), a fork of its process included; an undamaged heap fails the assertion of `map::get` there.
Files have sizes and offsets but no contents: those are `Wwfs`.  The loop in fork that appends to
the vector it runs over is modelled where it is defined, for lists of at most 16 entries.

### AddressSpaces and PageAllocator

Physical memory is a list of nodes; tables are trees, three levels deep, in the
kernel's heap; `memory.singles` and `memory.stacks` record what has been handed out
for single pages and for kernel stacks, of a stack only the address of its first page, the only
one that `alloc(n)` takes out of the list.  `span[level]` is what a table's entry covers, so that an
address has an index at each level; `set_page`, the loops of `load_program` and fork, and the
mapping of a stack are folds over pages.  Fork visits the parent's pages in the order of their
addresses, as the walk of `get_all_pages` finds them.  Page contents, attributes, the TLB and `activate` are left out.  `free` has no
caller and the branch of `alloc_specific_page` that splits a node is not reached.

### HeapAllocator

First fit with headers, alignment, coalescing and growth by pages, in units of 8
bytes, to which sizes are rounded.  Requests of size 0 and double deletes are left out.

### Wwfs

Data is counted in cells of 8 bytes, the unit to which names are rounded and the size
of a block number.  Inodes, bitmaps and data blocks, those that hold block numbers
included, are explicit, and freed blocks keep their contents.
`MaxInodes` keeps allocation inside the table of inodes (see *Deviations*).

### AvlTree

Nodes with pointers, as in `avl.h`; `InsertNode`, `RemoveOuter` (at most one child) and
`RemoveInner` walk, link, rotate and free as the code does, in its order.  A loop that follows
pointers is a recursive function of the number of its turns, of which there are no more than
nodes.  A null or
freed pointer that is followed is an error to TLC.

### Shell

The relay of `command_external`.  A system call of the shell, with the computation up to
the next one, is an action; the
child and the terminal move in between.  Bytes are numbered, so that loss, repetition
and order show.  `intact` remembers whether a byte met a full buffer or a
write was short.

### Paths and Commands

`Commands` has several shells, each between two system calls (`shell[s].at`), on one tree
of files.  What is put to a redirected output goes there item by item, one `putchar` an
action; an item stands for the bytes of a message, a name or a prompt.  What
goes to a terminal takes no step, and a program that is started is an item of
output: both are the subject of `Shell`.  `fds`, `fd_counter` and the nodes are
those of the kernel, without the descriptors 0 and 1.  As in the code, `ls`
closes neither its directory (except after an error) nor the children, and
`command_external` does not close the program; while this runs, the relay reads a redirected
input (`RelayInput`).  A descriptor whose node has been freed is in `stale`, as in `FileTable`.
Paths are sequences of pieces, so that slashes
in a row and at the end are there; `Paths!GetInode` and `Paths!ParentPath` are the two
ways the kernel takes them apart.  The tree at the start is what the image tool makes of
`Image`; a path through a file or to a directory fails an assertion of the tool before it
stores the image.  `MaxInodes` bounds the tree, and so what `mkdir` and `>` create.

### Terminals

Each turn of the loop of `main()` is cut where another process may come in: the key, the
feeding of the shell, the reading of each terminal's output, the screen.  Bytes are
numbered.  `entered` and `wrote` hold what was entered and written and has not arrived yet;
`overrun` remembers where a buffer was full, `mixed` where output came into
a line.  The terminal of the kernel's log has no shell, and
`command_mode` chooses, or starts, another terminal.

## The runs

| Run | Instance | Distinct states | What it shows |
|---|---|---|---|
| `kernel` | 3 processes, 2 semaphores, 2 clocks, delays -1, 1, 2, two priorities that overflow 16 bits, virtual time to 2 | 365,521 | No process is in two places or none (`OnePlace`), none sleeps at a positive count (`NoLostWakeup`), the ready tree stays ordered (`ReadyInOrder`), "no task to schedule." never fails (`NeverIdle`), TERMINATED is for good (`TerminatedForGood`), the life cycle is implemented, no signal is overdue in user mode (`NothingOverdue`), every ready process runs when nobody new arrives (`QuietReadyRuns`) |
| `avl` | 7 elements, two equal | 178,001 | Pointers, heights, balance after insertions; the ordered queue is implemented |
| `files_pipes` | 2 processes, 2 pipes of 2 bytes, messages of 1 and 2 bytes, inodes opened several times | 414,782 | Pipes lose and reorder nothing up to a halt |
| `files_sharing` | 2 processes, a file and the log, each inode open once per process | 116,430 | No descriptor dangles or is given out twice, nodes are released |
| `files_reopen` | as `files_pipes` | | finding: `NeverHalted` fails |
| `heap` | 3 pages of 8 units, 3 sizes, 3 alignments | 320,438 | No overlap, sorted and coalesced, no assertion fails, nothing is lost but small rests |
| `pages` | 3 processes, 11 pages, 3 levels of 3 entries | 39,114 | No page is taken out of the free list twice (`TakenOnce`: single pages and the first pages of stacks), the kernel sees what it touches, trees are disjoint, only exec leaks tables, memory is private |
| `pages_stacks` | as `pages` | | finding: `StacksApart` fails |
| `wwfs` | 8 blocks of 2 cells, 2 direct blocks, 3 inodes | 100,895 | No block has two uses, only indirect blocks leak, files are implemented |
| `shell` | pipes of 3, buffer of 4, 6 bytes typed, 4 written | 135,668 | Input and output in order and complete while nobody lags, nothing twice, the shell returns |
| `commands` | 2 shells (symmetric), 11 command lines, a buffer of 1 entry, chunks of 2 items | 507,549 | A listing is the directory as it was at one moment (`ListingComplete`), every named entry is found by its path (`EveryEntryFound`), a redirection ends with its command (`RedirectionEnds`), the output file stays open (`OutputHeld`) |
| `terminals` | 2 shells and the log, buffers and pipes of 1, a remembered screen of 2, 2 keys kept, 2 bytes written | 181,924 | Lines arrive and output is kept, in order, but for the oldest bytes of a full buffer; the screen is that of the current terminal, and the line seen is the one sent; a line entered is delivered |

**Why the bounds are enough.**  Three processes are one that executes, one that is ready
and one that waits, or two that wait for the same semaphore; process 0, which may
neither block nor exit, is one of them.  Two clocks make an order, two
semaphores a process in the wrong queue.  `MaxVruntime` stops the timer
only; the task at the bound executes, so all the others have been overtaken, and
`QuietReadyRuns` is meaningful below it.  Seven elements make every kind of
rotation, in insertions and removals, and both kinds of removal at the root and inside.
Pipes of two bytes are empty, partly full and full, and meet a message
that fits in part; two openings by one process with two descriptors are what
the lists of readers can get wrong.  In `pages` memory is used up, and
address 0 is handed out as the code does.  The small disk runs full, has files
of direct blocks, with an indirect block, and files that shrink back below it.
In `shell` every pipe and the buffer run full, a write is short, and nothing of
a chunk is written.  In `commands` the lines are chosen so that every branch of the
commands is taken: a file written by one shell while the other reads or truncates it,
a listing while entries are created, an entry without a name, an input that cannot
be opened, a file that is its own output; each shell can type at least two commands
that open something.  In `terminals` a line of two bytes does not fit the buffer and fills the
pipe, output comes for a terminal that is not shown, and the user goes away in the
middle of a line; larger buffers (2, with 3 keys) were checked once, for the
same result in five minutes.  `MaxListed` (how often a process that opens an inode is
listed already), `MaxFd`, `MaxSize`, `MaxInodes`, `MaxCount`, `MaxTables`, `MaxEnd`,
`MaxTyped` and `MaxWritten` stop counters that have no limit in the code or a
very large one.  Deadlock is not checked in `files_pipes`, where process 0, the only one
that cannot exit, may have used up its descriptors, in `wwfs`, where the system
stops when the disk is full, and in `commands`, where no more lines are typed after `MaxFd`
descriptors and where the kernel may halt.

**Fairness.**  `Kernel` assumes that the timer interrupts a program (`WF Tick`), since
`schedule()` arms it before it returns to user mode with interrupts enabled,
and that kernel code runs to its end (`WF InSchedule`).  It assumes nothing about the calls
programs make.  `Shell` assumes that the shell goes on (`WF Relay`): it never
blocks but for a timed sleep; `NothingOverdue` ends the sleep and
`QuietReadyRuns` gives it the processor.  Strictly, the latter asks that no
newcomers arrive: see *Deviations*.  `Terminals` assumes the same of its program (`WF Round`)
and that each shell reads its input (`WF ShellReads`), which it does whether a command
runs or not; the user need not do anything.  All other runs check safety only.

## The proofs

What is proved holds for every value of the constants: any number of processes,
semaphores, clocks, files, pipes, shells, terminals, blocks and inodes, any delays,
priorities, sizes, alignments, command lines and images, and pipes, chunks and buffers of any
capacity.  The assumptions are those the modules name (`PidAssumption`,
`KernelAssumption`, `FileAssumption`, `HeapAssumption`, `PageAssumption`,
`AddressAssumption`, `AvlAssumption`, `WwfsAssumption`, `CommandsAssumption`, `ShellAssumption`, `TerminalsAssumption`): types of the
constants, and what the code's own constants obey.  TLC evaluates them in every run.

| Module | Invariant | Theorems about properties of the runs |
|---|---|---|
| `KernelProofs` | `IInv`, `ClocksInOrder` | `TypeOK`, `OnePlace`, `NoLostWakeup`, `NeverIdle`, `ReadyInOrder`, `NothingOverdue`, `TerminatedForGood`, `ImplementsLifecycle` |
| | `TreeStands` of the AVL tree | `Linked`, `InsertionBalances`, `ImplementsQueue` |
| `FileProofs` | `IInv` | `ImplementsPipes`, `NoDangling`, `Released` |
| `MemoryProofs` | `IInv` of the heap | `HeapTypeOK`, `Apart`, `Coalesced`, `NoAssertionFails` |
| | `Lives` of the address spaces | `TakenOnce`, `KernelSees`, `TablesApart`, `OnlyExecLeaks`, `ImplementsPrivateMemory` |
| `WwfsProofs` | `IInv` | `BlocksApart`, `OnlyIndirectLeaks` |
| `CommandProofs` | `Inv`, `Fresh` | `EveryEntryFound`, `RedirectionEnds`, `ListingComplete`, `OutputHeld` |
| `ShellProofs` | `IInv` | `InputInOrder`, `OutputInOrder` |
| `TerminalProofs` | `IInv` | `LinesArrive`, `OutputKept`, `ScreenIsCurrent`, `LineAsSeen` |

**Kernel and life cycle** (`KernelProofs`).  `OnePlace` and
`NoLostWakeup` are not inductive: fork needs that the next pid is not in any queue, a new
semaphore that nobody waits for it already, the choice of a successor that some task
is ready.  The invariant `IInv` adds that the scheduler is sound (types, no task
twice, ordered), that process 0 is in it, that queues are apart, that a process is
live exactly if it is in one of them (`NobodyLost`), and that ids are
below the counters (`CountersAhead`).  There is a lemma for each action.
`NothingOverdue` needs a second invariant, `ClocksInOrder`: insertion, the passing of
time and the removal of the first clock keep the clocks sorted, so when the loop
stops at the first one none behind it has expired.  The status of a process is a function of
the live processes, the executing task and the ready tasks; each action of the kernel is a
creation, a wakeup or a handing over of the processor in these terms, or leaves every
status alone, which proves `ImplementsLifecycle`.

**The tree behind the queues** (`KernelProofs`, second half).  That pointers make one tree
is a statement about all paths, which these provers cannot reach by induction.  The
invariant says it node by node instead: there is a numbering of the nodes from left to right
and, for each node, the interval of the positions that its subtree fills, such
that the children's intervals are what is left of the node's own position and what is right
of it, and the root's is everything (`Shape`, `Stands`).  What was a walk becomes
arithmetic: the interval grows with each step up and shrinks with each step down, so a
loop ends within as many turns as there are nodes, at the root, at a free place or at the
largest node below; and the elements, read from left to right, are the sequence with each
one at its node's position (`OrderedIs`).  A rotation changes two intervals and no
position (`RotateShape`), a leaf makes room for one position and a node that is taken out
gives one back (`LeafShape`, `SpliceShape`), and the mirror image of a tree is a tree, so that
one direction of each is enough.  While `update_height_and_rebalance` climbs, every height
but that of the node it is at is exact (`Climbing`).  `TreeStands` adds to
this that the sequence is sorted by key, by which `find` descends to where `OrderedQueue` puts
the element (`FindPlace`).  The lemmas about links and rotations ask that the nodes they
read and write are allocated, and the proof of each operation supplies it.

`InsertionBalances` does not follow from `TreeStands`, which says nothing of how the heights of
neighbours compare.  While an insertion climbs, every node is even, or all but the one
where the loop is, one child of which has become one higher and, unless it is the new leaf,
leans to one side (`Growing`, `Poised`).  A turn without a rotation ends the growth or
passes it on to the parent (`UpdateGrows`); a rotation, or two, gives the subtree the height it
had, and ends it (`OuterLeftEven`, `InnerLeftEven`, their mirror images and `BalanceGrows`).
That the child leans is needed: of a child whose subtrees are equally high
the code rotates twice, which is wrong after a removal (*Deviations*) and cannot happen
here.

**Heap** (`MemoryProofs`).  The invariant says, in bounds, that list and blocks lie apart and in
the heap and that the list is sorted with gaps.  It has to speak of the
blocks: what `deallocate` links in is free only because nothing else was cut from it.
For `NoAssertionFails` the lemmas on alignment show that the pages added suffice.

**Pages and page tables** (`MemoryProofs`).  None of the properties is inductive: that an exit
gives back no table of another tree needs that the trees share none, that a new table is in
no tree needs that every table is in one, and that a page of a stack stays mapped needs
that the kernel maps each page at its own address only.  Nor is it enough to speak of the
trees of live processes, since exec leaves trees behind whose tables lie in the heap with
the others.  The invariant `Lives` therefore says that there is a set of roots,
those of the kernel, of the live processes and of the trees left behind, for which memory is
`Sound`: the trees are a `Forest` (entries of the right kind, no table found twice,
none that no root leads to), the kernel maps pages at their own addresses, what was handed
out is exactly the memory below the only free node and is mapped for the kernel, and no two trees
share a page but page 0.  `Live` adds that processes have trees and stacks of their own,
that none is without a page and that pids are below the counter.
The proof goes from the bottom up.  An address is split by the spans of the levels into
the indexes of its tables and put together again (`StartOfEntry` and what precedes it); so
`set_page`, which walks down and makes the tables that are missing, changes the entry
of this address, in this tree, and no other (`SetPageEffect`); so the loops
of fork and exec make a tree that maps the addresses they are given at pages
nobody else has (`NewSpaceEffect`, `MapForKernelEffect`).  Then there is a
lemma for each action.  `OnlyExecLeaks` follows as the roots of an
invariant that holds account for all tables: those of the roots no process has are `Lost`.
Each action is, of the maps that the trees represent, one of `PrivateMemory`'s, which
proves `ImplementsPrivateMemory`.  `TakenOnce` says of a kernel stack that its first page is not
returned again; the further pages of a stack are (`pages_stacks`), and nothing is proved of them but
that the kernel has them mapped.

**Files and pipes** (`FileProofs`).  `PipesImplemented` needs the types only: a node of a
pipe is made with an empty queue and freed with one, so opening and closing move no byte, and
no byte moves through a descriptor whose node has been freed.  It has no
assumption about reopening, and says nothing of what follows the use of a freed node.
`NoDanglingHolds` and `ReleasedHolds` assume `~Reopen`, the rule without which
`files_reopen` shows a dangling descriptor.  `NoDangling` is not inductive: close strikes
out by process, so that the invariant `IInv` must say that a process has one descriptor of
an inode at most, and process 0 none of the log, which the kernel holds open in its name.
Then what one close, exit or exec strikes out is exactly what belongs to the descriptors
that go (`AfterCloses`), and a fork lists the child wherever it inherits a descriptor.

**File system** (`WwfsProofs`).  The invariant says that each inode has as many blocks as its
size asks for (`Sized`), that these and the blocks of block numbers are marked in the bitmap
(`Marked`), and that no two uses share one (`Apart`).  An operation works on one inode with a
disk of its own, in loops that `Wwfs` writes as folds: what they add, remove and write
is shown once, relative to the blocks that are not this inode's (`Rest`), and storing the
inode restores the invariant.  The blocks that a shrinking file does not give back are
computed exactly, which makes `OnlyIndirectLeaks` hold of every step.

**Paths and commands** (`CommandProofs`).  First the tree: directories have each name once
and lead to inodes of the tree, and this is kept by `create`, `write_data`, truncation and the
image tool, whose loops over pieces and files are folds.  What `get_inode` computes is shown to
be a way through the tree, step by step, from which `JoinFound` follows: an entry is
found by the path that `join_path` makes.  As entries never go, the tree only grows (`Grows`),
and a path that has led somewhere goes on to lead there (`GetInodeStable`).  Then the
shells: the invariant `Inv` says of each that its descriptors, its listings at
nodes, its redirections, its arguments and the place where it is between two system calls
fit together (`Fits`).  What another shell does can only make the tree grow and leave
the listings as they are (`FitsMore`), so that one lemma for each action remains.
`ListingComplete` needs that the names taken are a prefix of the entries and no shorter than those of
the moment of the open, for any number of calls with larger buffers; `OutputHeld` a shell is listed as a writer more often than anything it may still close can strike out.
As a file whose node was freed may have another one by now, `Inv`, which speaks of the table, does
not say that an open output is not stale.  `Fresh` adds it, in this form: a shell whose output
dangles is not listed as a writer at that file any more.  This is kept because a node is freed only
when nobody is listed, and because a shell that is not listed at its output has nothing left to
do but to go back to the terminal.

**Relay and terminals** (`ShellProofs`, `TerminalProofs`).  Each invariant follows the
bytes along their way, as one sequence through pipes, buffers and the program: nothing twice, in order
where no write was short, complete where nothing was full.  That `cycle_queue`'s ring
is a queue, whatever its capacity, that a loop of pushes appends what fits and drops the oldest or
newest bytes as the code does, and that a put-back is a reversal, are lemmas of `ListLemmas`.  For the
screen, the invariant relates it to what `output_proxy` remembers of the current
terminal, and this to the line that is being typed.

**Loops.**  The folds and recursive functions of these modules are reasoned about without an
induction rule: an invariant of a fold over an interval that failed somewhere would
have a least place where it fails (`ListLemmas`: `MinProperties` and what is built on it).

Only model-checked, and why:

* the liveness properties `QuietReadyRuns`, `ShellReturns` and `LinesDelivered`: the prover has no
  `ENABLED`;
* `LossBounded`, which sums over lists;
* `MCWwfs!ImplementsFiles`: what reads return needs the contents of blocks, which `IInv` leaves
  free.

## Deviations

Two runs show code that does not do what the repository says of it.

* `files_reopen`: a process that has an inode open for reading and for writing frees the
  node with its first close; the second one uses it (`kernel/filesystem.cc:240-250`).
* `pages_stacks`: `alloc(n)` reserves one page of the n it returns
  (`kernel/memory.cc:33`), so kernel stacks overlap what is allocated next, from the
  very first process on.

Others are in the models but have no run of their own; the properties are stated so as
to say what does hold.

* None of the reservations at boot succeeds (`kernel/main.cc:45-49`): the only free node
  begins below the kernel.  When the pages below are used up, those of the kernel's image
  are handed out.
* Opening a file for writing truncates it under its readers; the next read of one
  whose offset is beyond the end computes a size that wraps around
  (`libwwos/wwfs.cc:403-405`) and halts the machine.  `files_sharing` reaches this.
* A task enters the scheduler just before the smallest virtual time, so two processes
  that wake each other keep a third from the processor for good: `QuietReadyRuns`, not
  more.  A semaphore wakes the task that has waited for the shortest time.
* Removal from an AVL tree may leave it unbalanced: a left-heavy node whose left child's
  subtrees are equally high is rotated twice (`avl.h:225-229`).  Eight insertions and
  one removal suffice; the order is right nevertheless.
* `allocate_inode` scans whole blocks of its bitmap and yields numbers beyond the
  table, whose records would lie in the data blocks; inodes are never given back, and
  each fork takes four.  `resize_inode` asserts `block_id >= 0` of an unsigned number.
  A file that shrinks leaks its indirect block.
* exec leaves the old page tables, descriptors and listings behind; `alloc` returns 0 when
  memory is used up, and 0 is used as a page; a fault at `STACK_TOP` itself is taken for
  one on the stack.
* The shell puts the rest of a short write back in reverse and drops a chunk of which
  nothing is written (`applications/shell/main.cc:394-400`); output a child writes
  between the last empty read and its exit is not shown (line 405); `putchar` does not
  look whether the byte was stored.
* When the input of a command cannot be opened, the shell goes back to its prompt with the
  output redirected (`applications/shell/main.cc:474-477`): messages and prompts go to the
  file until the next command ends, and another `>` drops the descriptor.  The error
  messages of a redirected command go to the file in any case.  What follows the
  second redirection of a line is ignored, in contrast to the grammar in lines 45-51.
* `ls` closes neither the directory nor the children it opens, and
  `command_external` not the program.  For the children this is what keeps
  `ls / > /g` alive, since closing the child `/g` would free the node under the output.
  `cat /f > /f` does free it, and the next `putchar` uses it; so does a fork after it.
* `mkdir /d//` makes an entry without a name, which no path finds and behind which `ls`
  shows nothing; `echo > /d//g` makes `/d/g` and then cannot open it.
* The terminal feeds its current shell only, so a line stays where it is while the user
  looks at another terminal; a backspace after output erases the output from the screen.
* The image tool overwrites a file that exists from its beginning and keeps what
  lies behind the new contents (`tools/wwfs.cc:109-120`).

## Not modelled

Saving and restoring registers; loader, drivers and boot beyond the initial states;
strings and formats, which no property is about; the demos, straight-line programs whose
system calls `Kernel` and `FileTable` have in any order; exec of a pipe or a directory;
contents of pages; attributes of pages and the TLB; what a program does
with memory that has been freed, which depends on the heap's contents; the tests, and
the part of the image tool that walks through the host's directory.
`PROJECT.json` lists every component with what is left out of it and every hazard with the
property that watches over it, or why none does.

## Plan

1. *Done:* the core, files and pipes, heap, file system, the shell's relay, command lines
   and paths, terminals, pages and page tables, the AVL tree, with their proofs.
2. *Model:* kernel and file table composed, so that the end of a process wakes, closes
   and reports in one model; `Shell` between `Terminals` and a program.
3. *Prove:* `ImplementsFiles`, with what `WwfsProofs` shows of the loops.
