--------------------------- MODULE AddressSpaces ---------------------------
(***************************************************************************)
(* The memory of processes: what fork, exec, exit, allocate_page and the   *)
(* fault on an untouched page of a stack do to physical pages and to page  *)
(* tables (kernel/process.cc on kernel/memory.cc and on aarch64/memory.cc) *)
(*                                                                         *)
(* A translation table is a tree of tables, `Levels' deep; a table comes   *)
(* from the kernel's heap, a page from the page allocator.  The kernel has *)
(* a tree of its own, in which it must find every page it touches.         *)
(*                                                                         *)
(* System calls are atomic (see Kernel), and any live process may make the *)
(* next one.  Addresses are counted in pages.  Abstracted: the contents of *)
(* pages, attributes of descriptors, activate(), and the kernel's pages of *)
(* devices and of the memory disk.                                         *)
(***************************************************************************)
EXTENDS PageAllocator, FiniteSetsExt

CONSTANTS
  Pid,                    \* process identifiers, an initial segment of Nat
  Levels,                 \* MAXIMUM_LEVEL
  Width,                  \* entries in a table
  TEXT,                   \* USERSPACE_TEXT
  STACK_BOTTOM, STACK_TOP,
  HEAP, HEAP_END,
  BinarySize,             \* sizes of programs
  MaxTables               \* bound: tables on the kernel's heap

\* Entries of a table of this level lie so far apart, those of level 0 being
\* whole trees.
span[level \in 0 .. Levels] ==
  IF level = Levels THEN 1 ELSE Width * span[level + 1]

Address == 0 .. span[0] - 1

Stack == STACK_BOTTOM .. STACK_TOP      \* on_data_abort takes STACK_TOP, too

Heap == HEAP .. HEAP_END - 1

\* What load_program maps.
Program(size) == (TEXT .. TEXT + size - 1) \cup {STACK_TOP - 1}

ASSUME AddressAssumption ==
  /\ Pid \subseteq Nat /\ 0 \in Pid
  /\ Levels \in Nat \ {0} /\ Width \in Nat \ {0}
  /\ Page \subseteq Address /\ 0 .. StackPages - 1 \subseteq Address
  /\ Stack \subseteq Address /\ Heap \subseteq Address /\ Stack \cap Heap = {}
  /\ \A size \in BinarySize :
       size \in Nat /\ Program(size) \subseteq Address \ Heap
                    /\ Cardinality(Program(size) \cap Stack) = 1
  /\ BinarySize # {} /\ MaxTables \in Nat

VARIABLES
  memory,       \* see MemoryType
  tt,           \* the root of each live process's tree, pcb.tt
  ksp,          \* its kernel stack
  pid_counter

vars == <<memory, tt, ksp, pid_counter>>

Index == 0 .. Width - 1

Invalid == -1     \* the descriptor of an entry that is not in use

Empty == [i \in Index |-> Invalid]

ttkernel == 0     \* the root of the kernel's tree

(***************************************************************************)
(* singles and stacks record the addresses that alloc has returned for     *)
(* single pages and for kernel stacks: of a stack, that of its first page. *)
(***************************************************************************)
MemoryOK(m) ==
  /\ m.freelist \in Seq(Node)
  /\ m.singles \subseteq Page \cup {0}
  /\ m.stacks \subseteq Page \cup {0}
  /\ DOMAIN m.tables \subseteq Nat
  /\ \A id \in DOMAIN m.tables :
       m.tables[id] \in [Index -> {Invalid} \cup Address \cup DOMAIN m.tables]

TypeOK ==
  /\ MemoryOK(memory)
  /\ DOMAIN tt \subseteq Pid
  /\ \A p \in DOMAIN tt : tt[p] \in DOMAIN memory.tables \ {ttkernel}
  /\ DOMAIN ksp = DOMAIN tt /\ Range(ksp) \subseteq memory.stacks
  /\ pid_counter \in Nat

-----------------------------------------------------------------------------
(* Translation tables                                                      *)

IndexAt(va, level) == (va \div span[level]) % Width

\* The function f, with the value y at x.
With(f, x, y) == [z \in DOMAIN f \cup {x} |-> IF z = x THEN y ELSE f[z]]

NewId(tables) == CHOOSE id \in 0 .. Cardinality(DOMAIN tables) : id \notin DOMAIN tables

\* One step of set_page towards a page: the table of the next level, which is
\* created if there is none.
Descend(walk, index) ==
  LET next == walk.tables[walk.at][index]
      new == NewId(walk.tables)
  IN  IF next # Invalid
      THEN [walk EXCEPT !.at = next]
      ELSE [tables |-> With([walk.tables EXCEPT ![walk.at][index] = new], new, Empty),
            at |-> new]

\* set_page: the last mapping of an address counts.
SetPage(tables, root, va, pa) ==
  LET walk == FoldLeft(Descend, [tables |-> tables, at |-> root],
                       [level \in 1 .. Levels - 1 |-> IndexAt(va, level)])
  IN  [walk.tables EXCEPT ![walk.at][IndexAt(va, Levels)] = pa]

(***************************************************************************)
(* The recursion of collect_pages, and the one of destroy_recursively,     *)
(* level by level: what the valid entries of the tables at one level point *)
(* to, each with the first address it stands for.                          *)
(***************************************************************************)
Below(tables, found, level) ==
  {<<e[1][1] + e[2] * span[level], tables[e[1][2]][e[2]]>> :
     e \in {f \in found \X Index : tables[f[1][2]][f[2]] # Invalid}}

Collect(tables, root, depth) ==
  FoldLeft(LAMBDA found, level : Below(tables, found, level),
           {<<0, root>>}, [level \in 1 .. depth |-> level])

\* get_all_pages, as the set of pairs of an address and a page
GetAllPages(tables, root) == Collect(tables, root, Levels)

TablesOf(tables, root) ==
  UNION {{n[2] : n \in Collect(tables, root, depth)} : depth \in 0 .. Levels - 1}

\* Mutant: the tables below the root stay.
DestroyRoot(tables, root) == [id \in DOMAIN tables \ {root} |-> tables[id]]

\* ~translation_table; the pages themselves are not given back
Destroy(tables, root) ==
  [id \in DOMAIN tables \ TablesOf(tables, root) |-> tables[id]]

-----------------------------------------------------------------------------
(* Pages and address spaces                                                *)

\* A page from alloc(), mapped where the kernel can reach it and at va.
MapNewPage(m, root, va) ==
  LET got == AllocOne(m.freelist)
  IN  [m EXCEPT !.freelist = got.list,
                !.singles = @ \cup {got.addr},
                !.tables = SetPage(SetPage(@, ttkernel, got.addr, got.addr),
                                   root, va, got.addr)]

InOrder(vas) ==
  [i \in 1 .. Cardinality(vas) |->
     CHOOSE va \in vas : Cardinality({w \in vas : w < va}) = i - 1]

MapNewPages(m, root, vas) ==
  FoldLeft(LAMBDA n, va : MapNewPage(n, root, va), m, InOrder(vas))

\* Pages mapped at their own addresses, where the kernel finds them.
MapForKernel(tables, pages) ==
  FoldLeft(LAMBDA t, pa : SetPage(t, ttkernel, pa, pa), tables, pages)

\* Mutant: the loop over the stack's pages ends one too early.
MapStackShort(tables, addr) ==
  MapForKernel(tables, [i \in 1 .. StackPages - 1 |-> addr + i - 1])

\* All pages of a kernel stack are mapped, whether they were allocated or not.
MapStack(tables, addr) ==
  MapForKernel(tables, [i \in 1 .. StackPages |-> addr + i - 1])

(***************************************************************************)
(* What fork and exec make: a kernel stack, and a tree that maps a new     *)
(* page at each of the addresses.                                          *)
(***************************************************************************)
NewSpace(m, vas) ==
  LET got == AllocMany(m.freelist, StackPages)
      mapped == MapStack(m.tables, got.addr)
      root == NewId(mapped)
      begun == [m EXCEPT !.freelist = got.list,
                         !.stacks = @ \cup {got.addr},
                         !.tables = With(mapped, root, Empty)]
  IN  [memory |-> MapNewPages(begun, root, vas), tt |-> root, ksp |-> got.addr]

\* main(): initialize_memory, whose reservations all fail, and /app/init.
Init ==
  LET image == [i \in 1 .. KernelEnd - KernelBegin |-> KernelBegin + i - 1]
      booted ==
        [freelist |-> FoldLeft(AllocSpecificPage, AllMemory, image),
         singles  |-> {},
         stacks   |-> {},
         tables   |-> MapForKernel([id \in {ttkernel} |-> Empty], image)]
  IN  \E size \in BinarySize :
        LET space == NewSpace(booted, Program(size))
        IN  /\ memory = space.memory
            /\ tt = [p \in {0} |-> space.tt]
            /\ ksp = [p \in {0} |-> space.ksp]
            /\ pid_counter = 1

-----------------------------------------------------------------------------
(* System calls and faults                                                 *)

Mapped(p) == {n[1] : n \in GetAllPages(memory.tables, tt[p])}

\* Bound on the kernel's heap.
WithinBound == Cardinality(DOMAIN memory'.tables) <= MaxTables

\* Mutant: the child uses its parent's tables, the destructor and all.
ForkSharingTables(p) ==
  /\ pid_counter \in Pid
  /\ tt' = With(tt, pid_counter, tt[p])
  /\ LET space == NewSpace(memory, {})
     IN  /\ memory' = [space.memory EXCEPT !.tables = Destroy(@, space.tt)]
         /\ ksp' = With(ksp, pid_counter, space.ksp)
  /\ pid_counter' = pid_counter + 1
  /\ WithinBound

\* Mutant: the child gets its parent's pages instead of copies.
ForkSharingPages(p) ==
  /\ pid_counter \in Pid
  /\ LET space == NewSpace(memory, {})
     IN  /\ memory' = [space.memory EXCEPT !.tables =
                         FoldSet(LAMBDA n, t : SetPage(t, space.tt, n[1], n[2]),
                                 @, GetAllPages(memory.tables, tt[p]))]
         /\ tt' = With(tt, pid_counter, space.tt)
         /\ ksp' = With(ksp, pid_counter, space.ksp)
  /\ pid_counter' = pid_counter + 1
  /\ WithinBound

\* fork_current_task
Fork(p) ==
  /\ pid_counter \in Pid
  /\ LET space == NewSpace(memory, Mapped(p))
     IN  /\ memory' = space.memory
         /\ tt' = With(tt, pid_counter, space.tt)
         /\ ksp' = With(ksp, pid_counter, space.ksp)
  /\ pid_counter' = pid_counter + 1
  /\ WithinBound

(***************************************************************************)
(* replace_current_task: the old task_info is neither used nor deleted any *)
(* more, and its tree stays behind.                                        *)
(***************************************************************************)
Exec(p, size) ==
  /\ LET space == NewSpace(memory, Program(size))
     IN  /\ memory' = space.memory
         /\ tt' = [tt EXCEPT ![p] = space.tt]
         /\ ksp' = [ksp EXCEPT ![p] = space.ksp]
  /\ UNCHANGED pid_counter
  /\ WithinBound

\* current_task_exit, which process 0 does not survive: see Kernel
Exit(p) ==
  /\ p # 0
  /\ memory' = [memory EXCEPT !.tables = Destroy(@, tt[p])]
  /\ tt' = [q \in DOMAIN tt \ {p} |-> tt[q]]
  /\ ksp' = [q \in DOMAIN ksp \ {p} |-> ksp[q]]
  /\ UNCHANGED pid_counter

\* kallocate_page
AllocatePage(p, va) ==
  /\ va \in Heap \ Mapped(p)
  /\ memory' = MapNewPage(memory, tt[p], va)
  /\ UNCHANGED <<tt, ksp, pid_counter>>
  /\ WithinBound

\* The call is refused outside of the heap and where a page is mapped.
AllocatePageRefused(p, va) ==
  /\ va \notin Heap \ Mapped(p)
  /\ UNCHANGED vars

\* on_data_abort: a program has touched a page of its stack for the first
\* time.  (A fault anywhere else halts the machine.)
DataAbort(p, va) ==
  /\ va \in Stack \ Mapped(p)
  /\ memory' = MapNewPage(memory, tt[p], va)
  /\ UNCHANGED <<tt, ksp, pid_counter>>
  /\ WithinBound

Next ==
  \E p \in DOMAIN tt :
    \/ Fork(p)
    \/ \E size \in BinarySize : Exec(p, size)
    \/ Exit(p)
    \/ \E va \in Heap : AllocatePage(p, va)
    \/ AllocatePageRefused(p, HEAP_END)
    \/ \E va \in Stack : DataAbort(p, va)

Spec == Init /\ [][Next]_vars

-----------------------------------------------------------------------------
(* Properties                                                              *)

Used == memory.singles \cup memory.stacks

(***************************************************************************)
(* alloc takes the page at the address it returns out of the list, and     *)
(* nothing puts it back.  So every page is in the list or has been         *)
(* returned, and not both; nobody is given a page that was returned to     *)
(* another, and none disappears.  (0, returned when memory is used up, is  *)
(* no page.)  Of a kernel stack this says something of the first page      *)
(* only: alloc(n) takes no more out of the list, and the others are        *)
(* returned again to whoever comes next, see StacksApart.                  *)
(***************************************************************************)
TakenOnce ==
  /\ FreePages(memory.freelist) \cap Used = {}
  /\ memory.singles \cap memory.stacks \subseteq {0}
  /\ Page \subseteq FreePages(memory.freelist) \cup Used

StackOf(addr) == addr .. addr + StackPages - 1

(***************************************************************************)
(* A kernel stack has KERNEL_STACK_SIZE bytes of its own.                  *)
(***************************************************************************)
StacksApart ==
  /\ \A s, t \in memory.stacks \ {0} : s # t => StackOf(s) \cap StackOf(t) = {}
  /\ \A s \in memory.stacks \ {0} : StackOf(s) \cap memory.singles = {}

(***************************************************************************)
(* The kernel finds, at their own addresses, all pages it touches: those   *)
(* of programs, which fork copies through its own mapping, and every page  *)
(* of the stacks it runs on.                                               *)
(***************************************************************************)
KernelSees ==
  LET seen == GetAllPages(memory.tables, ttkernel)
      touched(p) == StackOf(ksp[p])
                      \cup {n[2] : n \in GetAllPages(memory.tables, tt[p])}
  IN  /\ \A n \in seen : n[1] = n[2]
      /\ \A p \in DOMAIN tt : \A page \in touched(p) : <<page, page>> \in seen

(***************************************************************************)
(* No table belongs to two trees, or twice to one, and none that a live    *)
(* process or the kernel uses has been given back to the heap.             *)
(***************************************************************************)
Roots == {ttkernel} \cup Range(tt)

InTrees == UNION {TablesOf(memory.tables, r) : r \in Roots}

TablesApart ==
  /\ TypeOK
  /\ IsInjective(tt) /\ ttkernel \notin Range(tt)
  /\ \A r, s \in Roots : \A i, j \in 0 .. Levels - 1 :
       \A m \in Collect(memory.tables, r, i), n \in Collect(memory.tables, s, j) :
         m[2] = n[2] => r = s /\ i = j /\ m = n
  /\ InTrees \subseteq DOMAIN memory.tables

(***************************************************************************)
(* The kernel's heap loses no table but those exec leaves behind: an exit  *)
(* gives back the whole tree of the process, whatever has been mapped.     *)
(***************************************************************************)
Lost == DOMAIN memory.tables \ InTrees

OnlyExecLeaks ==
  [][Lost' # Lost =>
       \E p \in DOMAIN tt :
         /\ p \in DOMAIN tt' /\ tt'[p] # tt[p]
         /\ Lost' = Lost \cup TablesOf(memory.tables, tt[p])]_vars

(***************************************************************************)
(* The trees implement address spaces that are private to each process.    *)
(***************************************************************************)
SpaceOf(p) ==
  IF p \in DOMAIN tt
  THEN LET pages == GetAllPages(memory.tables, tt[p])
       IN  [va \in {n[1] : n \in pages} |-> (CHOOSE n \in pages : n[1] = va)[2]]
  ELSE << >>

Private == INSTANCE PrivateMemory
             WITH Process <- Pid, First <- 0, NoPage <- 0,
                  Loadable <- {Program(size) : size \in BinarySize},
                  space <- [p \in Pid |-> SpaceOf(p)]

ImplementsPrivateMemory == Private!Spec
=============================================================================
