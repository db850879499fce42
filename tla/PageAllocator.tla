--------------------------- MODULE PageAllocator ---------------------------
(***************************************************************************)
(* Physical memory: physical_memory_page_allocator of kernel/memory.cc, as *)
(* functions on its list of free memory.  AddressSpaces uses them the way  *)
(* the kernel does.  free() has no caller: nothing is ever given back.     *)
(*                                                                         *)
(* Addresses and sizes are counted in pages.                               *)
(***************************************************************************)
EXTENDS Integers, Sequences, SequencesExt

CONSTANTS
  MEMORY_BEGIN, MEMORY_SIZE,
  KernelBegin, KernelEnd,      \* the kernel's image and its reserved heap
  StackPages                   \* KERNEL_STACK_SIZE / PAGE_SIZE

MemoryEnd == MEMORY_BEGIN + MEMORY_SIZE

Page == MEMORY_BEGIN .. MemoryEnd - 1

KernelImage == KernelBegin .. KernelEnd - 1

ASSUME PageAssumption ==
  /\ MEMORY_BEGIN \in Nat \ {0} /\ MEMORY_SIZE \in Nat \ {0}
  /\ KernelBegin \in Nat /\ KernelEnd \in Nat /\ KernelImage \subseteq Page
  /\ MEMORY_BEGIN \notin KernelImage      \* it begins SIZE_PREKERNEL higher
  /\ StackPages \in Nat \ {0, 1}

Node == [addr : Nat, size : Nat]

NodePages(node) == node.addr .. node.addr + node.size - 1

FreePages(list) == UNION {NodePages(list[i]) : i \in DOMAIN list}

\* What the allocator starts with.
AllMemory == <<[addr |-> MEMORY_BEGIN, size |-> MEMORY_SIZE]>>

-----------------------------------------------------------------------------
(* The allocator.  An operation yields the address, 0 for none, and the    *)
(* list it leaves behind.                                                  *)

\* Mutant: the page taken stays in the node.
AllocOneTwice(list) ==
  IF list = << >> THEN [addr |-> 0, list |-> list]
  ELSE LET node == Last(list)
       IN  [addr |-> node.addr,
            list |-> IF node.size = 1 THEN Front(list)
                     ELSE Append(Front(list), [node EXCEPT !.size = @ - 1])]

\* alloc(1)
AllocOne(list) ==
  IF list = << >> THEN [addr |-> 0, list |-> list]
  ELSE LET node == Last(list)
       IN  [addr |-> node.addr,
            list |-> IF node.size = 1 THEN Front(list)
                     ELSE Append(Front(list),
                                 [addr |-> node.addr + 1, size |-> node.size - 1])]

(***************************************************************************)
(* alloc_specific_page(addr).  The node it looks at is the first one that  *)
(* begins at addr or above, so a page in the middle of a node is not       *)
(* found.  (The branches for a page at the end and in the middle of a node *)
(* cannot be reached while the list has one node.)                         *)
(***************************************************************************)
AllocSpecificPage(list, addr) ==
  LET at == {i \in DOMAIN list : list[i].addr = addr}
  IN  IF at = {} THEN list
      ELSE LET i == CHOOSE j \in at : TRUE
           IN  IF list[i].size = 1 THEN RemoveAt(list, i)
               ELSE [list EXCEPT ![i] = [addr |-> addr + 1, size |-> @.size - 1]]

(***************************************************************************)
(* alloc(n) for n > 1: the first node that has n pages; but only one page  *)
(* of it is taken.                                                         *)
(***************************************************************************)
AllocMany(list, n) ==
  LET fits == {i \in DOMAIN list : list[i].size >= n}
      first == list[CHOOSE i \in fits : \A j \in fits : i <= j].addr
  IN  IF fits = {} THEN [addr |-> 0, list |-> list]
      ELSE [addr |-> first, list |-> AllocSpecificPage(list, first)]
=============================================================================
