--------------------------- MODULE HeapAllocator ---------------------------
(***************************************************************************)
(* The heap: the first-fit allocator of libwwos/alloc.cc, and the growing  *)
(* of a program's heap page by page in libwwos/runtime.cc.  (The kernel    *)
(* uses the same allocator on a heap that does not grow.)                  *)
(*                                                                         *)
(* Addresses and sizes are counted in units of 8 bytes, to which allocate  *)
(* rounds them.  The free list is a sequence of chunks, as the links give  *)
(* it, without the sentinel of size 0 at its head.  A block records what   *)
(* its header holds while it is allocated: its size, and, in `next', the   *)
(* chunk it was cut from.  Programs delete what they have allocated, once. *)
(***************************************************************************)
EXTENDS Integers, FiniteSets, SequencesExt

CONSTANTS
  Begin,       \* USERSPACE_HEAP
  PAGE_SIZE,
  Size,        \* sizes asked for
  Align,       \* alignments asked for, powers of 2
  MaxEnd       \* bound: the end of the heap

Header == 2                  \* sizeof(chunk_header)

ASSUME HeapAssumption ==
  /\ Begin \in Nat
  /\ PAGE_SIZE \in Nat /\ PAGE_SIZE > 2 * Header
  /\ MaxEnd \in Nat /\ MaxEnd >= Begin + PAGE_SIZE
  /\ Size \subseteq Nat \ {0} /\ Align \subseteq Nat \ {0}

VARIABLES
  free,        \* the list that begins at head->next
  blocks,      \* what is allocated
  end,         \* begin + size
  halted       \* an assertion has failed, and the program has stopped

heapVars == <<free, blocks, end, halted>>

Chunk == [addr : Nat, size : Nat]

Block == [chunk : Nat, size : Nat, address : Nat]

HeapTypeOK ==
  /\ free \in Seq(Chunk)
  /\ blocks \subseteq Block
  /\ end \in Begin .. MaxEnd
  /\ halted \in BOOLEAN

After(chunk) == chunk.addr + Header + chunk.size

-----------------------------------------------------------------------------
(* allocator::allocate                                                     *)

AlignUp(n, align) == ((n + align - 1) \div align) * align

\* From the chunk's own start to the end of an aligned block of that size.
Need(chunk, size, align) ==
  AlignUp(chunk.addr + Header, align) + size - (chunk.addr + Header)

\* find_chunk: the chunks that are large enough; the first one is taken.
Fitting(list, size, align) ==
  {i \in DOMAIN list : list[i].size >= Need(list[i], size, align)}

Fits(list, size, align) == Fitting(list, size, align) # {}

FindChunk(list, size, align) ==
  CHOOSE i \in Fitting(list, size, align) :
    \A j \in Fitting(list, size, align) : i <= j

\* Mutant: the remainder's header is not paid for.
TakeTooMuch(list, size, align) ==
  LET i == FindChunk(list, size, align)
      chunk == list[i]
      need == Need(chunk, size, align)
  IN  IF chunk.size > need + Header
      THEN [list EXCEPT ![i] = [addr |-> chunk.addr + Header + need,
                                size |-> chunk.size - need]]
      ELSE RemoveAt(list, i)

(***************************************************************************)
(* What is left of the list.  The rest of the chunk stays in it only if it *)
(* is larger than a header; a rest of 1 or 2 units is lost, since the      *)
(* block's size does not count it.                                         *)
(***************************************************************************)
Take(list, size, align) ==
  LET i == FindChunk(list, size, align)
      chunk == list[i]
      need == Need(chunk, size, align)
  IN  IF chunk.size > need + Header
      THEN [list EXCEPT ![i] = [addr |-> chunk.addr + Header + need,
                                size |-> chunk.size - need - Header]]
      ELSE RemoveAt(list, i)

BlockIn(list, size, align) ==
  LET chunk == list[FindChunk(list, size, align)]
  IN  [chunk |-> chunk.addr,
       size |-> Need(chunk, size, align),
       address |-> AlignUp(chunk.addr + Header, align)]

-----------------------------------------------------------------------------
(* allocator::extend and paged_allocator::allocate                         *)

\* Mutant: the last chunk grows, wherever it ends.
ExtendLast(list, new_end) ==
  IF list # << >>
  THEN [list EXCEPT ![Len(list)].size = @ + new_end - end]
  ELSE Append(list, [addr |-> end, size |-> new_end - end - Header])

\* Mutant: the new end is stored before it is used.
ExtendShort(list, new_end) ==
  IF list # << >> /\ After(Last(list)) = end
  THEN [list EXCEPT ![Len(list)].size = @ + new_end - end]
  ELSE Append(list, [addr |-> new_end, size |-> -Header])

Extend(list, new_end) ==
  IF list # << >> /\ After(Last(list)) = end
  THEN [list EXCEPT ![Len(list)].size = @ + new_end - end]
  ELSE Append(list, [addr |-> end, size |-> new_end - end - Header])

\* Mutant: alignment and header are not counted.
PagesForSize(size, align) == (size + PAGE_SIZE - 1) \div PAGE_SIZE

PagesFor(size, align) == (size + align + Header + PAGE_SIZE - 1) \div PAGE_SIZE

HeapInit ==
  /\ free = <<[addr |-> Begin + Header, size |-> PAGE_SIZE - 2 * Header]>>
  /\ blocks = {}
  /\ end = Begin + PAGE_SIZE
  /\ halted = FALSE

New(size, align) ==
  /\ ~halted
  /\ Fits(free, size, align)
  /\ free' = Take(free, size, align)
  /\ blocks' = blocks \cup {BlockIn(free, size, align)}
  /\ UNCHANGED <<end, halted>>

\* operator new asserts that the second attempt succeeds.
NewInGrownHeap(size, align) ==
  LET new_end == end + PagesFor(size, align) * PAGE_SIZE
      grown == Extend(free, new_end)
  IN  /\ ~halted
      /\ ~Fits(free, size, align)
      /\ new_end <= MaxEnd
      /\ end' = new_end
      /\ IF Fits(grown, size, align)
         THEN /\ free' = Take(grown, size, align)
              /\ blocks' = blocks \cup {BlockIn(grown, size, align)}
              /\ UNCHANGED halted
         ELSE free' = grown /\ halted' = TRUE /\ UNCHANGED blocks

-----------------------------------------------------------------------------
(* allocator::deallocate                                                   *)

\* Where in the list the chunks above the block begin.
Place(b) ==
  LET above == {i \in DOMAIN free : free[i].addr > b.chunk}
  IN  IF above = {} THEN Len(free) + 1 ELSE Min(above)

AfterBlock(b) == b.chunk + Header + b.size

\* Whether the block follows the last chunk below it, precedes the next one.
JoinsBelow(b, below) == below # << >> /\ After(Last(below)) = b.chunk

JoinsAbove(b, above) == above # << >> /\ AfterBlock(b) = Head(above).addr

\* Mutant: the header that a merge frees is forgotten.
MergeSizes(b, below, above) ==
  [addr |-> IF JoinsBelow(b, below) THEN Last(below).addr ELSE b.chunk,
   size |-> b.size + (IF JoinsBelow(b, below) THEN Last(below).size ELSE 0)
                   + (IF JoinsAbove(b, above) THEN Head(above).size ELSE 0)]

\* The chunk that the block and the neighbours it joins make up.
Merge(b, below, above) ==
  [addr |-> IF JoinsBelow(b, below) THEN Last(below).addr ELSE b.chunk,
   size |-> b.size
              + (IF JoinsBelow(b, below) THEN Last(below).size + Header ELSE 0)
              + (IF JoinsAbove(b, above) THEN Head(above).size + Header ELSE 0)]

\* Mutant: a chunk that the block joins stays in the list.
InsertBlockOnly(b, below, above) ==
  (IF JoinsBelow(b, below) THEN Front(below) ELSE below)
    \o <<Merge(b, below, above)>> \o above

InsertBlock(b, below, above) ==
  (IF JoinsBelow(b, below) THEN Front(below) ELSE below)
    \o <<Merge(b, below, above)>>
    \o (IF JoinsAbove(b, above) THEN Tail(above) ELSE above)

Delete(b) ==
  LET below == SubSeq(free, 1, Place(b) - 1)
      above == SubSeq(free, Place(b), Len(free))
      overlap == \/ below # << >> /\ After(Last(below)) > b.chunk
                 \/ above # << >> /\ AfterBlock(b) > Head(above).addr
  IN  /\ ~halted
      /\ b \in blocks
      /\ blocks' = blocks \ {b}
      /\ halted' = overlap
      /\ free' = IF overlap THEN free ELSE InsertBlock(b, below, above)
      /\ UNCHANGED end

HeapNext ==
  \/ \E size \in Size, align \in Align : New(size, align)
                                      \/ NewInGrownHeap(size, align)
  \/ \E b \in blocks : Delete(b)

HeapSpec == HeapInit /\ [][HeapNext]_heapVars

-----------------------------------------------------------------------------
(* Properties                                                              *)

Extent(c) == c.addr .. After(c) - 1

ExtentOf(b) == b.chunk .. AfterBlock(b) - 1

(***************************************************************************)
(* No unit of memory has two uses: the free chunks and the blocks, their   *)
(* headers included, lie apart and inside the heap, and what a program is  *)
(* given lies in its block, above the header.                              *)
(***************************************************************************)
Apart ==
  /\ \A i, j \in DOMAIN free : i # j => Extent(free[i]) \cap Extent(free[j]) = {}
  /\ \A b, c \in blocks : b # c => ExtentOf(b) \cap ExtentOf(c) = {}
  /\ \A b \in blocks, i \in DOMAIN free : ExtentOf(b) \cap Extent(free[i]) = {}
  /\ \A i \in DOMAIN free : Extent(free[i]) \subseteq Begin + Header .. end - 1
  /\ \A b \in blocks : /\ ExtentOf(b) \subseteq Begin + Header .. end - 1
                       /\ b.address - Header >= b.chunk
                       /\ b.address < AfterBlock(b)

(***************************************************************************)
(* The free list is in the order of addresses, on which deallocate and     *)
(* extend rely, and coalesced: no two chunks of it touch.                  *)
(***************************************************************************)
Coalesced ==
  \A i, j \in DOMAIN free : i < j => After(free[i]) < free[j].addr

(***************************************************************************)
(* The assertions "memory corrupted" and "Failed to allocate memory" hold: *)
(* blocks can be given back in any order, and the pages that are added are *)
(* enough for the allocation they are added for, whatever its alignment.   *)
(***************************************************************************)
NoAssertionFails == ~halted

(***************************************************************************)
(* Memory leaks by the rests only: a deallocation loses nothing, and an    *)
(* allocation at most the size of a header.                                *)
(***************************************************************************)
HeapLost == (end - Begin - Header)
          - MapThenSumSet(LAMBDA i : free[i].size + Header, DOMAIN free)
          - MapThenSumSet(LAMBDA b : b.size + Header, blocks)

LossBounded ==
  [][/\ HeapLost' - HeapLost \in 0 .. Header
     /\ Cardinality(blocks') < Cardinality(blocks) => HeapLost' = HeapLost]_heapVars
=============================================================================
