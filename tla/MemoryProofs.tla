----------------------------- MODULE MemoryProofs -----------------------------
(***************************************************************************)
(* Memory, for constants of every size.  First the kernel's heap: no two   *)
(* of its blocks overlap, free chunks that touch are merged, and no        *)
(* assertion of it fails.  Then the pages and the trees of tables that are *)
(* made of them: TakenOnce, KernelSees, TablesApart and OnlyExecLeaks      *)
(* hold, and the trees implement PrivateMemory.                            *)
(***************************************************************************)
EXTENDS HeapAllocator, AddressSpaces, ListLemmas

(***************************************************************************)
(* The invariant in terms of bounds instead of sets of addresses.  Without *)
(* the blocks it would not be inductive: what deallocate links in is free  *)
(* only because no chunk or block has been cut from the same memory.       *)
(***************************************************************************)
ClearOfChunk(b, c) == AfterBlock(b) <= c.addr \/ After(c) <= b.chunk

ClearOfBlock(b, c) == AfterBlock(b) <= c.chunk \/ AfterBlock(c) <= b.chunk

SoundList(list, bs, e) ==
  /\ list \in Seq(Chunk)
  /\ \A i, j \in DOMAIN list : i < j => After(list[i]) < list[j].addr
  /\ \A i \in DOMAIN list : Begin + Header <= list[i].addr /\ After(list[i]) <= e
  /\ \A b \in bs, i \in DOMAIN list : ClearOfChunk(b, list[i])

SoundBlocks(bs, e) ==
  /\ bs \subseteq Block
  /\ \A b \in bs : /\ Begin + Header <= b.chunk /\ AfterBlock(b) <= e
                   /\ b.chunk + Header <= b.address /\ b.address < AfterBlock(b)
  /\ \A b, c \in bs : b # c => ClearOfBlock(b, c)

IInv ==
  /\ end \in Begin + PAGE_SIZE .. MaxEnd
  /\ halted = FALSE
  /\ SoundList(free, blocks, end)
  /\ SoundBlocks(blocks, end)

-----------------------------------------------------------------------------
(* Arithmetic                                                              *)

LEMMA DivisionBounds ==
  ASSUME NEW n \in Nat, NEW d \in Nat \ {0}
  PROVE  /\ n \div d \in Nat
         /\ (n \div d) * d <= n
         /\ n < (n \div d) * d + d
<1>1. n \div d \in Int /\ n = d * (n \div d) + (n % d) /\ n % d \in 0 .. d - 1
  OBVIOUS
<1> QED
  BY <1>1

LEMMA AlignUpBounds ==
  ASSUME NEW n \in Nat, NEW align \in Nat \ {0}
  PROVE  /\ AlignUp(n, align) \in Nat
         /\ n <= AlignUp(n, align)
         /\ AlignUp(n, align) <= n + align - 1
<1> DEFINE up == n + align - 1
           q == (up \div align) * align
<1>1. up \in Nat
  OBVIOUS
<1>2. up \div align \in Nat /\ q <= up /\ up < q + align
  BY <1>1, DivisionBounds
<1>3. q \in Nat
  BY <1>2
<1>4. AlignUp(n, align) = q
  BY DEF AlignUp
<1> HIDE DEF q
<1> QED
  BY <1>2, <1>3, <1>4

LEMMA PagesForBounds ==
  ASSUME NEW size \in Nat, NEW align \in Nat
  PROVE  /\ PagesFor(size, align) * PAGE_SIZE \in Nat
         /\ size + align + Header <= PagesFor(size, align) * PAGE_SIZE
<1> DEFINE up == size + align + Header + PAGE_SIZE - 1
           q == (up \div PAGE_SIZE) * PAGE_SIZE
<1>1. up \in Nat /\ PAGE_SIZE \in Nat \ {0}
  BY HeapAssumption DEF Header
<1> HIDE DEF up
<1>2. up \div PAGE_SIZE \in Nat /\ q <= up /\ up < q + PAGE_SIZE
  BY <1>1, DivisionBounds
<1>3. q \in Nat
  BY <1>1, <1>2
<1>4. PagesFor(size, align) * PAGE_SIZE = q
  BY DEF PagesFor, up
<1> HIDE DEF q
<1> QED
  BY <1>1, <1>2, <1>3, <1>4 DEF up, Header

\* The room an allocation needs in a chunk.
LEMMA NeedBounds ==
  ASSUME NEW c \in Chunk, NEW size \in Nat, NEW align \in Nat \ {0}
  PROVE  /\ Need(c, size, align) \in Nat
         /\ size <= Need(c, size, align)
         /\ Need(c, size, align) <= size + align - 1
         /\ AlignUp(c.addr + Header, align) \in Nat
         /\ c.addr + Header <= AlignUp(c.addr + Header, align)
         /\ AlignUp(c.addr + Header, align) + size
              = c.addr + Header + Need(c, size, align)
<1>1. c.addr + Header \in Nat
  BY DEF Chunk, Header
<1> DEFINE a == c.addr + Header
           u == AlignUp(a, align)
<1>2. u \in Nat /\ a <= u /\ u <= a + align - 1
  BY <1>1, AlignUpBounds
<1>3. Need(c, size, align) = u + size - a
  BY DEF Need
<1> HIDE DEF a, u
<1>4. a \in Nat
  BY <1>1 DEF a
<1>5. /\ u + size - a \in Nat /\ size <= u + size - a /\ u + size - a <= size + align - 1
      /\ u + size = a + (u + size - a)
  BY <1>2, <1>4
<1> QED
  BY <1>2, <1>3, <1>5 DEF a, u

-----------------------------------------------------------------------------
(* allocate                                                                *)

LEMMA FindChunkFits ==
  ASSUME NEW list \in Seq(Chunk), NEW size, NEW align, Fits(list, size, align)
  PROVE  /\ FindChunk(list, size, align) \in DOMAIN list
         /\ list[FindChunk(list, size, align)].size
              >= Need(list[FindChunk(list, size, align)], size, align)
<1> DEFINE S == Fitting(list, size, align)
<1>1. S # {} /\ S \subseteq DOMAIN list
  BY DEF Fits, Fitting
<1>2. S \subseteq Nat
  BY <1>1
<1>3. Min(S) \in S /\ \A j \in S : Min(S) <= j
  BY <1>1, <1>2, MinProperties
<1>4. FindChunk(list, size, align) \in S
  <2>1. \E i \in S : \A j \in S : i <= j
    BY <1>3
  <2> QED BY <2>1 DEF FindChunk
<1> QED
  BY <1>4 DEF Fitting

\* A chunk gives up its front to a block, and its rest stays in the list.
LEMMA SplitSound ==
  ASSUME NEW list, NEW bs \in SUBSET Block, NEW e \in Int, SoundList(list, bs, e),
         NEW i \in DOMAIN list, NEW r \in Chunk, NEW b \in Block,
         b.chunk = list[i].addr, AfterBlock(b) <= r.addr, After(r) = After(list[i])
  PROVE  SoundList([list EXCEPT ![i] = r], bs \cup {b}, e)
<1> DEFINE t == [list EXCEPT ![i] = r]
<1>1. /\ list \in Seq(Chunk) /\ i \in 1 .. Len(list) /\ DOMAIN list = 1 .. Len(list)
      /\ list[i] \in Chunk
  BY DEF SoundList
<1>2. t \in Seq(Chunk) /\ Len(t) = Len(list)
      /\ \A j \in 1 .. Len(list) : t[j] = IF j = i THEN r ELSE list[j]
  BY <1>1, ExceptSeq
<1> HIDE DEF t
<1>3. DOMAIN t = DOMAIN list /\ \A j \in DOMAIN list : t[j] = IF j = i THEN r ELSE list[j]
  BY <1>1, <1>2
<1>4. list[i].addr <= r.addr
  BY <1>1 DEF Block, Chunk, AfterBlock, Header
<1>5. \A j \in DOMAIN list : /\ t[j] \in Chunk /\ list[j] \in Chunk
                             /\ list[j].addr <= t[j].addr /\ After(t[j]) = After(list[j])
  <2> SUFFICES ASSUME NEW j \in DOMAIN list
               PROVE  /\ t[j] \in Chunk /\ list[j] \in Chunk
                      /\ list[j].addr <= t[j].addr /\ After(t[j]) = After(list[j])
    OBVIOUS
  <2>1. list[j] \in Chunk
    BY <1>1
  <2>4. list[j].addr \in Nat
    BY <2>1 DEF Chunk
  <2>2. CASE j = i
    BY <1>3, <1>4, <2>1, <2>2
  <2>3. CASE j # i
    <3>1. t[j] = list[j]
      BY <1>3, <2>3
    <3> QED BY <2>1, <2>4, <3>1
  <2> QED BY <2>2, <2>3
<1>6. \A c \in Chunk : c.addr \in Nat /\ After(c) \in Nat
  BY DEF Chunk, After, Header
<1>7. \A j, k \in DOMAIN t : j < k => After(t[j]) < t[k].addr
  <2> SUFFICES ASSUME NEW j \in DOMAIN t, NEW k \in DOMAIN t, j < k
               PROVE  After(t[j]) < t[k].addr
    OBVIOUS
  <2>1. After(list[j]) < list[k].addr
    BY <1>3 DEF SoundList
  <2> QED BY <1>3, <1>5, <1>6, <2>1
<1>8. \A j \in DOMAIN t : Begin + Header <= t[j].addr /\ After(t[j]) <= e
  <2> SUFFICES ASSUME NEW j \in DOMAIN t
               PROVE  Begin + Header <= t[j].addr /\ After(t[j]) <= e
    OBVIOUS
  <2>1. Begin + Header <= list[j].addr /\ After(list[j]) <= e
    BY <1>3 DEF SoundList
  <2>2. Begin + Header \in Nat
    BY HeapAssumption DEF Header
  <2> QED BY <1>3, <1>5, <1>6, <2>1, <2>2
<1>9. \A c \in bs, j \in DOMAIN t : AfterBlock(c) <= list[j].addr \/ After(list[j]) <= c.chunk
  BY <1>3 DEF SoundList, ClearOfChunk
<1>10. AfterBlock(b) \in Nat /\ b.chunk \in Nat
  BY DEF Block, AfterBlock, Header
<1>11. ASSUME NEW j \in DOMAIN t
       PROVE  ClearOfChunk(b, t[j])
  <2>1. CASE j = i
    BY <1>3, <2>1 DEF ClearOfChunk
  <2>2. CASE j < i
    <3>1. After(list[j]) < list[i].addr
      BY <1>3, <2>2 DEF SoundList
    <3> QED BY <1>3, <1>5, <1>6, <1>10, <3>1 DEF ClearOfChunk
  <2>3. CASE j > i
    <3>1. After(t[i]) < t[j].addr /\ t[i] = r
      BY <1>3, <1>7, <2>3
    <3>2. r.addr <= After(r)
      BY DEF Chunk, After, Header
    <3> QED BY <1>3, <1>5, <1>6, <1>10, <3>1, <3>2 DEF ClearOfChunk
  <2> QED BY <1>1, <1>3, <2>1, <2>2, <2>3
<1>12. ASSUME NEW c \in bs, NEW j \in DOMAIN t
       PROVE  ClearOfChunk(c, t[j])
  <2>1. AfterBlock(c) \in Nat /\ c.chunk \in Nat
    BY DEF Block, AfterBlock, Header
  <2> QED BY <1>3, <1>5, <1>6, <1>9, <2>1 DEF ClearOfChunk
<1>13. \A c \in bs \cup {b}, j \in DOMAIN t : ClearOfChunk(c, t[j])
  BY <1>11, <1>12
<1> QED
  BY <1>2, <1>7, <1>8, <1>13 DEF SoundList, t

\* A chunk becomes a block.
LEMMA RemoveSound ==
  ASSUME NEW list, NEW bs \in SUBSET Block, NEW e \in Int, SoundList(list, bs, e),
         NEW i \in DOMAIN list, NEW b \in Block,
         b.chunk = list[i].addr, AfterBlock(b) <= After(list[i])
  PROVE  SoundList(RemoveAt(list, i), bs \cup {b}, e)
<1> DEFINE t == RemoveAt(list, i)
           old(j) == IF j < i THEN j ELSE j + 1
<1>1. /\ list \in Seq(Chunk) /\ i \in 1 .. Len(list) /\ DOMAIN list = 1 .. Len(list)
      /\ Len(list) \in Nat
  BY DEF SoundList
<1>2. /\ t \in Seq(Chunk) /\ Len(t) = Len(list) - 1
      /\ \A j \in 1 .. Len(list) - 1 : t[j] = IF j < i THEN list[j] ELSE list[j + 1]
  BY <1>1, RemoveAtElements
<1> HIDE DEF t
<1>3. DOMAIN t = 1 .. Len(list) - 1
  BY <1>2
<1>4. \A j \in DOMAIN t : /\ old(j) \in DOMAIN list /\ t[j] = list[old(j)]
                          /\ old(j) < i \/ i < old(j)
  BY <1>1, <1>2, <1>3
<1>5. \A j, k \in DOMAIN t : j < k => old(j) < old(k)
  BY <1>1, <1>3
<1> HIDE DEF old
<1>6. \A c \in Chunk : c.addr \in Nat /\ After(c) \in Nat /\ c.addr < After(c)
  BY DEF Chunk, After, Header
<1>7. AfterBlock(b) \in Nat /\ b.chunk \in Nat
  BY DEF Block, AfterBlock, Header
<1>8. ASSUME NEW j \in DOMAIN t
      PROVE  ClearOfChunk(b, t[j])
  <2>1. list[i] \in Chunk /\ list[old(j)] \in Chunk
    BY <1>1, <1>4
  <2>2. CASE old(j) < i
    <3>1. After(list[old(j)]) < list[i].addr
      BY <1>4, <2>2 DEF SoundList
    <3> QED BY <1>4, <1>6, <1>7, <2>1, <3>1 DEF ClearOfChunk
  <2>3. CASE i < old(j)
    <3>1. After(list[i]) < list[old(j)].addr
      BY <1>4, <2>3 DEF SoundList
    <3> QED BY <1>4, <1>6, <1>7, <2>1, <3>1 DEF ClearOfChunk
  <2> QED BY <1>4, <2>2, <2>3
<1>9. \A j, k \in DOMAIN t : j < k => After(t[j]) < t[k].addr
  BY <1>4, <1>5 DEF SoundList
<1>10. \A j \in DOMAIN t : Begin + Header <= t[j].addr /\ After(t[j]) <= e
  BY <1>4 DEF SoundList
<1>11. \A c \in bs \cup {b}, j \in DOMAIN t : ClearOfChunk(c, t[j])
  BY <1>4, <1>8 DEF SoundList
<1> QED
  BY <1>2, <1>9, <1>10, <1>11 DEF SoundList, t

(***************************************************************************)
(* The memory of a new block comes out of the chunk that is taken.         *)
(***************************************************************************)
LEMMA TakeSound ==
  ASSUME NEW list, NEW bs, NEW e \in Int, SoundList(list, bs, e), SoundBlocks(bs, e),
         NEW size \in Nat \ {0}, NEW align \in Nat \ {0}, Fits(list, size, align)
  PROVE  /\ SoundList(Take(list, size, align), bs \cup {BlockIn(list, size, align)}, e)
         /\ SoundBlocks(bs \cup {BlockIn(list, size, align)}, e)
<1> DEFINE i == FindChunk(list, size, align)
           c == list[i]
           need == Need(c, size, align)
           u == AlignUp(c.addr + Header, align)
           b == BlockIn(list, size, align)
           r == [addr |-> c.addr + Header + need, size |-> c.size - need - Header]
<1>1. list \in Seq(Chunk) /\ bs \in SUBSET Block
  BY DEF SoundList, SoundBlocks
<1>2. i \in DOMAIN list /\ c.size >= need
  BY <1>1, FindChunkFits
<1>3. c \in Chunk
  BY <1>1, <1>2
<1>4. /\ need \in Nat /\ size <= need /\ u \in Nat /\ c.addr + Header <= u
      /\ u + size = c.addr + Header + need
  <2> HIDE DEF c
  <2> QED BY <1>3, NeedBounds
<1>5. b = [chunk |-> c.addr, size |-> need, address |-> u]
  BY DEF BlockIn
<1>6. Take(list, size, align) = IF c.size > need + Header
                                THEN [list EXCEPT ![i] = r] ELSE RemoveAt(list, i)
  BY DEF Take
<1> HIDE DEF i, need, u, b
<1>7. c.addr \in Nat /\ c.size \in Nat
  BY <1>3 DEF Chunk
<1>8. After(c) = c.addr + Header + c.size
  BY DEF After
<1>9. /\ b \in Block /\ b.chunk = c.addr /\ b.address = u
      /\ AfterBlock(b) = c.addr + Header + need
  BY <1>4, <1>5, <1>7 DEF Block, AfterBlock
<1>10. AfterBlock(b) <= After(c)
  BY <1>2, <1>4, <1>7, <1>8, <1>9 DEF Header
<1>11. ASSUME c.size > need + Header
       PROVE  SoundList([list EXCEPT ![i] = r], bs \cup {b}, e)
  <2>1. r \in Chunk /\ r.addr = AfterBlock(b)
    BY <1>4, <1>7, <1>9, <1>11 DEF Chunk, Header
  <2>2. After(r) = After(c)
    BY <1>4, <1>7, <1>8 DEF After, Header
  <2>3. AfterBlock(b) <= r.addr
    BY <1>4, <1>7, <1>9, <2>1 DEF Header
  <2> HIDE DEF r
  <2> QED BY <1>1, <1>2, <1>9, <2>1, <2>2, <2>3, SplitSound
<1>12. SoundList(RemoveAt(list, i), bs \cup {b}, e)
  BY <1>1, <1>2, <1>9, <1>10, RemoveSound
<1>13. \A d \in bs : ClearOfBlock(b, d) /\ ClearOfBlock(d, b)
  <2> SUFFICES ASSUME NEW d \in bs PROVE ClearOfBlock(b, d) /\ ClearOfBlock(d, b)
    OBVIOUS
  <2>1. AfterBlock(d) <= c.addr \/ After(c) <= d.chunk
    BY <1>2 DEF SoundList, ClearOfChunk
  <2>2. d.chunk \in Nat /\ AfterBlock(d) \in Nat
    BY <1>1 DEF Block, AfterBlock, Header
  <2>3. AfterBlock(b) \in Nat /\ After(c) \in Nat
    BY <1>4, <1>7, <1>8, <1>9 DEF Header
  <2> QED BY <1>7, <1>9, <1>10, <2>1, <2>2, <2>3 DEF ClearOfBlock
<1>14. /\ Begin + Header <= b.chunk /\ AfterBlock(b) <= e
       /\ b.chunk + Header <= b.address /\ b.address < AfterBlock(b)
  <2>1. Begin + Header <= c.addr /\ After(c) <= e
    BY <1>2 DEF SoundList
  <2>2. u < c.addr + Header + need
    BY <1>4, <1>7 DEF Header
  <2>3. AfterBlock(b) \in Nat /\ After(c) \in Nat
    BY <1>4, <1>7, <1>8, <1>9 DEF Header
  <2> QED BY <1>4, <1>9, <1>10, <2>1, <2>2, <2>3
<1>15. SoundBlocks(bs \cup {b}, e)
  BY <1>9, <1>13, <1>14 DEF SoundBlocks
<1>16. SoundList(Take(list, size, align), bs \cup {b}, e)
  BY <1>6, <1>11, <1>12
<1> QED
  BY <1>15, <1>16 DEF b

-----------------------------------------------------------------------------
(* extend                                                                  *)

LEMMA ExtendSound ==
  ASSUME NEW list, NEW bs, SoundList(list, bs, end), SoundBlocks(bs, end),
         end \in Nat, Begin + Header <= end, NEW n \in Nat, end + Header <= n
  PROVE  /\ SoundList(Extend(list, n), bs, n)
         /\ SoundBlocks(bs, n)
         /\ \E i \in DOMAIN Extend(list, n) : Extend(list, n)[i].size >= n - end - Header
<1>1. /\ list \in Seq(Chunk) /\ DOMAIN list = 1 .. Len(list) /\ Len(list) \in Nat
      /\ \A i \in DOMAIN list : list[i] \in Chunk
  BY DEF SoundList
<1>2. \A c \in Chunk : /\ c.addr \in Nat /\ c.size \in Nat
                       /\ After(c) = c.addr + 2 + c.size
  BY DEF Chunk, After, Header
<1>3. \A b \in bs : /\ b.chunk \in Nat /\ AfterBlock(b) \in Nat
                    /\ b.chunk <= AfterBlock(b) /\ AfterBlock(b) <= end
  <2> SUFFICES ASSUME NEW b \in bs
               PROVE  /\ b.chunk \in Nat /\ AfterBlock(b) \in Nat
                      /\ b.chunk <= AfterBlock(b) /\ AfterBlock(b) <= end
    OBVIOUS
  <2>1. b \in Block /\ AfterBlock(b) <= end
    BY DEF SoundBlocks
  <2> QED BY <2>1 DEF Block, AfterBlock, Header
<1>4. SoundBlocks(bs, n)
  <2>1. \A b \in bs : AfterBlock(b) <= n
    BY <1>3 DEF Header
  <2> QED BY <2>1 DEF SoundBlocks
<1>5. \A i \in DOMAIN list : After(list[i]) <= end /\ Begin + Header <= list[i].addr
  BY DEF SoundList
<1>6. CASE list # << >> /\ After(Last(list)) = end
  <2> DEFINE k == Len(list)
             c == list[k]
             r == [c EXCEPT !.size = @ + n - end]
             t == [list EXCEPT ![k] = r]
  <2>1. k \in DOMAIN list /\ c \in Chunk /\ After(c) = end
    BY <1>1, <1>6 DEF Last
  <2>2. Extend(list, n) = t
    BY <1>6 DEF Extend
  <2>3. r \in Chunk /\ r.addr = c.addr /\ r.size >= n - end - Header /\ After(r) = n
    <3> HIDE DEF c
    <3>1. c \in Chunk /\ c.addr \in Nat /\ c.size \in Nat /\ c.addr + 2 + c.size = end
      BY <1>2, <2>1
    <3>2. r.addr = c.addr /\ r.size = c.size + n - end
      BY <3>1 DEF Chunk
    <3>3. r.size \in Nat
      BY <3>1, <3>2 DEF Header
    <3>4. r \in Chunk
      BY <3>1, <3>2, <3>3 DEF Chunk
    <3> HIDE DEF r
    <3>5. r.size >= n - end - Header /\ After(r) = n
      BY <3>1, <3>2 DEF After, Header
    <3> QED BY <3>2, <3>4, <3>5
  <2>4. t \in Seq(Chunk) /\ DOMAIN t = DOMAIN list
        /\ \A j \in DOMAIN list : t[j] = IF j = k THEN r ELSE list[j]
    <3> HIDE DEF r
    <3> QED BY <1>1, <2>1, <2>3, ExceptSeq
  <2> HIDE DEF t, r, k
  <2>5. \A j \in DOMAIN list : j <= k
    BY <1>1 DEF k
  <2>6. \A i, j \in DOMAIN t : i < j => After(t[i]) < t[j].addr
    <3> SUFFICES ASSUME NEW i \in DOMAIN list, NEW j \in DOMAIN list, i < j
                 PROVE  After(t[i]) < t[j].addr
      BY <2>4
    <3>1. After(list[i]) < list[j].addr
      BY DEF SoundList
    <3>2. i # k
      BY <1>1, <2>1, <2>5
    <3> QED BY <2>3, <2>4, <3>1, <3>2
  <2>7. \A j \in DOMAIN t : Begin + Header <= t[j].addr /\ After(t[j]) <= n
    <3> SUFFICES ASSUME NEW j \in DOMAIN list
                 PROVE  Begin + Header <= t[j].addr /\ After(t[j]) <= n
      BY <2>4
    <3>1. CASE j = k
      BY <1>5, <2>1, <2>3, <2>4, <3>1
    <3>2. CASE j # k
      <4>1. t[j] = list[j] /\ list[j] \in Chunk
        BY <1>1, <2>4, <3>2
      <4>2. After(list[j]) \in Nat
        BY <1>2, <4>1
      <4> QED BY <1>5, <4>1, <4>2 DEF Header
    <3> QED BY <3>1, <3>2
  <2>8. \A b \in bs, j \in DOMAIN t : ClearOfChunk(b, t[j])
    <3> SUFFICES ASSUME NEW b \in bs, NEW j \in DOMAIN list PROVE ClearOfChunk(b, t[j])
      BY <2>4
    <3>1. ClearOfChunk(b, list[j])
      BY DEF SoundList
    <3>2. CASE j = k
      <4>1. AfterBlock(b) <= c.addr \/ end <= b.chunk
        BY <2>1, <3>1, <3>2 DEF ClearOfChunk, k
      <4>2. ~(end <= b.chunk)
        <5>1. b.chunk < AfterBlock(b)
          BY <1>3 DEF SoundBlocks, Block, AfterBlock, Header
        <5> QED BY <1>3, <5>1
      <4> QED BY <2>3, <2>4, <3>2, <4>1, <4>2 DEF ClearOfChunk
    <3>3. CASE j # k
      BY <2>4, <3>1, <3>3
    <3> QED BY <3>2, <3>3
  <2>9. k \in DOMAIN t /\ t[k].size >= n - end - Header
    BY <2>1, <2>3, <2>4
  <2> QED
    BY <1>4, <2>2, <2>4, <2>6, <2>7, <2>8, <2>9 DEF SoundList
<1>7. CASE ~(list # << >> /\ After(Last(list)) = end)
  <2> DEFINE k == Len(list) + 1
             r == [addr |-> end, size |-> n - end - Header]
             t == Append(list, r)
  <2>1. Extend(list, n) = t
    BY <1>7 DEF Extend
  <2>2. r \in Chunk /\ r.addr = end /\ r.size = n - end - Header /\ After(r) = n
    BY DEF Chunk, After, Header
  <2> HIDE DEF r
  <2>3. t \in Seq(Chunk) /\ Len(t) = k /\ t[k] = r
        /\ \A j \in 1 .. Len(list) : t[j] = list[j]
    BY <1>1, <2>2, AppendProperties
  <2>4. /\ DOMAIN t = 1 .. k
        /\ \A j \in DOMAIN t : j = k \/ (j \in DOMAIN list /\ j < k /\ t[j] = list[j])
    BY <1>1, <2>3
  <2>5. k \in Nat /\ \A j \in DOMAIN t : j <= k
    BY <1>1, <2>4
  <2> HIDE DEF t
  <2>6. \A j \in DOMAIN list : After(list[j]) < end
    <3> SUFFICES ASSUME NEW j \in DOMAIN list PROVE After(list[j]) < end
      OBVIOUS
    <3> DEFINE l == Len(list)
    <3>1. l \in DOMAIN list /\ list # << >> /\ Last(list) = list[l]
      BY <1>1 DEF Last
    <3>2. After(list[l]) # end /\ After(list[l]) <= end /\ After(list[l]) \in Nat
      BY <1>1, <1>2, <1>5, <1>7, <3>1, SMTT(30)
    <3>3. CASE j = l
      BY <3>2, <3>3
    <3>4. CASE j < l
      <4>1. After(list[j]) < list[l].addr
        BY <3>1, <3>4 DEF SoundList
      <4>2. list[l].addr <= After(list[l]) /\ list[l].addr \in Nat /\ After(list[j]) \in Nat
        BY <1>1, <1>2, <3>1, SMTT(30)
      <4> QED BY <3>2, <4>1, <4>2
    <3> QED BY <1>1, <3>3, <3>4
  <2>7. \A i, j \in DOMAIN t : i < j => After(t[i]) < t[j].addr
    <3> SUFFICES ASSUME NEW i \in DOMAIN t, NEW j \in DOMAIN t, i < j
                 PROVE  After(t[i]) < t[j].addr
      OBVIOUS
    <3>1. i \in DOMAIN list /\ t[i] = list[i]
      BY <2>4, <2>5
    <3>2. CASE j = k
      BY <2>2, <2>3, <2>6, <3>1, <3>2
    <3>3. CASE j # k
      BY <2>4, <3>1, <3>3 DEF SoundList
    <3> QED BY <3>2, <3>3
  <2>8. \A j \in DOMAIN t : Begin + Header <= t[j].addr /\ After(t[j]) <= n
    <3> SUFFICES ASSUME NEW j \in DOMAIN t
                 PROVE  Begin + Header <= t[j].addr /\ After(t[j]) <= n
      OBVIOUS
    <3>1. CASE j = k
      BY <2>2, <2>3, <3>1
    <3>2. CASE j # k
      <4>1. t[j] = list[j] /\ list[j] \in Chunk /\ j \in DOMAIN list
        BY <1>1, <2>4, <3>2
      <4>2. After(list[j]) \in Nat
        BY <1>2, <4>1
      <4> QED BY <1>5, <4>1, <4>2 DEF Header
    <3> QED BY <3>1, <3>2
  <2>9. \A b \in bs, j \in DOMAIN t : ClearOfChunk(b, t[j])
    <3> SUFFICES ASSUME NEW b \in bs, NEW j \in DOMAIN t PROVE ClearOfChunk(b, t[j])
      OBVIOUS
    <3>1. CASE j = k
      BY <1>3, <2>2, <2>3, <3>1 DEF ClearOfChunk
    <3>2. CASE j # k
      BY <2>4, <3>2 DEF SoundList
    <3> QED BY <3>1, <3>2
  <2>10. k \in DOMAIN t /\ t[k].size >= n - end - Header
    BY <2>2, <2>3, <2>4, <2>5 DEF Header
  <2> QED
    BY <1>4, <2>1, <2>3, <2>7, <2>8, <2>9, <2>10 DEF SoundList
<1> QED
  BY <1>6, <1>7

\* The pages that are added are enough.
LEMMA GrownFits ==
  ASSUME NEW list \in Seq(Chunk), NEW size \in Nat \ {0}, NEW align \in Nat \ {0},
         NEW room \in Int, size + align <= room,
         \E i \in DOMAIN list : list[i].size >= room
  PROVE  Fits(list, size, align)
<1>1. PICK i \in DOMAIN list : list[i].size >= room
  OBVIOUS
<1>2. list[i] \in Chunk
  OBVIOUS
<1> DEFINE c == list[i]
<1>3. c \in Chunk /\ c.size >= room /\ c.size \in Nat
  BY <1>1, <1>2 DEF Chunk
<1> HIDE DEF c
<1>4. Need(c, size, align) \in Nat /\ Need(c, size, align) <= size + align - 1
  BY <1>3, NeedBounds
<1>5. c.size >= Need(c, size, align)
  BY <1>3, <1>4
<1> QED
  BY <1>5 DEF Fits, Fitting, c

-----------------------------------------------------------------------------
(* deallocate                                                              *)

\* The chunks before the place lie below the block, the others above it.
LEMMA PlaceProperties ==
  ASSUME SoundList(free, blocks, end), blocks \subseteq Block, NEW b \in blocks
  PROVE  /\ Place(b) \in 1 .. Len(free) + 1
         /\ \A j \in DOMAIN free : j < Place(b) => After(free[j]) <= b.chunk
         /\ \A j \in DOMAIN free : Place(b) <= j => AfterBlock(b) <= free[j].addr
<1> DEFINE above == {i \in DOMAIN free : free[i].addr > b.chunk}
           p == Place(b)
<1>1. /\ free \in Seq(Chunk) /\ DOMAIN free = 1 .. Len(free) /\ Len(free) \in Nat
      /\ \A i \in DOMAIN free : free[i] \in Chunk
  BY DEF SoundList
<1>2. \A i \in DOMAIN free : /\ free[i].addr \in Nat /\ After(free[i]) \in Nat
                             /\ free[i].addr < After(free[i])
  BY <1>1 DEF Chunk, After, Header
<1>3. b.chunk \in Nat /\ AfterBlock(b) \in Nat /\ b.chunk < AfterBlock(b)
  BY DEF Block, AfterBlock, Header
<1>4. \A i, j \in DOMAIN free : i < j => free[i].addr < free[j].addr
  <2> SUFFICES ASSUME NEW i \in DOMAIN free, NEW j \in DOMAIN free, i < j
               PROVE  free[i].addr < free[j].addr
    OBVIOUS
  <2>1. After(free[i]) < free[j].addr
    BY DEF SoundList
  <2> QED BY <1>2, <2>1
<1>5. /\ p \in 1 .. Len(free) + 1
      /\ \A j \in DOMAIN free : j < p => free[j].addr <= b.chunk
      /\ \A j \in DOMAIN free : p <= j => b.chunk < free[j].addr
  <2>1. CASE above = {}
    <3>1. p = Len(free) + 1
      BY <2>1 DEF Place
    <3>2. \A j \in DOMAIN free : free[j].addr <= b.chunk
      BY <1>2, <1>3, <2>1
    <3> QED BY <1>1, <3>1, <3>2
  <2>2. CASE above # {}
    <3>1. p = Min(above)
      BY <2>2 DEF Place
    <3>2. above \subseteq Nat
      BY <1>1
    <3>3. p \in above /\ \A y \in above : p <= y
      BY <2>2, <3>1, <3>2, MinProperties
    <3> HIDE DEF p
    <3>4. p \in DOMAIN free /\ b.chunk < free[p].addr
      BY <3>3
    <3>5. \A j \in DOMAIN free : j \in above \/ free[j].addr <= b.chunk
      BY <1>2, <1>3
    <3>6. ASSUME NEW j \in DOMAIN free, j < p
          PROVE  free[j].addr <= b.chunk
      <4> HIDE DEF above
      <4> QED BY <1>1, <3>3, <3>4, <3>5, <3>6
    <3>7. ASSUME NEW j \in DOMAIN free, p <= j
          PROVE  b.chunk < free[j].addr
      <4>1. j = p \/ free[p].addr < free[j].addr
        BY <1>1, <1>4, <3>4, <3>7
      <4> QED BY <1>2, <1>3, <3>4, <4>1
    <3> QED BY <1>1, <3>4, <3>6, <3>7
  <2> QED BY <2>1, <2>2
<1> HIDE DEF p
<1>6. \A j \in DOMAIN free : AfterBlock(b) <= free[j].addr \/ After(free[j]) <= b.chunk
  BY DEF SoundList, ClearOfChunk
<1>7. \A j \in DOMAIN free : j < p => After(free[j]) <= b.chunk
  BY <1>2, <1>3, <1>5, <1>6
<1>8. \A j \in DOMAIN free : p <= j => AfterBlock(b) <= free[j].addr
  BY <1>2, <1>3, <1>5, <1>6
<1> QED
  BY <1>5, <1>7, <1>8 DEF p

(***************************************************************************)
(* A list in which the chunks between positions l and r give way to one    *)
(* chunk m is sound if m lies between its new neighbours and clear of the  *)
(* blocks.                                                                 *)
(***************************************************************************)
LEMMA SpliceSound ==
  ASSUME NEW list, NEW bs, NEW bs2 \in SUBSET bs, NEW e \in Int, SoundList(list, bs, e),
         NEW l \in 0 .. Len(list), NEW r \in 1 .. Len(list) + 1, l < r,
         NEW front \in Seq(Chunk), Len(front) = l,
         \A j \in 1 .. l : front[j] = list[j],
         NEW back \in Seq(Chunk), Len(back) = Len(list) + 1 - r,
         \A j \in 1 .. Len(list) + 1 - r : back[j] = list[r - 1 + j],
         NEW m \in Chunk, Begin + Header <= m.addr, After(m) <= e,
         \A j \in 1 .. l : After(list[j]) < m.addr,
         \A j \in r .. Len(list) : After(m) < list[j].addr,
         \A b \in bs2 : ClearOfChunk(b, m)
  PROVE  SoundList((front \o <<m>>) \o back, bs2, e)
<1> DEFINE t == (front \o <<m>>) \o back
           N == Len(list)
           shift == r - l - 2
<1>1. /\ list \in Seq(Chunk) /\ DOMAIN list = 1 .. N /\ N \in Nat
      /\ l \in Nat /\ r \in Nat
  BY DEF SoundList
<1>2. /\ t \in Seq(Chunk) /\ Len(t) = l + 1 + (N + 1 - r)
      /\ \A j \in 1 .. l + 1 + (N + 1 - r) :
           t[j] = IF j <= l THEN front[j] ELSE IF j = l + 1 THEN m
                  ELSE back[j - (l + 1)]
  <2>1. /\ t \in Seq(Chunk)
        /\ Len(t) = Len(front) + 1 + Len(back)
        /\ \A j \in 1 .. Len(front) + 1 + Len(back) :
             t[j] = IF j <= Len(front) THEN front[j]
                    ELSE IF j = Len(front) + 1 THEN m
                    ELSE back[j - (Len(front) + 1)]
    <3>1. front \in Seq(Chunk) /\ back \in Seq(Chunk) /\ m \in Chunk
      OBVIOUS
    <3> QED BY ONLY <3>1, SpliceElements
  <2> HIDE DEF t
  <2> QED BY <2>1
<1> HIDE DEF t, N
<1>3. DOMAIN t = 1 .. l + 1 + (N + 1 - r)
  BY <1>2
<1>4. \A j \in DOMAIN t : j <= l => j \in DOMAIN list /\ j \in 1 .. l /\ t[j] = list[j]
  BY <1>1, <1>2, <1>3 DEF N
<1>5. \A j \in DOMAIN t : j = l + 1 => t[j] = m
  BY <1>1, <1>2, <1>3
<1>6. ASSUME NEW j \in DOMAIN t, j > l + 1
      PROVE  /\ j + shift \in DOMAIN list /\ j + shift \in r .. N
             /\ t[j] = list[j + shift]
  <2>1. j - (l + 1) \in 1 .. N + 1 - r /\ r - 1 + (j - (l + 1)) = j + shift
    <3>1. j \in Int /\ j <= l + 1 + (N + 1 - r) /\ N \in Nat /\ l \in Nat /\ r \in Nat
      BY <1>1, <1>3
    <3>2. j > l + 1
      BY <1>6
    <3>3. j - (l + 1) \in 1 .. N + 1 - r
      BY ONLY <3>1, <3>2
    <3>4. r - 1 + (j - (l + 1)) = j + shift
      BY <3>1
    <3> QED BY <3>3, <3>4
  <2>2. t[j] = back[j - (l + 1)]
    BY <1>1, <1>2, <1>3, <1>6, SMTT(30)
  <2>3. back[j - (l + 1)] = list[r - 1 + (j - (l + 1))]
    BY <2>1 DEF N
  <2>4. j + shift \in r .. N
    BY <1>1, <1>3, <1>6, SMTT(30)
  <2> QED BY <1>1, <2>1, <2>2, <2>3, <2>4
<1>7. \A j \in DOMAIN t : j \in Nat /\ (j <= l \/ j = l + 1 \/ j > l + 1)
  BY <1>1, <1>3
<1> HIDE DEF shift
<1>8. ASSUME NEW i \in DOMAIN t, NEW j \in DOMAIN t, i < j
      PROVE  After(t[i]) < t[j].addr
  <2>1. CASE j <= l
    BY <1>1, <1>4, <1>7, <1>8, <2>1, SMTT(30) DEF SoundList
  <2>2. CASE j = l + 1
    <3>1. i <= l
      BY <1>1, <1>7, <1>8, <2>2
    <3> QED BY <1>4, <1>5, <2>2, <3>1
  <2>3. CASE j > l + 1
    <3>1. j + shift \in DOMAIN list /\ j + shift \in r .. N /\ t[j] = list[j + shift]
      BY <1>6, <2>3
    <3>2. CASE i <= l
      <4>1. i < j + shift
        BY <1>1, <1>7, <3>1, <3>2
      <4> QED BY <1>4, <3>1, <3>2, <4>1 DEF SoundList
    <3>3. CASE i = l + 1
      BY <1>5, <3>1, <3>3 DEF N
    <3>4. CASE i > l + 1
      <4>1. i + shift \in DOMAIN list /\ t[i] = list[i + shift]
        BY <1>6, <3>4
      <4>2. i + shift < j + shift
        BY <1>1, <1>7, <1>8 DEF shift
      <4> QED BY <3>1, <4>1, <4>2 DEF SoundList
    <3> QED BY <1>7, <3>2, <3>3, <3>4
  <2> QED BY <1>7, <2>1, <2>2, <2>3
<1>9. ASSUME NEW j \in DOMAIN t
      PROVE  t[j] = m \/ \E i \in DOMAIN list : t[j] = list[i]
  BY <1>4, <1>5, <1>6, <1>7
<1>10. \A j \in DOMAIN t : Begin + Header <= t[j].addr /\ After(t[j]) <= e
  BY <1>9 DEF SoundList
<1>11. \A b \in bs2, j \in DOMAIN t : ClearOfChunk(b, t[j])
  BY <1>9 DEF SoundList
<1> QED
  BY <1>2, <1>8, <1>10, <1>11 DEF SoundList, t

\* What remains of the list below the block, and above it.
LEMMA RemainsBelow ==
  ASSUME NEW list \in Seq(Chunk), NEW p \in 1 .. Len(list) + 1, NEW joins \in BOOLEAN,
         joins => p # 1
  PROVE  LET below == SubSeq(list, 1, p - 1)
             front == IF joins THEN Front(below) ELSE below
             l == IF joins THEN p - 2 ELSE p - 1
         IN  /\ l \in 0 .. Len(list)
             /\ front \in Seq(Chunk) /\ Len(front) = l
             /\ \A j \in 1 .. l : front[j] = list[j]
<1> DEFINE below == SubSeq(list, 1, p - 1)
           front == IF joins THEN Front(below) ELSE below
           l == IF joins THEN p - 2 ELSE p - 1
<1>1. /\ Len(list) \in Nat /\ p \in Nat /\ 1 <= p /\ p <= Len(list) + 1
      /\ \A j \in 1 .. Len(list) : list[j] \in Chunk
  OBVIOUS
<1>2. \A j \in 1 .. p - 1 : list[j] \in Chunk
  BY <1>1
<1>3. /\ below \in Seq(Chunk) /\ Len(below) = p - 1
      /\ \A j \in 1 .. p - 1 : below[j] = list[j]
  <2>1. /\ below \in Seq(Chunk)
        /\ Len(below) = IF 1 <= p - 1 THEN p - 1 - 1 + 1 ELSE 0
        /\ \A j \in 1 .. p - 1 - 1 + 1 : below[j] = list[1 + j - 1]
    BY <1>1, <1>2, SubSeqProperties
  <2> HIDE DEF below
  <2>2. Len(below) = p - 1
    BY <1>1, <2>1
  <2>3. \A j \in 1 .. p - 1 : below[j] = list[j]
    <3>1. p - 1 - 1 + 1 = p - 1 /\ \A j \in 1 .. p - 1 : 1 + j - 1 = j
      BY <1>1
    <3> QED BY <2>1, <3>1
  <2> QED BY <2>1, <2>2, <2>3
<1> HIDE DEF below
<1>4. CASE ~joins
  BY <1>1, <1>3, <1>4
<1>5. CASE joins
  <2>1. p - 1 >= 1 /\ front = SubSeq(below, 1, p - 2)
    <3>1. p - 1 >= 1 /\ p - 1 - 1 = p - 2
      BY <1>1, <1>5
    <3> QED BY <1>3, <1>5, <3>1 DEF Front
  <2> DEFINE f == SubSeq(below, 1, p - 2)
  <2>2. \A j \in 1 .. p - 2 : below[j] \in Chunk /\ below[j] = list[j]
    BY <1>1, <1>2, <1>3
  <2>3. /\ f \in Seq(Chunk)
        /\ Len(f) = IF 1 <= p - 2 THEN p - 2 - 1 + 1 ELSE 0
        /\ \A j \in 1 .. p - 2 - 1 + 1 : f[j] = below[1 + j - 1]
    BY <1>1, <2>2, SubSeqProperties
  <2> HIDE DEF f
  <2>4. Len(f) = p - 2
    BY <1>1, <2>1, <2>3
  <2>5. \A j \in 1 .. p - 2 : f[j] = list[j]
    <3>1. p - 2 - 1 + 1 = p - 2 /\ \A j \in 1 .. p - 2 : 1 + j - 1 = j
      BY <1>1
    <3> QED BY <2>2, <2>3, <3>1
  <2>6. l = p - 2 /\ front = f
    BY <1>5, <2>1 DEF f
  <2> HIDE DEF l, front
  <2>7. l \in 0 .. Len(list)
    BY <1>1, <2>1, <2>6
  <2>8. front \in Seq(Chunk) /\ Len(front) = l /\ \A j \in 1 .. l : front[j] = list[j]
    BY <2>3, <2>4, <2>5, <2>6
  <2> QED BY <2>7, <2>8 DEF l, front, below
<1> QED
  BY <1>4, <1>5 DEF below

LEMMA RemainsAbove ==
  ASSUME NEW list \in Seq(Chunk), NEW p \in 1 .. Len(list) + 1, NEW joins \in BOOLEAN,
         joins => p # Len(list) + 1
  PROVE  LET above == SubSeq(list, p, Len(list))
             back == IF joins THEN Tail(above) ELSE above
             r == IF joins THEN p + 1 ELSE p
         IN  /\ r \in 1 .. Len(list) + 1
             /\ back \in Seq(Chunk) /\ Len(back) = Len(list) + 1 - r
             /\ \A j \in 1 .. Len(list) + 1 - r : back[j] = list[r - 1 + j]
<1> DEFINE above == SubSeq(list, p, Len(list))
           back == IF joins THEN Tail(above) ELSE above
           r == IF joins THEN p + 1 ELSE p
           N == Len(list)
<1>1. /\ N \in Nat /\ p \in Nat /\ 1 <= p /\ p <= N + 1
      /\ \A j \in 1 .. N : list[j] \in Chunk
  OBVIOUS
<1>2. \A j \in p .. N : list[j] \in Chunk
  BY <1>1
<1>3. /\ above \in Seq(Chunk) /\ Len(above) = N + 1 - p
      /\ \A j \in 1 .. N + 1 - p : above[j] = list[p - 1 + j]
  <2>1. /\ above \in Seq(Chunk)
        /\ Len(above) = IF p <= N THEN N - p + 1 ELSE 0
        /\ \A j \in 1 .. N - p + 1 : above[j] = list[p + j - 1]
    BY <1>1, <1>2, SubSeqProperties
  <2> HIDE DEF above, N
  <2>2. Len(above) = N + 1 - p
    BY <1>1, <2>1
  <2>3. \A j \in 1 .. N + 1 - p : above[j] = list[p - 1 + j]
    <3>1. N - p + 1 = N + 1 - p /\ \A j \in 1 .. N + 1 - p : p + j - 1 = p - 1 + j
      BY <1>1
    <3> QED BY <2>1, <3>1
  <2> QED BY <2>1, <2>2, <2>3
<1> HIDE DEF above, N
<1>4. CASE ~joins
  <2>1. r = p /\ back = above
    BY <1>4
  <2> HIDE DEF r, back
  <2>2. r \in 1 .. N + 1
    BY <1>1, <2>1
  <2>3. /\ back \in Seq(Chunk) /\ Len(back) = N + 1 - r
        /\ \A j \in 1 .. N + 1 - r : back[j] = list[r - 1 + j]
    BY <1>3, <2>1
  <2> QED BY <2>2, <2>3 DEF r, back, above, N
<1>5. CASE joins
  <2>1. p <= N /\ above # << >>
    BY <1>1, <1>3, <1>5 DEF N
  <2>2. /\ Tail(above) \in Seq(Chunk) /\ Len(Tail(above)) = Len(above) - 1
        /\ \A j \in 1 .. Len(Tail(above)) : Tail(above)[j] = above[j + 1]
    BY <1>3, <2>1, HeadTailProperties
  <2>3. r = p + 1 /\ back = Tail(above)
    BY <1>5
  <2> HIDE DEF r, back
  <2>4. r \in 1 .. N + 1
    BY <1>1, <2>1, <2>3
  <2>5. Len(back) = N + 1 - r
    BY <1>1, <1>3, <2>2, <2>3
  <2>6. ASSUME NEW j \in 1 .. N + 1 - r
        PROVE  back[j] = list[r - 1 + j]
    <3>1. back[j] = above[j + 1]
      BY <2>2, <2>3, <2>5
    <3>2. j + 1 \in 1 .. N + 1 - p /\ p - 1 + (j + 1) = r - 1 + j
      BY <1>1, <2>3
    <3> QED BY <1>3, <3>1, <3>2
  <2> QED BY <2>2, <2>3, <2>4, <2>5, <2>6 DEF r, back, above, N
<1> QED
  BY <1>4, <1>5 DEF N

(***************************************************************************)
(* A block that is given back overlaps nothing, and the list stays in      *)
(* order and coalesced, whatever the block joins.                          *)
(***************************************************************************)
LEMMA DeleteSound ==
  ASSUME IInv, NEW b \in blocks, Delete(b)
  PROVE  IInv'
<1> DEFINE p == Place(b)
           N == Len(free)
           below == SubSeq(free, 1, p - 1)
           above == SubSeq(free, p, N)
           jb == JoinsBelow(b, below)
           ja == JoinsAbove(b, above)
           m == Merge(b, below, above)
           front == IF jb THEN Front(below) ELSE below
           l == IF jb THEN p - 2 ELSE p - 1
           back == IF ja THEN Tail(above) ELSE above
           r == IF ja THEN p + 1 ELSE p
           overlap == \/ below # << >> /\ After(Last(below)) > b.chunk
                      \/ above # << >> /\ AfterBlock(b) > Head(above).addr
<1>1. /\ SoundList(free, blocks, end) /\ SoundBlocks(blocks, end)
      /\ blocks \subseteq Block /\ end \in Nat /\ end \in Int
      /\ end \in Begin + PAGE_SIZE .. MaxEnd
  BY HeapAssumption DEF IInv, SoundBlocks
<1>2. /\ free \in Seq(Chunk) /\ DOMAIN free = 1 .. N /\ N \in Nat
      /\ \A j \in 1 .. N : free[j] \in Chunk
  BY <1>1 DEF SoundList
<1>3. /\ p \in 1 .. N + 1
      /\ \A j \in DOMAIN free : j < p => After(free[j]) <= b.chunk
      /\ \A j \in DOMAIN free : p <= j => AfterBlock(b) <= free[j].addr
  BY <1>1, PlaceProperties
<1>4. \A c \in Chunk : /\ c.addr \in Nat /\ c.size \in Nat
                       /\ After(c) = c.addr + 2 + c.size
                       /\ After(c) \in Nat /\ c.addr < After(c)
  BY DEF Chunk, After, Header
<1>5. b.chunk \in Nat /\ b.size \in Nat /\ AfterBlock(b) = b.chunk + 2 + b.size
  BY <1>1 DEF Block, AfterBlock, Header
<1>6. /\ blocks' = blocks \ {b} /\ end' = end /\ halted' = overlap
      /\ free' = IF overlap THEN free ELSE InsertBlock(b, below, above)
  BY DEF Delete
<1> HIDE DEF p
<1>7. /\ below \in Seq(Chunk) /\ Len(below) = p - 1
      /\ \A j \in 1 .. p - 1 : below[j] = free[j]
  BY <1>2, <1>3, RemainsBelow
<1>8. /\ above \in Seq(Chunk) /\ Len(above) = N + 1 - p
      /\ \A j \in 1 .. N + 1 - p : above[j] = free[p - 1 + j]
  BY <1>2, <1>3, RemainsAbove
<1> HIDE DEF below, above, N
<1>9. below # << >> => /\ p - 1 \in 1 .. N /\ Last(below) = free[p - 1]
                       /\ After(free[p - 1]) <= b.chunk
  <2> SUFFICES ASSUME below # << >>
               PROVE  /\ p - 1 \in 1 .. N /\ Last(below) = free[p - 1]
                      /\ After(free[p - 1]) <= b.chunk
    OBVIOUS
  <2>1. p - 1 \in 1 .. N /\ p - 1 \in 1 .. p - 1 /\ p - 1 < p
    BY <1>2, <1>3, <1>7
  <2>2. Last(below) = below[p - 1]
    BY <1>7 DEF Last
  <2> QED BY <1>2, <1>3, <1>7, <2>1, <2>2
<1>10. above # << >> => /\ p \in 1 .. N /\ Head(above) = free[p]
                        /\ AfterBlock(b) <= free[p].addr
  <2> SUFFICES ASSUME above # << >>
               PROVE  /\ p \in 1 .. N /\ Head(above) = free[p]
                      /\ AfterBlock(b) <= free[p].addr
    OBVIOUS
  <2>1. p \in 1 .. N /\ 1 \in 1 .. N + 1 - p /\ p - 1 + 1 = p /\ p <= p
    BY <1>2, <1>3, <1>8
  <2>2. Head(above) = above[1]
    BY <1>8
  <2>3. above[1] = free[p]
    BY <1>8, <2>1
  <2> QED BY <1>2, <1>3, <2>1, <2>2, <2>3
<1>11. overlap = FALSE
  <2>1. ~(below # << >> /\ After(Last(below)) > b.chunk)
    BY <1>2, <1>4, <1>5, <1>9
  <2>2. ~(above # << >> /\ AfterBlock(b) > Head(above).addr)
    BY <1>2, <1>4, <1>5, <1>10, SMTT(30)
  <2> QED BY <2>1, <2>2
<1>12. jb => /\ p - 1 \in 1 .. N /\ Last(below) = free[p - 1]
             /\ After(free[p - 1]) = b.chunk
  BY <1>9 DEF JoinsBelow
<1>13. ja => /\ p \in 1 .. N /\ Head(above) = free[p]
             /\ AfterBlock(b) = free[p].addr
  BY <1>10 DEF JoinsAbove
<1>14. /\ ~jb => \A j \in DOMAIN free : j < p => After(free[j]) < b.chunk
       /\ ~ja => \A j \in DOMAIN free : p <= j => AfterBlock(b) < free[j].addr
  <2>1. ASSUME ~jb, NEW j \in DOMAIN free, j < p
        PROVE  After(free[j]) < b.chunk
    <3>1. below # << >>
      BY <1>2, <1>3, <1>7, <2>1
    <3>2. /\ p - 1 \in DOMAIN free /\ After(free[p - 1]) <= b.chunk
          /\ After(free[p - 1]) # b.chunk
      BY <1>2, <1>9, <2>1, <3>1 DEF JoinsBelow
    <3>3. j = p - 1 \/ After(free[j]) < free[p - 1].addr
      BY <1>1, <1>2, <1>3, <2>1, <3>2 DEF SoundList
    <3> QED BY <1>2, <1>4, <1>5, <2>1, <3>2, <3>3
  <2>2. ASSUME ~ja, NEW j \in DOMAIN free, p <= j
        PROVE  AfterBlock(b) < free[j].addr
    <3>1. above # << >>
      BY <1>2, <1>3, <1>8, <2>2
    <3>2. /\ p \in DOMAIN free /\ AfterBlock(b) <= free[p].addr
          /\ AfterBlock(b) # free[p].addr
      BY <1>2, <1>10, <2>2, <3>1 DEF JoinsAbove
    <3>3. j = p \/ After(free[p]) < free[j].addr
      BY <1>1, <1>2, <1>3, <2>2, <3>2 DEF SoundList
    <3>4. free[p] \in Chunk /\ free[j] \in Chunk /\ AfterBlock(b) \in Nat
      BY <1>2, <1>5, <2>2, <3>2
    <3>5. AfterBlock(b) < free[p].addr
      BY <1>4, <3>2, <3>4
    <3>6. free[p].addr <= free[j].addr
      BY <1>4, <3>3, <3>4
    <3> QED BY <1>4, <3>4, <3>5, <3>6
  <2> QED BY <2>1, <2>2
<1>15. m = [addr |-> IF jb THEN free[p - 1].addr ELSE b.chunk,
            size |-> b.size + (IF jb THEN free[p - 1].size + 2 ELSE 0)
                            + (IF ja THEN free[p].size + 2 ELSE 0)]
  BY <1>12, <1>13 DEF Merge, Header
<1>16. free' = (front \o <<m>>) \o back
  BY <1>6, <1>11 DEF InsertBlock
<1>17. jb \in BOOLEAN /\ ja \in BOOLEAN
  BY DEF JoinsBelow, JoinsAbove
<1> HIDE DEF jb, ja, m, overlap
<1>18. /\ m \in Chunk
       /\ m.addr = IF jb THEN free[p - 1].addr ELSE b.chunk
       /\ After(m) = IF ja THEN After(free[p]) ELSE AfterBlock(b)
  <2>1. jb => /\ free[p - 1] \in Chunk /\ free[p - 1].addr \in Nat
              /\ free[p - 1].size \in Nat
              /\ free[p - 1].addr + 2 + free[p - 1].size = b.chunk
    BY <1>2, <1>4, <1>12
  <2>2. ja => /\ free[p].addr \in Nat /\ free[p].size \in Nat
              /\ free[p].addr = b.chunk + 2 + b.size
              /\ After(free[p]) = free[p].addr + 2 + free[p].size
    BY <1>2, <1>4, <1>5, <1>13
  <2>3. /\ m.addr = IF jb THEN free[p - 1].addr ELSE b.chunk
        /\ m.size = b.size + (IF jb THEN free[p - 1].size + 2 ELSE 0)
                           + (IF ja THEN free[p].size + 2 ELSE 0)
    BY <1>15
  <2>4. m.addr \in Nat /\ m.size \in Nat
    BY <1>5, <2>1, <2>2, <2>3
  <2>5. m \in Chunk
    BY <1>15, <2>3, <2>4 DEF Chunk
  <2>6. After(m) = m.addr + 2 + m.size
    BY <1>4, <2>5
  <2>7. m.addr + 2 + m.size = IF ja THEN After(free[p]) ELSE AfterBlock(b)
    BY <1>5, <2>1, <2>2, <2>3
  <2> QED BY <2>3, <2>5, <2>6, <2>7
<1>19. /\ l \in 0 .. N /\ front \in Seq(Chunk) /\ Len(front) = l
       /\ \A j \in 1 .. l : front[j] = free[j]
  <2>1. jb => p # 1
    BY <1>2, <1>12
  <2> QED BY <1>2, <1>3, <1>17, <2>1, RemainsBelow DEF below, N
<1>20. /\ r \in 1 .. N + 1 /\ back \in Seq(Chunk) /\ Len(back) = N + 1 - r
       /\ \A j \in 1 .. N + 1 - r : back[j] = free[r - 1 + j]
  <2>1. ja => p # N + 1
    BY <1>2, <1>13
  <2> QED BY <1>2, <1>3, <1>17, <2>1, RemainsAbove DEF above, N
<1>21. l < r
  BY <1>2, <1>3
<1>22. Begin + Header <= m.addr /\ After(m) <= end
  <2>1. Begin + Header <= b.chunk /\ AfterBlock(b) <= end
    BY <1>1 DEF SoundBlocks
  <2>2. jb => Begin + Header <= free[p - 1].addr
    BY <1>1, <1>2, <1>12 DEF SoundList
  <2>3. ja => After(free[p]) <= end
    BY <1>1, <1>2, <1>13 DEF SoundList
  <2> QED BY <1>18, <2>1, <2>2, <2>3
<1>23. \A j \in 1 .. l : After(free[j]) < m.addr
  <2> SUFFICES ASSUME NEW j \in 1 .. l PROVE After(free[j]) < m.addr
    OBVIOUS
  <2>1. j \in DOMAIN free /\ j < p
    BY <1>2, <1>3, <1>19
  <2>2. CASE jb
    <3>1. p - 1 \in DOMAIN free /\ j < p - 1
      BY <1>2, <1>3, <1>12, <2>2
    <3> QED BY <1>1, <1>18, <2>1, <2>2, <3>1 DEF SoundList
  <2>3. CASE ~jb
    BY <1>14, <1>18, <2>1, <2>3
  <2> QED BY <2>2, <2>3
<1>24. \A j \in r .. N : After(m) < free[j].addr
  <2> SUFFICES ASSUME NEW j \in r .. N PROVE After(m) < free[j].addr
    OBVIOUS
  <2>1. j \in DOMAIN free /\ p <= j
    BY <1>2, <1>3, <1>20
  <2>2. CASE ja
    <3>1. p \in DOMAIN free /\ p < j
      BY <1>2, <1>3, <1>13, <2>2
    <3> QED BY <1>1, <1>18, <2>1, <2>2, <3>1 DEF SoundList
  <2>3. CASE ~ja
    BY <1>14, <1>18, <2>1, <2>3
  <2> QED BY <2>2, <2>3
<1>25. \A c \in blocks \ {b} : ClearOfChunk(c, m)
  <2> SUFFICES ASSUME NEW c \in blocks, c # b PROVE ClearOfChunk(c, m)
    OBVIOUS
  <2>1. c.chunk \in Nat /\ AfterBlock(c) \in Nat /\ c.chunk < AfterBlock(c)
    BY <1>1 DEF Block, AfterBlock, Header
  <2>2. AfterBlock(c) <= b.chunk \/ AfterBlock(b) <= c.chunk
    BY <1>1 DEF SoundBlocks, ClearOfBlock
  <2>3. jb => AfterBlock(c) <= free[p - 1].addr \/ b.chunk <= c.chunk
    BY <1>1, <1>2, <1>12 DEF SoundList, ClearOfChunk
  <2>4. ja => AfterBlock(c) <= AfterBlock(b) \/ After(free[p]) <= c.chunk
    BY <1>1, <1>2, <1>13 DEF SoundList, ClearOfChunk
  <2>5. /\ jb => free[p - 1].addr \in Nat
        /\ ja => After(free[p]) \in Nat
        /\ AfterBlock(b) \in Nat /\ b.chunk < AfterBlock(b)
    BY <1>2, <1>4, <1>5, <1>12, <1>13
  <2>6. CASE AfterBlock(c) <= b.chunk
    <3>1. AfterBlock(c) <= m.addr
      BY <1>5, <1>18, <2>1, <2>3, <2>5, <2>6
    <3> QED BY <3>1 DEF ClearOfChunk
  <2>7. CASE AfterBlock(b) <= c.chunk
    <3>1. After(m) <= c.chunk
      BY <1>18, <2>1, <2>4, <2>5, <2>7
    <3> QED BY <3>1 DEF ClearOfChunk
  <2> QED BY <2>2, <2>6, <2>7
<1> HIDE DEF front, back, l, r
<1>26. SoundList((front \o <<m>>) \o back, blocks \ {b}, end)
  <2>1. blocks \ {b} \in SUBSET blocks
    OBVIOUS
  <2> QED
    BY <1>1, <1>18, <1>19, <1>20, <1>21, <1>22, <1>23, <1>24, <1>25, <2>1, SpliceSound
       DEF N
<1>27. SoundBlocks(blocks \ {b}, end)
  BY <1>1 DEF SoundBlocks
<1>28. /\ end' \in Begin + PAGE_SIZE .. MaxEnd /\ halted' = FALSE
       /\ SoundList(free', blocks', end') /\ SoundBlocks(blocks', end')
  BY <1>1, <1>6, <1>11, <1>16, <1>26, <1>27
<1> QED
  BY <1>28 DEF IInv, SoundList, SoundBlocks

-----------------------------------------------------------------------------
(* The specification                                                       *)

LEMMA InitSound == HeapInit => IInv
<1> SUFFICES ASSUME HeapInit PROVE IInv
  OBVIOUS
<1> DEFINE c == [addr |-> Begin + Header, size |-> PAGE_SIZE - 2 * Header]
<1>1. free = <<c>> /\ blocks = {} /\ end = Begin + PAGE_SIZE /\ halted = FALSE
  BY DEF HeapInit
<1>2. /\ c \in Chunk /\ c.addr = Begin + Header /\ After(c) = Begin + PAGE_SIZE
  BY HeapAssumption DEF Chunk, After, Header
<1> HIDE DEF c
<1>3. free \in Seq(Chunk) /\ DOMAIN free = {1} /\ free[1] = c
  BY <1>1, <1>2
<1>4. SoundList(free, blocks, end)
  <2>1. \A i \in DOMAIN free : Begin + Header <= free[i].addr /\ After(free[i]) <= end
    BY <1>1, <1>2, <1>3, HeapAssumption DEF Header
  <2>2. \A i, j \in DOMAIN free : ~(i < j)
    BY <1>3
  <2> QED BY <1>1, <1>3, <2>1, <2>2 DEF SoundList
<1>5. SoundBlocks(blocks, end)
  BY <1>1 DEF SoundBlocks
<1>6. end \in Begin + PAGE_SIZE .. MaxEnd
  BY <1>1, HeapAssumption
<1> QED
  BY <1>1, <1>4, <1>5, <1>6 DEF IInv

LEMMA NewSound ==
  ASSUME IInv, NEW size \in Size, NEW align \in Align, New(size, align)
  PROVE  IInv'
<1>1. size \in Nat \ {0} /\ align \in Nat \ {0}
  BY HeapAssumption
<1>2. end \in Int /\ SoundList(free, blocks, end) /\ SoundBlocks(blocks, end)
  BY HeapAssumption DEF IInv
<1>3. /\ SoundList(Take(free, size, align),
                   blocks \cup {BlockIn(free, size, align)}, end)
      /\ SoundBlocks(blocks \cup {BlockIn(free, size, align)}, end)
  BY <1>1, <1>2, TakeSound DEF New
<1>4. /\ free' = Take(free, size, align)
      /\ blocks' = blocks \cup {BlockIn(free, size, align)}
      /\ end' = end /\ halted' = halted
  BY DEF New
<1>5. /\ end' \in Begin + PAGE_SIZE .. MaxEnd /\ halted' = FALSE
      /\ SoundList(free', blocks', end') /\ SoundBlocks(blocks', end')
  BY <1>3, <1>4 DEF IInv
<1> QED
  BY <1>5 DEF IInv, SoundList, SoundBlocks

\* The second attempt to allocate succeeds.
LEMMA NewInGrownHeapSound ==
  ASSUME IInv, NEW size \in Size, NEW align \in Align, NewInGrownHeap(size, align)
  PROVE  IInv'
<1> DEFINE new_end == end + PagesFor(size, align) * PAGE_SIZE
           grown == Extend(free, new_end)
<1>1. size \in Nat \ {0} /\ align \in Nat \ {0}
  BY HeapAssumption
<1>2. /\ end \in Nat /\ Begin + PAGE_SIZE <= end
      /\ SoundList(free, blocks, end) /\ SoundBlocks(blocks, end)
  BY HeapAssumption DEF IInv
<1>3. Begin + Header <= end
  BY <1>2, HeapAssumption DEF Header
<1>4. new_end \in Nat /\ end + size + align + Header <= new_end
  <2> DEFINE more == PagesFor(size, align) * PAGE_SIZE
  <2>1. more \in Nat /\ size + align + Header <= more
    BY <1>1, PagesForBounds
  <2> HIDE DEF more
  <2>2. end + more \in Nat /\ end + size + align + Header <= end + more
    BY <1>1, <1>2, <2>1 DEF Header
  <2> QED BY <2>2 DEF more
<1>5. /\ end' = new_end /\ new_end <= MaxEnd /\ halted = FALSE
      /\ IF Fits(grown, size, align)
         THEN /\ free' = Take(grown, size, align)
              /\ blocks' = blocks \cup {BlockIn(grown, size, align)}
              /\ halted' = halted
         ELSE free' = grown /\ halted' = TRUE /\ blocks' = blocks
  BY DEF NewInGrownHeap, IInv
<1> HIDE DEF new_end
<1>6. end + Header <= new_end
  BY <1>1, <1>2, <1>4 DEF Header
<1>7. /\ SoundList(grown, blocks, new_end) /\ SoundBlocks(blocks, new_end)
      /\ \E i \in DOMAIN grown : grown[i].size >= new_end - end - Header
  BY <1>2, <1>3, <1>4, <1>6, ExtendSound
<1> HIDE DEF grown
<1>8. Fits(grown, size, align)
  <2>1. grown \in Seq(Chunk)
    BY <1>7 DEF SoundList
  <2>2. /\ new_end - end - Header \in Int
        /\ size + align <= new_end - end - Header
    BY <1>1, <1>2, <1>4 DEF Header
  <2> QED BY <1>1, <1>7, <2>1, <2>2, GrownFits
<1>9. /\ SoundList(Take(grown, size, align),
                   blocks \cup {BlockIn(grown, size, align)}, new_end)
      /\ SoundBlocks(blocks \cup {BlockIn(grown, size, align)}, new_end)
  BY <1>1, <1>4, <1>7, <1>8, TakeSound
<1>10. new_end \in Begin + PAGE_SIZE .. MaxEnd
  BY <1>1, <1>2, <1>4, <1>5, HeapAssumption DEF Header
<1>11. /\ end' \in Begin + PAGE_SIZE .. MaxEnd /\ halted' = FALSE
       /\ SoundList(free', blocks', end') /\ SoundBlocks(blocks', end')
  BY <1>5, <1>8, <1>9, <1>10
<1> QED
  BY <1>11 DEF IInv, SoundList, SoundBlocks

LEMMA NextSound == IInv /\ [HeapNext]_heapVars => IInv'
<1> SUFFICES ASSUME IInv, [HeapNext]_heapVars PROVE IInv'
  OBVIOUS
<1>1. ASSUME NEW size \in Size, NEW align \in Align, New(size, align)
      PROVE  IInv'
  BY <1>1, NewSound
<1>2. ASSUME NEW size \in Size, NEW align \in Align, NewInGrownHeap(size, align)
      PROVE  IInv'
  BY <1>2, NewInGrownHeapSound
<1>3. ASSUME NEW b \in blocks, Delete(b)
      PROVE  IInv'
  BY <1>3, DeleteSound
<1>4. CASE UNCHANGED heapVars
  BY <1>4 DEF IInv, heapVars, SoundList, SoundBlocks
<1> QED
  BY <1>1, <1>2, <1>3, <1>4 DEF HeapNext

(***************************************************************************)
(* The invariant of the heap: the free list and the blocks stay sound.     *)
(***************************************************************************)
THEOREM Inductive == HeapSpec => []IInv
<1> QED
  BY InitSound, NextSound, PTL DEF HeapSpec

(***************************************************************************)
(* Chunks and blocks have addresses and sizes that are natural numbers.    *)
(***************************************************************************)
THEOREM TypeCorrect == HeapSpec => []HeapTypeOK
<1>1. IInv => HeapTypeOK
  <2> SUFFICES ASSUME IInv PROVE HeapTypeOK
    OBVIOUS
  <2>1. end \in Begin .. MaxEnd
    BY HeapAssumption DEF IInv
  <2> QED BY <2>1 DEF IInv, HeapTypeOK, SoundList, SoundBlocks
<1> QED
  BY <1>1, Inductive, PTL

(***************************************************************************)
(* No unit of memory has two uses (allocate, deallocate, extend).          *)
(***************************************************************************)
THEOREM ApartHolds == HeapSpec => []Apart
<1>1. IInv => Apart
  <2> SUFFICES ASSUME IInv PROVE Apart
    OBVIOUS
  <2>1. SoundList(free, blocks, end) /\ SoundBlocks(blocks, end)
        /\ end \in Int /\ Begin + Header \in Int
    BY HeapAssumption DEF IInv, Header
  <2>2. \A i \in DOMAIN free : free[i].addr \in Int /\ After(free[i]) \in Int
                               /\ free[i].addr <= After(free[i])
    <3>1. \A i \in DOMAIN free : free[i] \in Chunk
      BY <2>1 DEF SoundList
    <3>2. \A c \in Chunk : c.addr \in Int /\ After(c) \in Int /\ c.addr <= After(c)
      BY DEF Chunk, After, Header
    <3> QED BY <3>1, <3>2
  <2>3. \A b \in blocks : b.chunk \in Int /\ AfterBlock(b) \in Int /\ b.address \in Int
    BY <2>1 DEF SoundBlocks, Block, AfterBlock, Header
  <2>4. ASSUME NEW i \in DOMAIN free, NEW j \in DOMAIN free, i # j
        PROVE  Extent(free[i]) \cap Extent(free[j]) = {}
    <3>1. After(free[i]) < free[j].addr \/ After(free[j]) < free[i].addr
      <4>1. i < j \/ j < i
        BY <2>1, <2>4 DEF SoundList
      <4> QED BY <2>1, <4>1 DEF SoundList
    <3> QED BY <2>2, <3>1 DEF Extent
  <2>5. ASSUME NEW b \in blocks, NEW c \in blocks, b # c
        PROVE  ExtentOf(b) \cap ExtentOf(c) = {}
    <3>1. AfterBlock(b) <= c.chunk \/ AfterBlock(c) <= b.chunk
      BY <2>1, <2>5 DEF SoundBlocks, ClearOfBlock
    <3> QED BY <2>3, <3>1 DEF ExtentOf
  <2>6. ASSUME NEW b \in blocks, NEW i \in DOMAIN free
        PROVE  ExtentOf(b) \cap Extent(free[i]) = {}
    <3>1. AfterBlock(b) <= free[i].addr \/ After(free[i]) <= b.chunk
      BY <2>1 DEF SoundList, ClearOfChunk
    <3> QED BY <2>2, <2>3, <3>1 DEF Extent, ExtentOf
  <2>7. ASSUME NEW i \in DOMAIN free
        PROVE  Extent(free[i]) \subseteq Begin + Header .. end - 1
    <3>1. Begin + Header <= free[i].addr /\ After(free[i]) <= end
      BY <2>1 DEF SoundList
    <3> QED BY <2>1, <2>2, <3>1 DEF Extent
  <2>8. ASSUME NEW b \in blocks
        PROVE  /\ ExtentOf(b) \subseteq Begin + Header .. end - 1
               /\ b.address - Header >= b.chunk
               /\ b.address < AfterBlock(b)
    <3>1. /\ Begin + Header <= b.chunk /\ AfterBlock(b) <= end
          /\ b.chunk + Header <= b.address /\ b.address < AfterBlock(b)
      BY <2>1 DEF SoundBlocks
    <3>2. ExtentOf(b) \subseteq Begin + Header .. end - 1
      BY <2>1, <2>3, <3>1 DEF ExtentOf
    <3>3. b.address - Header >= b.chunk
      BY <2>3, <3>1 DEF Header
    <3> QED BY <3>1, <3>2, <3>3
  <2> QED BY <2>4, <2>5, <2>6, <2>7, <2>8 DEF Apart
<1> QED
  BY <1>1, Inductive, PTL

(***************************************************************************)
(* The free list is in order and no two of its chunks touch (deallocate).  *)
(***************************************************************************)
THEOREM CoalescedHolds == HeapSpec => []Coalesced
<1>1. IInv => Coalesced
  BY DEF IInv, SoundList, Coalesced
<1> QED
  BY <1>1, Inductive, PTL

(***************************************************************************)
(* Neither assertion fails: "memory corrupted" in deallocate, and "Failed  *)
(* to allocate memory" after the heap has grown.                           *)
(***************************************************************************)
THEOREM NoAssertionFailsHolds == HeapSpec => []NoAssertionFails
<1>1. IInv => NoAssertionFails
  BY DEF IInv, NoAssertionFails
<1> QED
  BY <1>1, Inductive, PTL

-----------------------------------------------------------------------------
(* Loops over addresses and levels                                         *)

\* One turn of a loop: of one that maps new pages, takes the pages of an image,
\* goes down to the table of an address, maps pages for the kernel, or collects
\* what is in a tree.
Turn(loop, x, k) ==
  IF loop.does = "map" THEN MapNewPage(x, loop.root, loop.over[k])
  ELSE IF loop.does = "take" THEN AllocSpecificPage(x, loop.over[k])
  ELSE IF loop.does = "walk" THEN Descend(x, loop.over[k])
  ELSE IF loop.does = "set" THEN SetPage(x, ttkernel, loop.over[k], loop.over[k])
  ELSE Below(loop.tables, x, loop.over[k])

\* The function by which the community modules define a fold over 1 .. n, for
\* such a loop that begins with a value.
IsLoop(iter, n, loop, base) ==
  iter = [s \in SUBSET (1 .. n) |->
            IF s = {} THEN base ELSE Turn(loop, iter[s \ {Max(s)}], Max(s))]

\* Of each loop there is one.
LEMMA LoopExists ==
  ASSUME NEW n \in Nat, NEW loop, NEW base
  PROVE  \E iter : IsLoop(iter, n, loop, base)
<1> DEFINE S == {k \in 0 .. n : \E iter : IsLoop(iter, k, loop, base)}
<1>1. 0 \in S
  <2>1. SUBSET (1 .. 0) = {{}}
    OBVIOUS
  <2> DEFINE g == [s \in SUBSET (1 .. 0) |-> base]
  <2>2. g = [s \in SUBSET (1 .. 0) |->
               IF s = {} THEN base ELSE Turn(loop, g[s \ {Max(s)}], Max(s))]
    BY <2>1
  <2> HIDE DEF g
  <2>3. IsLoop(g, 0, loop, base)
    BY <2>2 DEF IsLoop
  <2> QED BY <2>3
<1>2. ASSUME NEW k \in 0 .. n - 1, k \in S PROVE k + 1 \in S
  <2>1. PICK g : IsLoop(g, k, loop, base)
    BY <1>2
  <2>2. g = [s \in SUBSET (1 .. k) |->
               IF s = {} THEN base ELSE Turn(loop, g[s \ {Max(s)}], Max(s))]
    BY <2>1 DEF IsLoop
  <2> DEFINE h == [s \in SUBSET (1 .. k + 1) |->
                     IF k + 1 \in s THEN Turn(loop, g[s \ {k + 1}], k + 1) ELSE g[s]]
  <2>3. ASSUME NEW s \in SUBSET (1 .. k + 1)
        PROVE  h[s] = IF s = {} THEN base ELSE Turn(loop, h[s \ {Max(s)}], Max(s))
    <3>1. CASE k + 1 \in s
      <4>1. Max(s) \in s /\ \A y \in s : Max(s) >= y
        BY <3>1, MaxUpTo, k + 1 \in Nat
      <4>2. Max(s) = k + 1
        <5>1. PICK m : m = Max(s)
          OBVIOUS
        <5>2. m \in 1 .. k + 1 /\ m >= k + 1
          BY <4>1, <5>1, <3>1
        <5> QED BY <5>1, <5>2
      <4>3. s \ {k + 1} \in SUBSET (1 .. k + 1) /\ k + 1 \notin s \ {k + 1}
        OBVIOUS
      <4>4. h[s \ {k + 1}] = g[s \ {k + 1}]
        BY <4>3, Zenon
      <4>5. h[s] = Turn(loop, g[s \ {k + 1}], k + 1)
        BY <3>1, Zenon
      <4> QED
        BY <3>1, <4>2, <4>4, <4>5, Zenon
    <3>2. CASE k + 1 \notin s
      <4>1. s \in SUBSET (1 .. k)
        BY <3>2
      <4>2. h[s] = g[s]
        BY <3>2, Zenon
      <4>3. s \ {Max(s)} \in SUBSET (1 .. k + 1) /\ k + 1 \notin s \ {Max(s)}
        BY <3>2
      <4>4. h[s \ {Max(s)}] = g[s \ {Max(s)}]
        BY <4>3, Zenon
      <4>5. g[s] = IF s = {} THEN base ELSE Turn(loop, g[s \ {Max(s)}], Max(s))
        BY <2>2, <4>1, Zenon
      <4> QED
        BY <4>2, <4>4, <4>5, Zenon
    <3> QED BY <3>1, <3>2
  <2>4. h = [s \in SUBSET (1 .. k + 1) |->
               IF s = {} THEN base ELSE Turn(loop, h[s \ {Max(s)}], Max(s))]
    <3>1. h = [s \in SUBSET (1 .. k + 1) |-> h[s]]
      BY Zenon
    <3> HIDE DEF h
    <3> QED BY <2>3, <3>1, Zenon
  <2> HIDE DEF h
  <2>5. IsLoop(h, k + 1, loop, base)
    BY <2>4 DEF IsLoop
  <2> QED BY <2>5
<1> HIDE DEF S
<1>3. 0 .. n \subseteq S
  BY <1>1, <1>2, IntervalInduction
<1>4. n \in S
  BY <1>3
<1> QED BY <1>4 DEF S

\* What it computes, turn by turn.
IsTurns(run, n, loop, base) ==
  /\ run[0] = base
  /\ \A k \in 1 .. n : run[k] = Turn(loop, run[k - 1], k)

\* The value of such a loop is the last value of its turns.
LEMMA LoopRuns ==
  ASSUME NEW n \in Nat, NEW loop, NEW base, NEW iter, IsLoop(iter, n, loop, base)
  PROVE  \E run : IsTurns(run, n, loop, base) /\ run[n] = iter[1 .. n]
<1> DEFINE run == [k \in 0 .. n |-> iter[1 .. k]]
<1>1. \A s \in SUBSET (1 .. n) :
        iter[s] = IF s = {} THEN base ELSE Turn(loop, iter[s \ {Max(s)}], Max(s))
  BY DEF IsLoop
<1>2. run[0] = base
  <2>1. 1 .. 0 = {} /\ 0 \in 0 .. n
    OBVIOUS
  <2>2. iter[{}] = base
    BY <1>1
  <2> QED BY <2>1, <2>2
<1>3. ASSUME NEW k \in 1 .. n PROVE run[k] = Turn(loop, run[k - 1], k)
  <2>1. k - 1 \in 0 .. n /\ k \in 0 .. n /\ k \in Nat \ {0}
    OBVIOUS
  <2>2. Max(1 .. k) = k /\ (1 .. k) \ {k} = 1 .. k - 1
    BY <2>1, MaxOfInterval
  <2>3. 1 .. k \in SUBSET (1 .. n) /\ 1 .. k # {}
    <3>1. k \in 1 .. k /\ 1 .. k \subseteq 1 .. n
      OBVIOUS
    <3> QED BY <3>1
  <2>4. iter[1 .. k] = Turn(loop, iter[(1 .. k) \ {Max(1 .. k)}], Max(1 .. k))
    BY <1>1, <2>3, Zenon
  <2>5. iter[1 .. k] = Turn(loop, iter[1 .. k - 1], k)
    BY <2>2, <2>4, Zenon
  <2>6. run[k] = iter[1 .. k] /\ run[k - 1] = iter[1 .. k - 1]
    BY <2>1
  <2> QED BY <2>5, <2>6, Zenon
<1>4. run[n] = iter[1 .. n]
  OBVIOUS
<1> HIDE DEF run
<1> QED BY <1>2, <1>3, <1>4 DEF IsTurns

MapAll(m, root, vas) == FoldLeft(LAMBDA x, va : MapNewPage(x, root, va), m, vas)

\* New pages are mapped one after the other.
LEMMA MapTurns ==
  ASSUME NEW n \in Nat, NEW m, NEW root, NEW vas, DOMAIN vas = 1 .. n
  PROVE  \E run : /\ run[0] = m
                  /\ \A k \in 1 .. n : run[k] = MapNewPage(run[k - 1], root, vas[k])
                  /\ run[n] = MapAll(m, root, vas)
<1> DEFINE loop == [does |-> "map", root |-> root, over |-> vas]
           fold == MapAll(m, root, vas)
           Is(it) == it = [s \in SUBSET (1 .. n) |->
                             IF s = {} THEN m
                             ELSE MapNewPage(it[s \ {Max(s)}], root, vas[Max(s)])]
<1>1. \A x, k : Turn(loop, x, k) = MapNewPage(x, root, vas[k])
  BY DEF Turn
<1>2. fold = (CHOOSE it : Is(it))[1 .. n]
  BY DEF MapAll, FoldLeft, MapThenFoldSet
<1> HIDE DEF loop, fold
<1>3. \A it : IsLoop(it, n, loop, m) <=> Is(it)
  BY <1>1, Zenon DEF IsLoop
<1>4. \E it : Is(it)
  BY <1>3, LoopExists, Zenon
<1>5. PICK it : Is(it) /\ fold = it[1 .. n]
  BY <1>2, <1>4, Zenon
<1>6. IsLoop(it, n, loop, m)
  BY <1>3, <1>5, Zenon
<1> HIDE DEF Is
<1>7. PICK run : IsTurns(run, n, loop, m) /\ run[n] = fold
  BY <1>5, <1>6, LoopRuns
<1>8. run[0] = m /\ (\A k \in 1 .. n : run[k] = MapNewPage(run[k - 1], root, vas[k]))
  BY <1>1, <1>7, Zenon DEF IsTurns
<1> QED BY <1>7, <1>8 DEF fold

-----------------------------------------------------------------------------
(* The arithmetic of addresses                                             *)

\* The recursion of span, as a definition by cases.
LEMMA SpanExists ==
  \E f : f = [level \in 0 .. Levels |-> IF level = Levels THEN 1 ELSE Width * f[level + 1]]
<1> DEFINE IsSpan(f, n) == /\ DOMAIN f = 0 .. n
                           /\ f[0] = 1
                           /\ \A k \in 1 .. n : f[k] = Width * f[k - 1]
           S == {n \in 0 .. Levels : \E f : IsSpan(f, n)}
<1>0. Levels \in Nat
  BY AddressAssumption
<1>1. 0 \in S
  <2>0. 0 \in 0 .. Levels
    BY <1>0
  <2>1. IsSpan([k \in 0 .. 0 |-> 1], 0)
    OBVIOUS
  <2> QED BY <1>0, <2>1, Zenon, <2>0
<1>2. ASSUME NEW n \in 0 .. Levels - 1, n \in S PROVE n + 1 \in S
  <2>1. PICK f : IsSpan(f, n)
    BY <1>2
  <2> DEFINE g == [k \in 0 .. n + 1 |-> IF k = n + 1 THEN Width * f[n] ELSE f[k]]
  <2>2. IsSpan(g, n + 1)
    <3>1. g[0] = 1
      BY <2>1
    <3>2. ASSUME NEW k \in 1 .. n + 1 PROVE g[k] = Width * g[k - 1]
      BY <2>1
    <3> QED BY <3>1, <3>2
  <2> HIDE DEF IsSpan, g
  <2>3. n + 1 \in 0 .. Levels
    BY <1>0
  <2> QED BY <2>2, <2>3
<1>3. Levels \in S
  <2> HIDE DEF S
  <2> QED BY <1>0, <1>1, <1>2, IntervalInduction
<1>4. PICK f : IsSpan(f, Levels)
  BY <1>3
<1> DEFINE g == [level \in 0 .. Levels |-> f[Levels - level]]
<1>5. ASSUME NEW level \in 0 .. Levels
      PROVE  g[level] = IF level = Levels THEN 1 ELSE Width * g[level + 1]
  <2>1. CASE level = Levels
    BY <1>0, <1>4, <2>1
  <2>2. CASE level # Levels
    <3>1. Levels - level \in 1 .. Levels /\ level + 1 \in 0 .. Levels
      BY <1>0, <2>2
    <3>2. f[Levels - level] = Width * f[(Levels - level) - 1]
      BY <1>4, <3>1
    <3>3. (Levels - level) - 1 = Levels - (level + 1)
      BY <1>0
    <3> QED BY <2>2, <3>1, <3>2, <3>3
  <2> QED BY <2>1, <2>2
<1>6. g = [level \in 0 .. Levels |-> IF level = Levels THEN 1 ELSE Width * g[level + 1]]
  <2>1. g = [level \in 0 .. Levels |-> g[level]]
    BY Zenon
  <2> HIDE DEF g
  <2> QED BY <1>5, <2>1, Zenon
<1> QED BY <1>6, Zenon

\* Each level divides the entries of the one above it.
LEMMA SpanValues ==
  /\ span[Levels] = 1
  /\ \A level \in 1 .. Levels : span[level - 1] = Width * span[level]
  /\ \A level \in 0 .. Levels : span[level] \in Nat \ {0}
<1>0. Levels \in Nat \ {0} /\ Width \in Nat \ {0}
  BY AddressAssumption
<1>1. span = [level \in 0 .. Levels |-> IF level = Levels THEN 1 ELSE Width * span[level + 1]]
  BY SpanExists, Zenon DEF span
<1> HIDE DEF span
<1>2. span[Levels] = 1
  BY <1>0, <1>1
<1>3. ASSUME NEW level \in 1 .. Levels PROVE span[level - 1] = Width * span[level]
  <2>1. level - 1 \in 0 .. Levels /\ level - 1 # Levels /\ (level - 1) + 1 = level
    BY <1>0
  <2> QED BY <1>1, <2>1
<1> DEFINE S == {n \in 0 .. Levels : span[Levels - n] \in Nat \ {0}}
<1>4. 0 \in S
  BY <1>0, <1>2
<1>5. ASSUME NEW n \in 0 .. Levels - 1, n \in S PROVE n + 1 \in S
  <2>1. Levels - n \in 1 .. Levels /\ (Levels - n) - 1 = Levels - (n + 1) /\ n + 1 \in 0 .. Levels
    BY <1>0
  <2>2. span[Levels - (n + 1)] = Width * span[Levels - n]
    BY <1>3, <2>1
  <2>3. span[Levels - n] \in Nat \ {0}
    BY <1>5
  <2>4. Width * span[Levels - n] \in Nat \ {0}
    BY <1>0, <2>3
  <2> QED BY <2>1, <2>2, <2>4
<1>6. ASSUME NEW level \in 0 .. Levels PROVE span[level] \in Nat \ {0}
  <2> HIDE DEF S
  <2>1. Levels - level \in S
    <3>1. 0 .. Levels \subseteq S
      BY <1>0, <1>4, <1>5, IntervalInduction
    <3> QED BY <1>0, <3>1
  <2>2. Levels - (Levels - level) = level
    BY <1>0
  <2> QED BY <2>1, <2>2 DEF S
<1> QED BY <1>2, <1>3, <1>6

\* Division by what a product was made with.
LEMMA DivideProduct ==
  ASSUME NEW q \in Nat, NEW d \in Nat \ {0}, NEW r \in 0 .. d - 1
  PROVE  (q * d + r) \div d = q /\ (q * d + r) % d = r
<1> DEFINE n == q * d + r
<1>1. n \in Nat
  OBVIOUS
<1>2. n \div d \in Int /\ n % d \in 0 .. d - 1 /\ n = d * (n \div d) + (n % d)
  BY <1>1
<1> DEFINE p == n \div d
<1>3. p \in Int /\ q * d + r = p * d + (n % d)
  BY <1>2
<1>4. ASSUME p < q PROVE FALSE
  <2>1. (p + 1) * d <= q * d
    BY <1>3, <1>4
  <2> QED BY <1>2, <1>3, <2>1
<1>5. ASSUME q < p PROVE FALSE
  <2>1. (q + 1) * d <= p * d
    BY <1>3, <1>5
  <2> QED BY <1>2, <1>3, <2>1
<1>6. p = q
  BY <1>3, <1>4, <1>5
<1> QED BY <1>2, <1>3, <1>6

\* The tree has a whole number of entries at each level.
LEMMA SpanDivides ==
  \A level \in 0 .. Levels : \E n \in Nat : span[0] = n * span[level]
<1>0. Levels \in Nat \ {0} /\ Width \in Nat \ {0}
  BY AddressAssumption
<1> DEFINE S == {level \in 0 .. Levels : \E n \in Nat : span[0] = n * span[level]}
<1>1. 0 \in S
  <2>1. span[0] \in Nat /\ 0 \in 0 .. Levels
    BY <1>0, SpanValues
  <2>2. span[0] = 1 * span[0]
    BY <2>1
  <2> QED BY <2>1, <2>2
<1>2. ASSUME NEW level \in 0 .. Levels - 1, level \in S PROVE level + 1 \in S
  <2>1. PICK n \in Nat : span[0] = n * span[level]
    BY <1>2
  <2>2. level + 1 \in 1 .. Levels /\ level + 1 \in 0 .. Levels /\ (level + 1) - 1 = level
    BY <1>0
  <2>3. span[level] = Width * span[level + 1] /\ span[level + 1] \in Nat
    BY <2>2, SpanValues
  <2>4. span[0] = (n * Width) * span[level + 1] /\ n * Width \in Nat
    BY <1>0, <2>1, <2>3
  <2> QED BY <2>2, <2>4
<1> HIDE DEF S
<1>3. 0 .. Levels \subseteq S
  BY <1>0, <1>1, <1>2, IntervalInduction
<1> QED BY <1>3 DEF S

\* The first address of the entry at a level that stands for an address.
Start(va, level) == (va \div span[level]) * span[level]

Starts(level) == {a \in Address : Start(a, level) = a}

\* An entry of a table lies inside what the table stands for.
LEMMA StartOfEntry ==
  ASSUME NEW level \in 1 .. Levels, NEW a \in Starts(level - 1), NEW i \in Index
  PROVE  /\ a + i * span[level] \in Starts(level)
         /\ Start(a + i * span[level], level - 1) = a
         /\ IndexAt(a + i * span[level], level) = i
<1>0. Levels \in Nat \ {0} /\ Width \in Nat \ {0} /\ level - 1 \in 0 .. Levels /\ level \in 0 .. Levels
  BY AddressAssumption
<1>1. PICK s \in Nat \ {0} : s = span[level]
  BY <1>0, SpanValues
<1>2. PICK t \in Nat \ {0} : t = span[level - 1] /\ t = Width * s
  BY <1>0, <1>1, SpanValues
<1>3. a \in Nat /\ a < span[0] /\ a = (a \div t) * t /\ span[0] \in Nat
  BY <1>0, <1>2, SpanValues DEF Starts, Start, Address
<1>4. PICK q \in Nat : q = a \div t /\ a = q * t
  <2>1. a \div t \in Nat
    BY <1>3, DivisionBounds
  <2> QED BY <1>3, <2>1
<1>5. i \in Nat /\ i < Width
  BY <1>0 DEF Index
<1> DEFINE b == a + i * span[level]
<1>6. b = (q * Width + i) * s + 0 /\ q * Width + i \in Nat /\ 0 \in 0 .. s - 1
  BY <1>0, <1>1, <1>2, <1>4, <1>5
<1>7. b \div s = q * Width + i
  BY <1>6, DivideProduct
<1>8. i * s \in 0 .. t - 1
  <2>1. (i + 1) * s <= Width * s
    BY <1>0, <1>1, <1>5
  <2> QED BY <1>1, <1>2, <1>5, <2>1
<1>9. b = q * t + i * s
  BY <1>1, <1>4
<1>10. b \div t = q
  BY <1>8, <1>9, DivideProduct
<1>11. b \in Address
  <2>1. PICK n \in Nat : span[0] = n * t
    BY <1>0, <1>2, SpanDivides
  <2>2. q < n
    <3> SUFFICES ASSUME n <= q PROVE FALSE
      OBVIOUS
    <3>1. n * t <= q * t
      BY <3>1
    <3> QED BY <1>3, <1>4, <2>1, <3>1
  <2>3. (q + 1) * t <= n * t
    BY <2>2
  <2>4. q * t + t <= span[0]
    BY <2>1, <2>3
  <2>5. b \in Nat /\ b < q * t + t
    BY <1>8, <1>9
  <2> QED BY <1>3, <2>4, <2>5 DEF Address
<1>12. Start(b, level) = b
  BY <1>1, <1>6, <1>7 DEF Start
<1>13. Start(b, level - 1) = a
  BY <1>2, <1>4, <1>10 DEF Start
<1>14. IndexAt(b, level) = i
  <2>1. (q * Width + i) % Width = i
    BY <1>0, <1>5, DivideProduct
  <2> QED BY <1>1, <1>7, <2>1 DEF IndexAt
<1> QED BY <1>11, <1>12, <1>13, <1>14 DEF Starts

\* Each address has an entry at every level, in the table of the one above.
LEMMA EntryOfAddress ==
  ASSUME NEW level \in 1 .. Levels, NEW va \in Address
  PROVE  /\ Start(va, level - 1) \in Starts(level - 1)
         /\ Start(va, level) \in Starts(level)
         /\ IndexAt(va, level) \in Index
         /\ Start(va, level) = Start(va, level - 1) + IndexAt(va, level) * span[level]
<1>0. Levels \in Nat \ {0} /\ Width \in Nat \ {0} /\ level - 1 \in 0 .. Levels /\ level \in 0 .. Levels
  BY AddressAssumption
<1>1. PICK s \in Nat \ {0} : s = span[level]
  BY <1>0, SpanValues
<1>2. PICK t \in Nat \ {0} : t = span[level - 1] /\ t = Width * s
  BY <1>0, <1>1, SpanValues
<1>3. va \in Nat /\ span[0] \in Nat /\ va < span[0]
  BY <1>0, SpanValues DEF Address
<1>4. ASSUME NEW k \in 0 .. Levels PROVE Start(va, k) \in Starts(k)
  <2>1. PICK d \in Nat \ {0} : d = span[k]
    BY SpanValues
  <2>2. PICK q \in Nat : q = va \div d
    BY <1>3, DivisionBounds
  <2>3. q * d <= va /\ q * d \in Nat
    BY <1>3, <2>2, DivisionBounds
  <2>4. (q * d + 0) \div d = q
    BY <2>1, DivideProduct
  <2>5. Start(va, k) = q * d
    BY <2>1, <2>2 DEF Start
  <2>6. Start(q * d, k) = q * d
    BY <2>1, <2>3, <2>4 DEF Start
  <2> QED BY <1>3, <2>3, <2>5, <2>6 DEF Starts, Address
<1>5. PICK q \in Nat, r \in 0 .. s - 1 : q = va \div s /\ va = q * s + r
  <2>1. va \div s \in Nat /\ va % s \in 0 .. s - 1 /\ va = s * (va \div s) + (va % s)
    BY <1>3, DivisionBounds
  <2> QED BY <2>1
<1>6. PICK p \in Nat, i \in 0 .. Width - 1 : q = p * Width + i /\ i = q % Width
  <2>1. q \div Width \in Nat /\ q % Width \in 0 .. Width - 1 /\ q = Width * (q \div Width) + (q % Width)
    BY <1>0, DivisionBounds
  <2>2. PICK p \in Nat, i \in 0 .. Width - 1 : p = q \div Width /\ i = q % Width
    BY <2>1
  <2> QED BY <1>0, <2>1, <2>2
<1>7. i * s + r \in 0 .. t - 1
  <2>1. (i + 1) * s <= Width * s
    BY <1>0, <1>1, <1>6
  <2> QED BY <1>1, <1>2, <1>5, <1>6, <2>1
<1>8. va = p * t + (i * s + r)
  BY <1>0, <1>2, <1>5, <1>6
<1>9. va \div t = p
  BY <1>7, <1>8, DivideProduct
<1>10. IndexAt(va, level) = i
  BY <1>1, <1>5, <1>6 DEF IndexAt
<1>11. Start(va, level) = q * s /\ Start(va, level - 1) = p * t
  BY <1>1, <1>2, <1>5, <1>9 DEF Start
<1>12. q * s = p * t + i * s
  <2>1. (p * Width + i) * s = p * (Width * s) + i * s
    BY <1>0, <1>1, <1>6
  <2> QED BY <1>2, <1>6, <2>1
<1> QED BY <1>0, <1>1, <1>4, <1>6, <1>10, <1>11, <1>12 DEF Index

-----------------------------------------------------------------------------
(* Trees of tables                                                         *)

\* A tree is gone down level by level.
LEMMA CollectTurns ==
  ASSUME NEW n \in Nat, NEW tables, NEW root
  PROVE  \E run : /\ run[0] = {<<0, root>>}
                  /\ \A k \in 1 .. n : run[k] = Below(tables, run[k - 1], k)
                  /\ run[n] = Collect(tables, root, n)
<1> DEFINE levels == [level \in 1 .. n |-> level]
           base == {<<0, root>>}
           loop == [does |-> "collect", tables |-> tables, over |-> levels]
           Is(it) == it = [s \in SUBSET (1 .. n) |->
                             IF s = {} THEN base
                             ELSE Below(tables, it[s \ {Max(s)}], levels[Max(s)])]
<1>1. \A x, k : Turn(loop, x, k) = Below(tables, x, levels[k])
  BY DEF Turn
<1>2. Collect(tables, root, n) = (CHOOSE it : Is(it))[1 .. n]
  BY DEF Collect, FoldLeft, MapThenFoldSet
<1>3. \A k \in 1 .. n : levels[k] = k
  OBVIOUS
<1> HIDE DEF loop, levels, base
<1>4. \A it : IsLoop(it, n, loop, base) <=> Is(it)
  BY <1>1, Zenon DEF IsLoop
<1>5. \E it : Is(it)
  BY <1>4, LoopExists, Zenon
<1>6. PICK it : Is(it) /\ Collect(tables, root, n) = it[1 .. n]
  BY <1>2, <1>5, Zenon
<1>7. IsLoop(it, n, loop, base)
  BY <1>4, <1>6, Zenon
<1> HIDE DEF Is
<1>8. PICK run : IsTurns(run, n, loop, base) /\ run[n] = Collect(tables, root, n)
  BY <1>6, <1>7, LoopRuns
<1>9. run[0] = base /\ (\A k \in 1 .. n : run[k] = Turn(loop, run[k - 1], k))
  BY <1>8 DEF IsTurns
<1>10. ASSUME NEW k \in 1 .. n PROVE run[k] = Below(tables, run[k - 1], k)
  <2>1. run[k] = Below(tables, run[k - 1], levels[k])
    BY <1>1, <1>9, Zenon
  <2> QED BY <1>3, <2>1
<1> QED BY <1>8, <1>9, <1>10 DEF base

\* What is found at a level, from what is found at the one above it.
LEMMA CollectStep ==
  ASSUME NEW tables, NEW root
  PROVE  /\ Collect(tables, root, 0) = {<<0, root>>}
         /\ \A d \in Nat : Collect(tables, root, d + 1)
                              = Below(tables, Collect(tables, root, d), d + 1)
<1>1. Collect(tables, root, 0) = {<<0, root>>}
  BY CollectTurns, 0 \in Nat
<1>2. ASSUME NEW d \in Nat
      PROVE  Collect(tables, root, d + 1) = Below(tables, Collect(tables, root, d), d + 1)
  <2>1. PICK f : /\ f[0] = {<<0, root>>}
                 /\ \A k \in 1 .. d : f[k] = Below(tables, f[k - 1], k)
                 /\ f[d] = Collect(tables, root, d)
    BY CollectTurns
  <2>2. PICK g : /\ g[0] = {<<0, root>>}
                 /\ \A k \in 1 .. d + 1 : g[k] = Below(tables, g[k - 1], k)
                 /\ g[d + 1] = Collect(tables, root, d + 1)
    <3>1. PICK k \in Nat : k = d + 1
      OBVIOUS
    <3>2. PICK found : found = Collect(tables, root, k)
      OBVIOUS
    <3>3. \E g : /\ g[0] = {<<0, root>>}
                 /\ \A j \in 1 .. k : g[j] = Below(tables, g[j - 1], j)
                 /\ g[k] = found
      BY <3>2, CollectTurns, SMTT(30)
    <3> QED BY <3>1, <3>2, <3>3
  <2> DEFINE S == {k \in 0 .. d : f[k] = g[k]}
  <2>3. 0 \in S
    BY <2>1, <2>2, SMTT(30)
  <2>4. ASSUME NEW k \in 0 .. d - 1, k \in S PROVE k + 1 \in S
    <3>1. k + 1 \in 1 .. d /\ k + 1 \in 1 .. d + 1 /\ (k + 1) - 1 = k /\ k + 1 \in 0 .. d
      OBVIOUS
    <3>2. f[k + 1] = Below(tables, f[k], k + 1) /\ g[k + 1] = Below(tables, g[k], k + 1)
      BY <2>1, <2>2, <3>1, Zenon
    <3> QED BY <2>4, <3>1, <3>2
  <2> HIDE DEF S
  <2>5. d \in S
    <3>1. 0 .. d \subseteq S
      BY <2>3, <2>4, IntervalInduction
    <3> QED BY <3>1
  <2>6. f[d] = g[d]
    BY <2>5 DEF S
  <2>7. d + 1 \in 1 .. d + 1 /\ (d + 1) - 1 = d
    OBVIOUS
  <2>8. g[d + 1] = Below(tables, g[d], d + 1)
    BY <2>2, <2>7
  <2> QED BY <2>1, <2>2, <2>6, <2>8
<1> QED BY <1>1, <1>2

\* What the tables found at a level point to.
LEMMA BelowElements ==
  ASSUME NEW tables, NEW found, NEW level
  PROVE  \A n : n \in Below(tables, found, level) <=>
               \E m \in found, i \in Index :
                 /\ tables[m[2]][i] # Invalid
                 /\ n = <<m[1] + i * span[level], tables[m[2]][i]>>
<1> TAKE n
<1> DEFINE Made(e) == <<e[1][1] + e[2] * span[level], tables[e[1][2]][e[2]]>>
           Valid(e) == tables[e[1][2]][e[2]] # Invalid
<1>1. n \in Below(tables, found, level)
        <=> \E e \in found \X Index : Valid(e) /\ n = Made(e)
  BY Zenon DEF Below
<1>2. ASSUME NEW e \in found \X Index, Valid(e), n = Made(e)
      PROVE  \E m \in found, i \in Index :
               tables[m[2]][i] # Invalid /\ n = <<m[1] + i * span[level], tables[m[2]][i]>>
  <2>1. e[1] \in found /\ e[2] \in Index
    OBVIOUS
  <2> QED BY <1>2, <2>1, Zenon
<1>3. ASSUME NEW m \in found, NEW i \in Index, tables[m[2]][i] # Invalid,
             n = <<m[1] + i * span[level], tables[m[2]][i]>>
      PROVE  \E e \in found \X Index : Valid(e) /\ n = Made(e)
  <2>1. <<m, i>> \in found \X Index /\ <<m, i>>[1] = m /\ <<m, i>>[2] = i
    OBVIOUS
  <2>2. Valid(<<m, i>>) /\ n = Made(<<m, i>>)
    BY <1>3, <2>1
  <2> HIDE DEF Valid, Made
  <2> QED BY <2>1, <2>2
<1> QED BY <1>1, <1>2, <1>3, Zenon

\* The first address of each entry that is found is that of its level.
LEMMA FoundShape ==
  ASSUME NEW tables, NEW root
  PROVE  \A d \in 0 .. Levels : \A n \in Collect(tables, root, d) :
            n[1] \in Starts(d) /\ n = <<n[1], n[2]>>
<1>0. Levels \in Nat
  BY AddressAssumption
<1> DEFINE S == {d \in 0 .. Levels : \A n \in Collect(tables, root, d) :
                    n[1] \in Starts(d) /\ n = <<n[1], n[2]>>}
<1>1. 0 \in S
  <2>1. 0 \in Starts(0)
    <3>1. PICK s \in Nat \ {0} : s = span[0]
      BY <1>0, SpanValues
    <3>2. (0 * s + 0) \div s = 0
      BY DivideProduct
    <3> QED BY <3>1, <3>2 DEF Starts, Start, Address
  <2> QED BY <1>0, <2>1, CollectStep
<1>2. ASSUME NEW d \in 0 .. Levels - 1, d \in S PROVE d + 1 \in S
  <2>1. d + 1 \in 1 .. Levels /\ d + 1 \in 0 .. Levels /\ (d + 1) - 1 = d /\ d \in Nat
    BY <1>0
  <2>2. ASSUME NEW n \in Collect(tables, root, d + 1)
        PROVE  n[1] \in Starts(d + 1) /\ n = <<n[1], n[2]>>
    <3>1. PICK m \in Collect(tables, root, d), i \in Index :
            n = <<m[1] + i * span[d + 1], tables[m[2]][i]>>
      <4>1. n \in Below(tables, Collect(tables, root, d), d + 1)
        BY <2>1, CollectStep
      <4>2. \E m \in Collect(tables, root, d), i \in Index :
              /\ tables[m[2]][i] # Invalid
              /\ n = <<m[1] + i * span[d + 1], tables[m[2]][i]>>
        BY <4>1, BelowElements
      <4> QED BY <4>2
    <3>2. m[1] \in Starts(d)
      BY <1>2
    <3>3. m[1] + i * span[d + 1] \in Starts(d + 1)
      BY <2>1, <3>2, StartOfEntry
    <3> QED BY <3>1, <3>3
  <2> QED BY <2>1, <2>2
<1> HIDE DEF S
<1>3. 0 .. Levels \subseteq S
  BY <1>0, <1>1, <1>2, IntervalInduction
<1> QED BY <1>3 DEF S

\* An entry is found where its address leads to.
LEMMA FoundEntry ==
  ASSUME NEW tables, NEW root, NEW d \in 0 .. Levels - 1, NEW b \in Starts(d + 1), NEW y
  PROVE  <<b, y>> \in Collect(tables, root, d + 1) <=>
           /\ y # Invalid
           /\ \E x : /\ <<Start(b, d), x>> \in Collect(tables, root, d)
                    /\ y = tables[x][IndexAt(b, d + 1)]
<1>0. Levels \in Nat
  BY AddressAssumption
<1>1. d + 1 \in 1 .. Levels /\ (d + 1) - 1 = d /\ d \in Nat /\ d \in 0 .. Levels /\ d + 1 \in 0 .. Levels
  BY <1>0
<1>2. b \in Address /\ Start(b, d + 1) = b
  BY DEF Starts
<1>3. IndexAt(b, d + 1) \in Index /\ b = Start(b, d) + IndexAt(b, d + 1) * span[d + 1]
  BY <1>1, <1>2, EntryOfAddress
<1>4. <<b, y>> \in Collect(tables, root, d + 1) <=>
        \E m \in Collect(tables, root, d), i \in Index :
          tables[m[2]][i] # Invalid /\ <<b, y>> = <<m[1] + i * span[d + 1], tables[m[2]][i]>>
  <2>1. Collect(tables, root, d + 1) = Below(tables, Collect(tables, root, d), d + 1)
    BY <1>1, CollectStep
  <2>2. PICK e : e = <<b, y>>
    OBVIOUS
  <2>3. e \in Collect(tables, root, d + 1) <=>
          \E m \in Collect(tables, root, d), i \in Index :
            tables[m[2]][i] # Invalid /\ e = <<m[1] + i * span[d + 1], tables[m[2]][i]>>
    <3>1. PICK found : found = Collect(tables, root, d)
      OBVIOUS
    <3>2. PICK level : level = d + 1
      OBVIOUS
    <3>3. e \in Below(tables, found, level) <=>
            \E m \in found, i \in Index :
              tables[m[2]][i] # Invalid /\ e = <<m[1] + i * span[level], tables[m[2]][i]>>
      BY BelowElements
    <3>4. Collect(tables, root, d + 1) = Below(tables, found, level)
      BY <2>1, <3>1, <3>2
    <3> QED BY <3>1, <3>2, <3>3, <3>4
  <2> QED BY <2>2, <2>3
<1>5. ASSUME <<b, y>> \in Collect(tables, root, d + 1)
      PROVE  /\ y # Invalid
             /\ \E x : /\ <<Start(b, d), x>> \in Collect(tables, root, d)
                      /\ y = tables[x][IndexAt(b, d + 1)]
  <2>1. PICK m \in Collect(tables, root, d), i \in Index :
          tables[m[2]][i] # Invalid /\ <<b, y>> = <<m[1] + i * span[d + 1], tables[m[2]][i]>>
    BY <1>4, <1>5
  <2>2. m[1] \in Starts(d) /\ m = <<m[1], m[2]>>
    BY <1>1, FoundShape
  <2>3. Start(b, d) = m[1] /\ IndexAt(b, d + 1) = i
    <3>1. b = m[1] + i * span[d + 1]
      BY <2>1
    <3> QED BY <1>1, <2>2, <3>1, StartOfEntry
  <2> QED BY <2>1, <2>2, <2>3
<1>6. ASSUME y # Invalid,
             NEW x, <<Start(b, d), x>> \in Collect(tables, root, d), y = tables[x][IndexAt(b, d + 1)]
      PROVE  <<b, y>> \in Collect(tables, root, d + 1)
  <2> DEFINE m == <<Start(b, d), x>>
             i == IndexAt(b, d + 1)
  <2>1. m \in Collect(tables, root, d) /\ i \in Index /\ m[1] = Start(b, d) /\ m[2] = x
    BY <1>3, <1>6
  <2>2. <<b, y>> = <<m[1] + i * span[d + 1], tables[m[2]][i]>> /\ tables[m[2]][i] # Invalid
    BY <1>3, <1>6
  <2> HIDE DEF m, i
  <2> QED BY <1>4, <2>1, <2>2
<1> QED BY <1>5, <1>6

\* The same tables yield the same below them.
LEMMA BelowSame ==
  ASSUME NEW tables, NEW others, NEW found, NEW level,
         \A n \in found : \A i \in Index : others[n[2]][i] = tables[n[2]][i]
  PROVE  Below(others, found, level) = Below(tables, found, level)
<1>1. ASSUME NEW n PROVE n \in Below(others, found, level) <=> n \in Below(tables, found, level)
  <2>1. n \in Below(others, found, level) <=>
          \E m \in found, i \in Index :
            others[m[2]][i] # Invalid /\ n = <<m[1] + i * span[level], others[m[2]][i]>>
    BY BelowElements, SMTT(30)
  <2>2. n \in Below(tables, found, level) <=>
          \E m \in found, i \in Index :
            tables[m[2]][i] # Invalid /\ n = <<m[1] + i * span[level], tables[m[2]][i]>>
    BY BelowElements, SMTT(30)
  <2>3. \A m \in found, i \in Index : others[m[2]][i] = tables[m[2]][i]
    OBVIOUS
  <2> QED BY <2>1, <2>2, <2>3, ZenonT(30)
<1> QED BY <1>1, Zenon

\* A tree is the same where the tables that lead there are.
LEMMA SameTree ==
  ASSUME NEW tables, NEW others, NEW root, NEW k \in 0 .. Levels,
         \A d \in 0 .. k - 1 : \A n \in Collect(tables, root, d) :
            \A i \in Index : others[n[2]][i] = tables[n[2]][i]
  PROVE  \A d \in 0 .. k : Collect(others, root, d) = Collect(tables, root, d)
<1>0. Levels \in Nat /\ k \in Nat
  BY AddressAssumption
<1> DEFINE S == {d \in 0 .. k : Collect(others, root, d) = Collect(tables, root, d)}
<1>1. 0 \in S
  BY <1>0, CollectStep
<1>2. ASSUME NEW d \in 0 .. k - 1, d \in S PROVE d + 1 \in S
  <2>1. d \in Nat /\ d + 1 \in 0 .. k
    BY <1>0
  <2>2. /\ Collect(others, root, d + 1) = Below(others, Collect(others, root, d), d + 1)
        /\ Collect(tables, root, d + 1) = Below(tables, Collect(tables, root, d), d + 1)
    BY <2>1, CollectStep
  <2>3. Collect(others, root, d) = Collect(tables, root, d)
    BY <1>2
  <2>4. Below(others, Collect(tables, root, d), d + 1) = Below(tables, Collect(tables, root, d), d + 1)
    BY BelowSame
  <2> QED BY <2>1, <2>2, <2>3, <2>4
<1> HIDE DEF S
<1>3. 0 .. k \subseteq S
  BY <1>0, <1>1, <1>2, IntervalInduction
<1> QED BY <1>3 DEF S

(***************************************************************************)
(* What the tables on the heap are: trees of the roots R, which share no   *)
(* table and leave out none.                                               *)
(***************************************************************************)
NoSharing(tables, R) ==
  \A r, s \in R : \A i, j \in 0 .. Levels - 1 :
    \A m \in Collect(tables, r, i), n \in Collect(tables, s, j) :
      m[2] = n[2] => r = s /\ i = j /\ m = n

Rooted(tables, R) ==
  \A id \in DOMAIN tables : \E r \in R : \E d \in 0 .. Levels - 1 :
    \E n \in Collect(tables, r, d) : n[2] = id

Forest(tables, R) ==
  /\ DOMAIN tables \subseteq Nat /\ IsFiniteSet(DOMAIN tables)
  /\ \A id \in DOMAIN tables : tables[id] \in [Index -> Int]
  /\ \A r \in R : \A d \in 0 .. Levels - 1 : \A n \in Collect(tables, r, d) : n[2] \in DOMAIN tables
  /\ \A r \in R : \A n \in Collect(tables, r, Levels) : n[2] \in Address
  /\ NoSharing(tables, R)
  /\ Rooted(tables, R)

Same(tables, others, root) ==
  \A d \in 0 .. Levels : Collect(others, root, d) = Collect(tables, root, d)

\* The tables when an entry of one has got a new one, and when it has got a page.
WithTable(tables, x, index, new) == With([tables EXCEPT ![x][index] = new], new, Empty)

WithPage(tables, x, index, pa) == [tables EXCEPT ![x][index] = pa]

\* With changes a function at one place.
LEMMA WithValues ==
  ASSUME NEW f, NEW x, NEW y
  PROVE  /\ DOMAIN With(f, x, y) = DOMAIN f \cup {x}
         /\ With(f, x, y)[x] = y
         /\ \A z \in DOMAIN f \ {x} : With(f, x, y)[z] = f[z]
BY DEF With

\* A number that names no table yet is found.
LEMMA NewIdIsNew ==
  ASSUME NEW tables, DOMAIN tables \subseteq Nat, IsFiniteSet(DOMAIN tables)
  PROVE  NewId(tables) \in Nat \ DOMAIN tables
<1> DEFINE D == DOMAIN tables
           c == Cardinality(D)
<1>1. c \in Nat
  BY FS_CardinalityType
<1>2. IsFiniteSet(0 .. c) /\ Cardinality(0 .. c) = c + 1
  BY <1>1, FS_Interval
<1>3. \E id \in 0 .. c : id \notin D
  <2> SUFFICES ASSUME 0 .. c \subseteq D PROVE FALSE
    OBVIOUS
  <2>1. Cardinality(0 .. c) <= Cardinality(D)
    BY FS_Subset
  <2> QED BY <1>1, <1>2, <2>1
<1>4. NewId(tables) \in 0 .. c /\ NewId(tables) \notin D
  BY <1>3, Zenon DEF NewId
<1> QED BY <1>1, <1>4

\* A new table is the tree of a new root.
LEMMA ForestNewRoot ==
  ASSUME NEW tables, NEW R, Forest(tables, R), NEW new \in Nat \ DOMAIN tables
  PROVE  LET others == With(tables, new, Empty)
         IN  /\ Forest(others, R \cup {new})
             /\ \A s \in R : Same(tables, others, s)
             /\ Collect(others, new, Levels) = {}
             /\ new \notin R
<1>0. Levels \in Nat \ {0}
  BY AddressAssumption
<1> DEFINE U == With(tables, new, Empty)
           C(r, d) == Collect(tables, r, d)
           E(r, d) == Collect(U, r, d)
<1>1. /\ DOMAIN U = DOMAIN tables \cup {new}
      /\ U[new] = Empty
      /\ \A z \in DOMAIN tables : U[z] = tables[z]
  BY DEF With
<1> HIDE DEF U
<1>2. ASSUME NEW s \in R PROVE Same(tables, U, s)
  <2>1. ASSUME NEW d \in 0 .. Levels - 1, NEW n \in C(s, d), NEW i \in Index
        PROVE  U[n[2]][i] = tables[n[2]][i]
    BY <1>1 DEF Forest
  <2>2. Levels \in 0 .. Levels
    BY <1>0
  <2>3. \A d \in 0 .. Levels : Collect(U, s, d) = Collect(tables, s, d)
    BY <2>1, <2>2, SameTree
  <2> QED BY <2>3 DEF Same
<1>3. new \notin R
  <2> SUFFICES ASSUME new \in R PROVE FALSE
    OBVIOUS
  <2>1. <<0, new>> \in C(new, 0) /\ 0 \in 0 .. Levels - 1
    BY <1>0, CollectStep
  <2> QED BY <2>1 DEF Forest
<1>4. E(new, 0) = {<<0, new>>} /\ \A d \in 1 .. Levels : E(new, d) = {}
  <2>1. E(new, 0) = {<<0, new>>}
    BY CollectStep
  <2>2. ASSUME NEW found, \A m \in found : m[2] = new, NEW level PROVE Below(U, found, level) = {}
    <3>1. \A m \in found, i \in Index : U[m[2]][i] = Invalid
      BY <1>1, <2>2 DEF Empty
    <3> SUFFICES ASSUME NEW n \in Below(U, found, level) PROVE FALSE
      OBVIOUS
    <3>2. PICK m \in found, i \in Index :
            U[m[2]][i] # Invalid /\ n = <<m[1] + i * span[level], U[m[2]][i]>>
      BY BelowElements
    <3> QED BY <3>1, <3>2
  <2> DEFINE S == {d \in 0 .. Levels - 1 : E(new, d + 1) = {}}
  <2>3. 0 \in S
    <3>1. E(new, 0 + 1) = Below(U, E(new, 0), 0 + 1)
      BY CollectStep, 0 \in Nat
    <3> QED BY <1>0, <2>1, <2>2, <3>1
  <2>4. ASSUME NEW d \in 0 .. (Levels - 1) - 1, d \in S PROVE d + 1 \in S
    <3>1. d + 1 \in Nat /\ d + 1 \in 0 .. Levels - 1
      BY <1>0
    <3>2. E(new, (d + 1) + 1) = Below(U, E(new, d + 1), (d + 1) + 1)
      BY <3>1, CollectStep
    <3>3. E(new, d + 1) = {}
      BY <2>4
    <3> QED BY <2>2, <3>1, <3>2, <3>3
  <2> HIDE DEF S
  <2>5. 0 .. Levels - 1 \subseteq S
    BY <1>0, <2>3, <2>4, IntervalInduction
  <2>6. ASSUME NEW d \in 1 .. Levels PROVE E(new, d) = {}
    <3>1. d - 1 \in S /\ (d - 1) + 1 = d
      BY <1>0, <2>5
    <3> QED BY <3>1 DEF S
  <2> QED BY <2>1, <2>6
<1>5. \A s \in R : \A d \in 0 .. Levels : E(s, d) = C(s, d)
  BY <1>2 DEF Same
<1>6. \A d \in 0 .. Levels - 1 : d \in 0 .. Levels
  BY <1>0
<1> HIDE DEF C, E
<1>7. ASSUME NEW s \in R \cup {new}, NEW d \in 0 .. Levels - 1, NEW n \in E(s, d)
      PROVE  \/ s \in R /\ n \in C(s, d) /\ n[2] \in DOMAIN tables
             \/ s = new /\ d = 0 /\ n = <<0, new>>
  <2>1. CASE s \in R
    <3>1. n \in C(s, d)
      BY <1>5, <1>6, <1>7, <2>1
    <3> QED BY <2>1, <3>1 DEF Forest, C
  <2>2. CASE s = new
    <3>1. d = 0 \/ d \in 1 .. Levels
      BY <1>0
    <3> QED BY <1>4, <1>7, <2>2, <3>1
  <2> QED BY <2>1, <2>2
<1>8. DOMAIN U \subseteq Nat /\ IsFiniteSet(DOMAIN U)
  BY <1>1, FS_AddElement DEF Forest
<1>9. \A id \in DOMAIN U : U[id] \in [Index -> Int]
  BY <1>1 DEF Forest, Empty, Invalid
<1>10. \A r \in R \cup {new} : \A d \in 0 .. Levels - 1 : \A n \in E(r, d) : n[2] \in DOMAIN U
  BY <1>1, <1>7
<1>11. \A r \in R \cup {new} : \A n \in E(r, Levels) : n[2] \in Address
  BY <1>0, <1>4, <1>5 DEF Forest, C
<1>12. NoSharing(U, R \cup {new})
  <2> SUFFICES ASSUME NEW r \in R \cup {new}, NEW s \in R \cup {new},
                      NEW i \in 0 .. Levels - 1, NEW j \in 0 .. Levels - 1,
                      NEW m \in E(r, i), NEW n \in E(s, j), m[2] = n[2]
               PROVE  r = s /\ i = j /\ m = n
    BY DEF NoSharing, E
  <2>1. \/ r \in R /\ m \in C(r, i) /\ m[2] \in DOMAIN tables
        \/ r = new /\ i = 0 /\ m = <<0, new>>
    BY <1>7
  <2>2. \/ s \in R /\ n \in C(s, j) /\ n[2] \in DOMAIN tables
        \/ s = new /\ j = 0 /\ n = <<0, new>>
    BY <1>7
  <2> QED BY <2>1, <2>2 DEF Forest, NoSharing, C
<1>13. Rooted(U, R \cup {new})
  <2> SUFFICES ASSUME NEW id \in DOMAIN U
               PROVE  \E r \in R \cup {new} : \E d \in 0 .. Levels - 1 : \E n \in E(r, d) : n[2] = id
    BY DEF Rooted, E
  <2>1. CASE id = new
    <3>1. <<0, new>> \in E(new, 0) /\ 0 \in 0 .. Levels - 1 /\ <<0, new>>[2] = new
      BY <1>0, <1>4
    <3> QED BY <2>1, <3>1
  <2>2. CASE id \in DOMAIN tables
    <3>1. PICK r \in R, d \in 0 .. Levels - 1 : \E n \in C(r, d) : n[2] = id
      BY <2>2 DEF Forest, Rooted, C
    <3> QED BY <1>5, <1>6, <3>1
  <2> QED BY <1>1, <2>1, <2>2
<1>14. Forest(U, R \cup {new})
  BY <1>8, <1>9, <1>10, <1>11, <1>12, <1>13 DEF Forest, E
<1>15. Collect(U, new, Levels) = {}
  BY <1>0, <1>4 DEF E
<1> QED BY <1>2, <1>3, <1>14, <1>15 DEF U

\* An entry that is not in use gets a new table.
LEMMA ForestNewTable ==
  ASSUME NEW tables, NEW R, Forest(tables, R), NEW root \in R,
         NEW k \in 0 .. Levels - 2, NEW a, NEW x, <<a, x>> \in Collect(tables, root, k),
         NEW index \in Index, tables[x][index] = Invalid,
         NEW new \in Nat \ DOMAIN tables
  PROVE  /\ Forest(WithTable(tables, x, index, new), R)
         /\ \A s \in R \ {root} : Same(tables, WithTable(tables, x, index, new), s)
         /\ Collect(WithTable(tables, x, index, new), root, Levels) = Collect(tables, root, Levels)
         /\ <<a + index * span[k + 1], new>> \in Collect(WithTable(tables, x, index, new), root, k + 1)
<1>0. Levels \in Nat \ {0, 1} /\ k \in Nat /\ k \in 0 .. Levels - 1 /\ k + 1 \in 0 .. Levels - 1
      /\ k \in 0 .. Levels /\ Levels \in 0 .. Levels
  BY AddressAssumption
<1> DEFINE U == WithTable(tables, x, index, new)
           C(r, d) == Collect(tables, r, d)
           E(r, d) == Collect(U, r, d)
           e == a + index * span[k + 1]
<1>x. x \in DOMAIN tables /\ <<a, x>>[2] = x
  BY <1>0 DEF Forest
<1>1. /\ DOMAIN U = DOMAIN tables \cup {new}
      /\ U[new] = Empty
      /\ \A z \in DOMAIN tables \ {x} : U[z] = tables[z]
      /\ U[x] = [tables[x] EXCEPT ![index] = new]
  BY <1>x DEF With, WithTable
<1> HIDE DEF U
<1>2. /\ tables[x] \in [Index -> Int] /\ U[x] \in [Index -> Int] /\ U[x][index] = new
      /\ \A i \in Index \ {index} : U[x][i] = tables[x][i]
  BY <1>1, <1>x DEF Forest
<1>3. ASSUME NEW s \in R, NEW d \in 0 .. Levels - 1, s # root \/ d # k,
             NEW n \in C(s, d), NEW i \in Index
      PROVE  U[n[2]][i] = tables[n[2]][i]
  <2>1. n[2] \in DOMAIN tables
    BY DEF Forest
  <2>2. n[2] # x
    <3> SUFFICES ASSUME n[2] = x PROVE FALSE
      OBVIOUS
    <3>1. NoSharing(tables, R)
      BY DEF Forest
    <3>2. s = root /\ d = k
      BY <1>0, <1>x, <3>1 DEF NoSharing
    <3> QED BY <1>3, <3>2
  <2> QED BY <1>1, <2>1, <2>2
<1>4. ASSUME NEW s \in R \ {root} PROVE Same(tables, U, s)
  <2>1. \A d \in 0 .. Levels - 1 : \A n \in C(s, d) : \A i \in Index : U[n[2]][i] = tables[n[2]][i]
    BY <1>3
  <2>2. Levels \in 0 .. Levels
    BY <1>0
  <2>3. \A d \in 0 .. Levels : Collect(U, s, d) = Collect(tables, s, d)
    BY <2>1, <2>2, SameTree
  <2> QED BY <2>3 DEF Same
<1>5. \A d \in 0 .. k : E(root, d) = C(root, d)
  <2>1. \A d \in 0 .. k - 1 : \A n \in C(root, d) : \A i \in Index : U[n[2]][i] = tables[n[2]][i]
    <3> SUFFICES ASSUME NEW d \in 0 .. k - 1 PROVE \A n \in C(root, d) : \A i \in Index : U[n[2]][i] = tables[n[2]][i]
      OBVIOUS
    <3>1. d \in 0 .. Levels - 1 /\ d # k
      BY <1>0
    <3> QED BY <1>3, <3>1
  <2>2. k \in 0 .. Levels
    BY <1>0
  <2> QED BY <2>1, <2>2, SameTree
<1>s. /\ E(root, k + 1) = Below(U, C(root, k), k + 1)
      /\ C(root, k + 1) = Below(tables, C(root, k), k + 1)
  <2>1. E(root, k) = C(root, k)
    BY <1>0, <1>5
  <2>2. k \in Nat
    BY <1>0
  <2>3. E(root, k + 1) = Below(U, E(root, k), k + 1) /\ C(root, k + 1) = Below(tables, C(root, k), k + 1)
    BY <2>2, CollectStep
  <2> QED BY <2>1, <2>3
<1>6. ASSUME NEW n PROVE n \in E(root, k + 1) <=> n \in C(root, k + 1) \/ n = <<e, new>>
  <2>1. n \in E(root, k + 1) <=>
          \E m \in C(root, k), i \in Index :
            U[m[2]][i] # Invalid /\ n = <<m[1] + i * span[k + 1], U[m[2]][i]>>
    BY <1>s, BelowElements
  <2>2. n \in C(root, k + 1) <=>
          \E m \in C(root, k), i \in Index :
            tables[m[2]][i] # Invalid /\ n = <<m[1] + i * span[k + 1], tables[m[2]][i]>>
    BY <1>s, BelowElements
  <2>3. ASSUME NEW m \in C(root, k), NEW i \in Index
        PROVE  IF m = <<a, x>> /\ i = index
               THEN /\ tables[m[2]][i] = Invalid
                    /\ U[m[2]][i] = new
               ELSE U[m[2]][i] = tables[m[2]][i]
    <3>1. CASE m = <<a, x>>
      <4>1. m[2] = x
        BY <3>1
      <4> QED BY <1>2, <3>1, <4>1
    <3>2. CASE m # <<a, x>>
      <4>1. m[2] # x
        <5> SUFFICES ASSUME m[2] = x PROVE FALSE
          OBVIOUS
        <5>1. NoSharing(tables, R)
          BY DEF Forest
        <5>2. m = <<a, x>>
          BY <1>0, <1>x, <5>1 DEF NoSharing
        <5> QED BY <3>2, <5>2
      <4>2. m[2] \in DOMAIN tables
        BY <1>0 DEF Forest
      <4> QED BY <1>1, <3>2, <4>1, <4>2
    <3> QED BY <3>1, <3>2
  <2>4. <<a, x>>[1] = a /\ <<a, x>>[2] = x /\ new # Invalid
    BY DEF Invalid
  <2>5. ASSUME n \in E(root, k + 1) PROVE n \in C(root, k + 1) \/ n = <<e, new>>
    <3>1. PICK m \in C(root, k), i \in Index :
            U[m[2]][i] # Invalid /\ n = <<m[1] + i * span[k + 1], U[m[2]][i]>>
      BY <2>1, <2>5
    <3>2. CASE m = <<a, x>> /\ i = index
      <4>1. m[1] = a /\ U[m[2]][i] = new
        BY <2>3, <2>4, <3>2
      <4> QED BY <3>1, <3>2, <4>1
    <3>3. CASE ~(m = <<a, x>> /\ i = index)
      <4>1. U[m[2]][i] = tables[m[2]][i]
        BY <2>3, <3>3
      <4> QED BY <2>2, <3>1, <4>1
    <3> QED BY <3>2, <3>3
  <2>6. ASSUME n \in C(root, k + 1) PROVE n \in E(root, k + 1)
    <3>1. PICK m \in C(root, k), i \in Index :
            tables[m[2]][i] # Invalid /\ n = <<m[1] + i * span[k + 1], tables[m[2]][i]>>
      BY <2>2, <2>6
    <3>2. U[m[2]][i] = tables[m[2]][i]
      BY <2>3, <3>1
    <3> QED BY <2>1, <3>1, <3>2
  <2>7. ASSUME n = <<e, new>> PROVE n \in E(root, k + 1)
    <3>1. PICK m \in C(root, k) : m = <<a, x>>
      OBVIOUS
    <3>2. m[1] = a /\ U[m[2]][index] = new
      BY <2>3, <2>4, <3>1
    <3>3. U[m[2]][index] # Invalid /\ n = <<m[1] + index * span[k + 1], U[m[2]][index]>>
      BY <2>4, <2>7, <3>2
    <3> QED BY <2>1, <3>3
  <2> QED BY <2>5, <2>6, <2>7
<1>7. \A d \in k + 2 .. Levels : E(root, d) = C(root, d)
  <2> DEFINE S == {d \in 0 .. Levels - k - 2 : E(root, k + 2 + d) = C(root, k + 2 + d)}
  <2>1. ASSUME NEW d \in k + 1 .. Levels - 1,
               E(root, d) = C(root, d) \/ (d = k + 1 /\ E(root, d) = C(root, d) \cup {<<e, new>>})
        PROVE  E(root, d + 1) = C(root, d + 1)
    <3>1. d \in Nat /\ d \in 0 .. Levels - 1 /\ d # k
      BY <1>0
    <3>2. E(root, d + 1) = Below(U, E(root, d), d + 1) /\ C(root, d + 1) = Below(tables, C(root, d), d + 1)
      BY <3>1, CollectStep
    <3>3. Below(U, C(root, d), d + 1) = Below(tables, C(root, d), d + 1)
      <4>1. \A n \in C(root, d) : \A i \in Index : U[n[2]][i] = tables[n[2]][i]
        BY <1>3, <3>1
      <4> QED BY <4>1, BelowSame
    <3>4. ASSUME E(root, d) = C(root, d) \cup {<<e, new>>}, NEW n
          PROVE  n \in Below(U, E(root, d), d + 1) <=> n \in Below(U, C(root, d), d + 1)
      <4>1. n \in Below(U, E(root, d), d + 1) <=>
              \E m \in E(root, d), i \in Index :
                U[m[2]][i] # Invalid /\ n = <<m[1] + i * span[d + 1], U[m[2]][i]>>
        BY BelowElements
      <4>2. n \in Below(U, C(root, d), d + 1) <=>
              \E m \in C(root, d), i \in Index :
                U[m[2]][i] # Invalid /\ n = <<m[1] + i * span[d + 1], U[m[2]][i]>>
        BY BelowElements
      <4>3. \A i \in Index : U[<<e, new>>[2]][i] = Invalid
        BY <1>1 DEF Empty
      <4> HIDE DEF e
      <4> QED BY <3>4, <4>1, <4>2, <4>3
    <3>5. CASE E(root, d) = C(root, d)
      BY <3>2, <3>3, <3>5
    <3>6. CASE E(root, d) = C(root, d) \cup {<<e, new>>}
      <4>1. Below(U, E(root, d), d + 1) = Below(U, C(root, d), d + 1)
        BY <3>4, <3>6
      <4> QED BY <3>2, <3>3, <4>1
    <3> QED BY <2>1, <3>5, <3>6
  <2>2. E(root, k + 1) = C(root, k + 1) \cup {<<e, new>>}
    BY <1>6
  <2> HIDE DEF E, C, e
  <2>3. 0 \in S
    <3>1. k + 1 \in k + 1 .. Levels - 1 /\ (k + 1) + 1 = k + 2 + 0 /\ 0 \in 0 .. Levels - k - 2
      BY <1>0
    <3>2. E(root, (k + 1) + 1) = C(root, (k + 1) + 1)
      BY <2>1, <2>2, <3>1
    <3> QED BY <3>1, <3>2
  <2>4. ASSUME NEW d \in 0 .. (Levels - k - 2) - 1, d \in S PROVE d + 1 \in S
    <3>1. k + 2 + d \in k + 1 .. Levels - 1 /\ (k + 2 + d) + 1 = k + 2 + (d + 1) /\ d + 1 \in 0 .. Levels - k - 2
      BY <1>0
    <3>2. E(root, k + 2 + d) = C(root, k + 2 + d)
      BY <2>4
    <3>3. E(root, (k + 2 + d) + 1) = C(root, (k + 2 + d) + 1)
      BY <2>1, <3>1, <3>2
    <3> QED BY <3>1, <3>3
  <2> HIDE DEF S
  <2>5. 0 .. Levels - k - 2 \subseteq S
    BY <1>0, <2>3, <2>4, IntervalInduction
  <2>6. ASSUME NEW d \in k + 2 .. Levels PROVE E(root, d) = C(root, d)
    <3>1. d - k - 2 \in S /\ k + 2 + (d - k - 2) = d
      BY <1>0, <2>5
    <3> QED BY <3>1 DEF S
  <2> QED BY <2>6
<1>8. <<e, new>> \in E(root, k + 1)
  BY <1>6
<1>9. \A s \in R \ {root} : \A d \in 0 .. Levels : E(s, d) = C(s, d)
  BY <1>4 DEF Same
<1> HIDE DEF C, E, e
<1>10. ASSUME NEW s \in R, NEW d \in 0 .. Levels
       PROVE  /\ C(s, d) \subseteq E(s, d)
              /\ \A n \in E(s, d) : n \in C(s, d) \/ (s = root /\ d = k + 1 /\ n = <<e, new>>)
  <2>1. CASE s # root
    BY <1>9, <2>1
  <2>2. CASE s = root
    <3>1. d \in 0 .. k \/ d = k + 1 \/ d \in k + 2 .. Levels
      BY <1>0
    <3>2. CASE d \in 0 .. k
      BY <1>5, <2>2, <3>2
    <3>3. CASE d = k + 1
      BY <1>6, <2>2, <3>3
    <3>4. CASE d \in k + 2 .. Levels
      BY <1>7, <2>2, <3>4
    <3> QED BY <3>1, <3>2, <3>3, <3>4
  <2> QED BY <2>1, <2>2
<1>11. ASSUME NEW s \in R, NEW d \in 0 .. Levels - 1, NEW n \in E(s, d)
       PROVE  \/ n \in C(s, d) /\ n[2] \in DOMAIN tables
              \/ s = root /\ d = k + 1 /\ n = <<e, new>> /\ n[2] = new
  <2>1. d \in 0 .. Levels
    BY <1>0
  <2>2. n \in C(s, d) \/ (s = root /\ d = k + 1 /\ n = <<e, new>>)
    BY <1>10, <1>11, <2>1
  <2> QED BY <2>2 DEF Forest, C
<1>12. DOMAIN U \subseteq Nat /\ IsFiniteSet(DOMAIN U)
  BY <1>1, FS_AddElement DEF Forest
<1>13. \A id \in DOMAIN U : U[id] \in [Index -> Int]
  BY <1>1, <1>2 DEF Forest, Empty, Invalid
<1>14. \A r \in R : \A d \in 0 .. Levels - 1 : \A n \in E(r, d) : n[2] \in DOMAIN U
  BY <1>1, <1>11
<1>15. \A r \in R : E(r, Levels) = C(r, Levels)
  <2>1. Levels \in k + 2 .. Levels
    BY <1>0
  <2> QED BY <1>0, <1>7, <1>9, <2>1
<1>16. NoSharing(U, R)
  <2> SUFFICES ASSUME NEW r \in R, NEW s \in R,
                      NEW i \in 0 .. Levels - 1, NEW j \in 0 .. Levels - 1,
                      NEW m \in E(r, i), NEW n \in E(s, j), m[2] = n[2]
               PROVE  r = s /\ i = j /\ m = n
    BY DEF NoSharing, E
  <2>1. \/ m \in C(r, i) /\ m[2] \in DOMAIN tables
        \/ r = root /\ i = k + 1 /\ m = <<e, new>> /\ m[2] = new
    BY <1>11
  <2>2. \/ n \in C(s, j) /\ n[2] \in DOMAIN tables
        \/ s = root /\ j = k + 1 /\ n = <<e, new>> /\ n[2] = new
    BY <1>11
  <2> QED BY <2>1, <2>2 DEF Forest, NoSharing, C
<1>17. Rooted(U, R)
  <2> SUFFICES ASSUME NEW id \in DOMAIN U
               PROVE  \E r \in R : \E d \in 0 .. Levels - 1 : \E n \in E(r, d) : n[2] = id
    BY DEF Rooted, E
  <2>1. CASE id = new
    <3>1. <<e, new>>[2] = new
      OBVIOUS
    <3> QED BY <1>0, <1>8, <2>1, <3>1
  <2>2. CASE id \in DOMAIN tables
    <3>1. PICK r \in R, d \in 0 .. Levels - 1 : \E n \in C(r, d) : n[2] = id
      BY <2>2 DEF Forest, Rooted, C
    <3>2. d \in 0 .. Levels
      BY <1>0
    <3> QED BY <1>10, <3>1, <3>2
  <2> QED BY <1>1, <2>1, <2>2
<1>18. Forest(U, R)
  <2>1. \A r \in R : \A n \in E(r, Levels) : n[2] \in Address
    BY <1>15 DEF Forest, C
  <2> QED BY <1>12, <1>13, <1>14, <1>16, <1>17, <2>1 DEF Forest, E
<1>19. E(root, Levels) = C(root, Levels)
  BY <1>15
<1> QED BY <1>4, <1>8, <1>18, <1>19 DEF U, C, E, e

\* At each address one thing is found.
LEMMA FoundOnce ==
  ASSUME NEW tables, NEW root
  PROVE  \A d \in 0 .. Levels : \A m, n \in Collect(tables, root, d) : m[1] = n[1] => m = n
<1>0. Levels \in Nat
  BY AddressAssumption
<1> DEFINE S == {d \in 0 .. Levels : \A m, n \in Collect(tables, root, d) : m[1] = n[1] => m = n}
<1>1. 0 \in S
  BY <1>0, CollectStep
<1>2. ASSUME NEW d \in 0 .. Levels - 1, d \in S PROVE d + 1 \in S
  <2>1. d + 1 \in 0 .. Levels /\ d \in 0 .. Levels
    BY <1>0
  <2>2. ASSUME NEW m \in Collect(tables, root, d + 1), NEW n \in Collect(tables, root, d + 1), m[1] = n[1]
        PROVE  m = n
    <3>1. m[1] \in Starts(d + 1) /\ m = <<m[1], m[2]>> /\ n = <<n[1], n[2]>>
      BY <2>1, FoundShape
    <3>2. PICK b \in Starts(d + 1) : b = m[1]
      BY <3>1
    <3>3. PICK y, z : y = m[2] /\ z = n[2]
      OBVIOUS
    <3>4. <<b, y>> \in Collect(tables, root, d + 1) /\ <<b, z>> \in Collect(tables, root, d + 1)
      BY <2>2, <3>1, <3>2, <3>3
    <3>5. PICK x : <<Start(b, d), x>> \in Collect(tables, root, d) /\ y = tables[x][IndexAt(b, d + 1)]
      BY <3>4, FoundEntry
    <3>6. PICK w : <<Start(b, d), w>> \in Collect(tables, root, d) /\ z = tables[w][IndexAt(b, d + 1)]
      BY <3>4, FoundEntry
    <3>7. \A k, l \in Collect(tables, root, d) : k[1] = l[1] => k = l
      BY <1>2
    <3>8. x = w
      <4>1. <<Start(b, d), x>>[1] = Start(b, d) /\ <<Start(b, d), w>>[1] = Start(b, d)
        OBVIOUS
      <4> QED BY <3>5, <3>6, <3>7, <4>1
    <3> QED BY <2>2, <3>1, <3>3, <3>5, <3>6, <3>8
  <2> QED BY <2>1, <2>2
<1> HIDE DEF S
<1>3. 0 .. Levels \subseteq S
  BY <1>0, <1>1, <1>2, IntervalInduction
<1> QED BY <1>3 DEF S

\* The entry of an address gets a page.
LEMMA ForestSetEntry ==
  ASSUME NEW tables, NEW R, Forest(tables, R), NEW root \in R,
         NEW a, NEW x, <<a, x>> \in Collect(tables, root, Levels - 1),
         NEW index \in Index, NEW pa \in Address
  PROVE  /\ Forest(WithPage(tables, x, index, pa), R)
         /\ \A s \in R \ {root} : Same(tables, WithPage(tables, x, index, pa), s)
         /\ Collect(WithPage(tables, x, index, pa), root, Levels) =
              {n \in Collect(tables, root, Levels) : n[1] # a + index * span[Levels]}
                \cup {<<a + index * span[Levels], pa>>}
<1>0. Levels \in Nat \ {0} /\ Levels - 1 \in 0 .. Levels - 1 /\ Levels - 1 \in 0 .. Levels
      /\ Levels - 1 \in Nat /\ (Levels - 1) + 1 = Levels /\ Levels \in 1 .. Levels
  BY AddressAssumption
<1>l. Levels \in 0 .. Levels
  BY <1>0
<1> DEFINE U == WithPage(tables, x, index, pa)
           C(r, d) == Collect(tables, r, d)
           E(r, d) == Collect(U, r, d)
           va == a + index * span[Levels]
<1>x. x \in DOMAIN tables /\ <<a, x>>[2] = x /\ <<a, x>>[1] = a
  BY <1>0 DEF Forest
<1>1. /\ DOMAIN U = DOMAIN tables
      /\ \A z \in DOMAIN tables \ {x} : U[z] = tables[z]
      /\ U[x] = [tables[x] EXCEPT ![index] = pa]
  BY <1>x DEF WithPage
<1> HIDE DEF U
<1>p. pa \in Int /\ pa # Invalid
  <2>1. span[0] \in Int /\ 0 \in 0 .. Levels
    BY <1>0, SpanValues
  <2> QED BY <2>1 DEF Address, Invalid
<1>2. /\ tables[x] \in [Index -> Int] /\ U[x] \in [Index -> Int] /\ U[x][index] = pa
      /\ \A i \in Index \ {index} : U[x][i] = tables[x][i]
  BY <1>1, <1>x, <1>p DEF Forest
<1>n. NoSharing(tables, R)
  BY DEF Forest
<1>3. ASSUME NEW s \in R, NEW d \in 0 .. Levels - 1, s # root \/ d # Levels - 1,
             NEW n \in C(s, d), NEW i \in Index
      PROVE  U[n[2]][i] = tables[n[2]][i]
  <2>1. n[2] \in DOMAIN tables
    BY DEF Forest
  <2>2. n[2] # x
    <3> SUFFICES ASSUME n[2] = x PROVE FALSE
      OBVIOUS
    <3>2. s = root /\ d = Levels - 1
      BY <1>0, <1>x, <1>n DEF NoSharing
    <3> QED BY <1>3, <3>2
  <2> QED BY <1>1, <2>1, <2>2
<1>4. ASSUME NEW s \in R \ {root} PROVE Same(tables, U, s)
  <2>1. \A d \in 0 .. Levels - 1 : \A n \in C(s, d) : \A i \in Index : U[n[2]][i] = tables[n[2]][i]
    BY <1>3
  <2>2. \A d \in 0 .. Levels : Collect(U, s, d) = Collect(tables, s, d)
    BY <1>l, <2>1, SameTree
  <2> QED BY <2>2 DEF Same
<1>5. \A d \in 0 .. Levels - 1 : E(root, d) = C(root, d)
  <2>1. \A d \in 0 .. (Levels - 1) - 1 : \A n \in C(root, d) : \A i \in Index : U[n[2]][i] = tables[n[2]][i]
    <3> SUFFICES ASSUME NEW d \in 0 .. (Levels - 1) - 1
                 PROVE \A n \in C(root, d) : \A i \in Index : U[n[2]][i] = tables[n[2]][i]
      OBVIOUS
    <3>1. d \in 0 .. Levels - 1 /\ d # Levels - 1
      BY <1>0
    <3> QED BY <1>3, <3>1
  <2>2. Levels - 1 \in 0 .. Levels
    BY <1>0
  <2> QED BY <2>1, <2>2, SameTree
<1>s. /\ E(root, Levels) = Below(U, C(root, Levels - 1), Levels)
      /\ C(root, Levels) = Below(tables, C(root, Levels - 1), Levels)
  <2>1. E(root, Levels - 1) = C(root, Levels - 1)
    BY <1>0, <1>5
  <2>2. Levels - 1 \in Nat
    BY <1>0
  <2>3. /\ E(root, (Levels - 1) + 1) = Below(U, E(root, Levels - 1), (Levels - 1) + 1)
        /\ C(root, (Levels - 1) + 1) = Below(tables, C(root, Levels - 1), (Levels - 1) + 1)
    BY <2>2, CollectStep
  <2> QED BY <1>0, <2>1, <2>3
<1>e. ASSUME NEW m \in C(root, Levels - 1), NEW i \in Index
      PROVE  IF m = <<a, x>> /\ i = index
             THEN U[m[2]][i] = pa
             ELSE /\ U[m[2]][i] = tables[m[2]][i]
                  /\ m[1] + i * span[Levels] # va
  <2>1. m[2] \in DOMAIN tables
    BY <1>0 DEF Forest
  <2>2. m # <<a, x>> => m[2] # x
    BY <1>0, <1>x, <1>n DEF NoSharing
  <2>3. ASSUME m[1] + i * span[Levels] = va PROVE m = <<a, x>> /\ i = index
    <3>1. m[1] \in Starts(Levels - 1) /\ <<a, x>>[1] \in Starts(Levels - 1)
      BY <1>0, FoundShape
    <3>2. PICK b \in Starts(Levels - 1) : b = m[1]
      BY <3>1
    <3>3. a \in Starts(Levels - 1)
      BY <1>x, <3>1
    <3>4. Start(b + i * span[Levels], Levels - 1) = b /\ IndexAt(b + i * span[Levels], Levels) = i
      BY <1>0, StartOfEntry
    <3>5. Start(va, Levels - 1) = a /\ IndexAt(va, Levels) = index
      BY <1>0, <3>3, StartOfEntry
    <3>6. m[1] = a /\ i = index
      BY <2>3, <3>2, <3>4, <3>5
    <3>7. m = <<a, x>>
      BY <1>0, <1>x, <3>6, FoundOnce
    <3> QED BY <3>6, <3>7
  <2>4. CASE m = <<a, x>> /\ i = index
    BY <1>2, <1>x, <2>4
  <2>5. CASE m = <<a, x>> /\ i # index
    BY <1>2, <1>x, <2>3, <2>5
  <2>6. CASE m # <<a, x>>
    BY <1>1, <2>1, <2>2, <2>3, <2>6
  <2> QED BY <2>4, <2>5, <2>6
<1> HIDE DEF va
<1>6. ASSUME NEW n PROVE n \in E(root, Levels) <=> (n \in C(root, Levels) /\ n[1] # va) \/ n = <<va, pa>>
  <2>1. n \in E(root, Levels) <=>
          \E m \in C(root, Levels - 1), i \in Index :
            U[m[2]][i] # Invalid /\ n = <<m[1] + i * span[Levels], U[m[2]][i]>>
    BY <1>s, BelowElements
  <2>2. n \in C(root, Levels) <=>
          \E m \in C(root, Levels - 1), i \in Index :
            tables[m[2]][i] # Invalid /\ n = <<m[1] + i * span[Levels], tables[m[2]][i]>>
    BY <1>s, BelowElements
  <2>5. ASSUME n \in E(root, Levels) PROVE (n \in C(root, Levels) /\ n[1] # va) \/ n = <<va, pa>>
    <3>1. PICK m \in C(root, Levels - 1), i \in Index :
            U[m[2]][i] # Invalid /\ n = <<m[1] + i * span[Levels], U[m[2]][i]>>
      BY <2>1, <2>5
    <3>2. CASE m = <<a, x>> /\ i = index
      <4>1. m[1] = a /\ U[m[2]][i] = pa
        BY <1>e, <1>x, <3>2
      <4> QED BY <3>1, <3>2, <4>1 DEF va
    <3>3. CASE ~(m = <<a, x>> /\ i = index)
      <4>1. U[m[2]][i] = tables[m[2]][i] /\ m[1] + i * span[Levels] # va
        BY <1>e, <3>3
      <4> QED BY <2>2, <3>1, <4>1
    <3> QED BY <3>2, <3>3
  <2>6. ASSUME n \in C(root, Levels), n[1] # va PROVE n \in E(root, Levels)
    <3>1. PICK m \in C(root, Levels - 1), i \in Index :
            tables[m[2]][i] # Invalid /\ n = <<m[1] + i * span[Levels], tables[m[2]][i]>>
      BY <2>2, <2>6
    <3>2. ~(m = <<a, x>> /\ i = index)
      BY <1>x, <2>6, <3>1 DEF va
    <3>3. U[m[2]][i] = tables[m[2]][i]
      BY <1>e, <3>1, <3>2
    <3> QED BY <2>1, <3>1, <3>3
  <2>7. ASSUME n = <<va, pa>> PROVE n \in E(root, Levels)
    <3>1. PICK m \in C(root, Levels - 1) : m = <<a, x>>
      OBVIOUS
    <3>2. m[1] = a /\ U[m[2]][index] = pa
      BY <1>e, <1>x, <3>1
    <3>3. U[m[2]][index] # Invalid /\ n = <<m[1] + index * span[Levels], U[m[2]][index]>>
      BY <1>p, <2>7, <3>2 DEF va
    <3> QED BY <2>1, <3>3
  <2> QED BY <2>5, <2>6, <2>7
<1>7. E(root, Levels) = {n \in C(root, Levels) : n[1] # va} \cup {<<va, pa>>}
  BY <1>6
<1>9. \A s \in R \ {root} : \A d \in 0 .. Levels : E(s, d) = C(s, d)
  BY <1>4 DEF Same
<1>10. \A s \in R : \A d \in 0 .. Levels - 1 : E(s, d) = C(s, d)
  <2>1. \A d \in 0 .. Levels - 1 : d \in 0 .. Levels
    BY <1>0
  <2> QED BY <1>5, <1>9, <2>1
<1>11. \A r \in R : \A n \in E(r, Levels) : n[2] \in Address
  <2>1. ASSUME NEW n \in E(root, Levels) PROVE n[2] \in Address
    <3>1. n \in C(root, Levels) \/ n = <<va, pa>>
      BY <1>7
    <3>2. <<va, pa>>[2] = pa
      OBVIOUS
    <3> QED BY <3>1, <3>2 DEF Forest
  <2>2. ASSUME NEW r \in R \ {root}, NEW n \in E(r, Levels) PROVE n[2] \in Address
    <3>1. n \in C(r, Levels)
      BY <1>l, <1>9, <2>2
    <3> QED BY <3>1 DEF Forest
  <2> QED BY <2>1, <2>2
<1>12. \A id \in DOMAIN U : U[id] \in [Index -> Int]
  BY <1>1, <1>2 DEF Forest
<1> HIDE DEF C, E
<1>13. \A r \in R : \A d \in 0 .. Levels - 1 : \A n \in E(r, d) : n[2] \in DOMAIN U
  BY <1>1, <1>10 DEF Forest, C
<1>14. NoSharing(U, R)
  BY <1>10, <1>n DEF NoSharing, C, E
<1>15. Rooted(U, R)
  BY <1>1, <1>10 DEF Forest, Rooted, C, E
<1>16. Forest(U, R)
  BY <1>1, <1>11, <1>12, <1>13, <1>14, <1>15 DEF Forest, E
<1> QED BY <1>4, <1>7, <1>16 DEF U, va, C, E

\* The tables of a tree.
LEMMA TablesOfElements ==
  ASSUME NEW tables, NEW root, NEW id
  PROVE  id \in TablesOf(tables, root) <=>
           \E d \in 0 .. Levels - 1 : \E n \in Collect(tables, root, d) : n[2] = id
<1>1. id \in TablesOf(tables, root) <=>
        \E d \in 0 .. Levels - 1 : id \in {n[2] : n \in Collect(tables, root, d)}
  BY Zenon DEF TablesOf
<1> QED BY <1>1, Zenon

\* A tree is taken away.
LEMMA ForestWithout ==
  ASSUME NEW tables, NEW R, Forest(tables, R), NEW root \in R
  PROVE  LET others == Destroy(tables, root)
         IN  /\ Forest(others, R \ {root})
             /\ \A s \in R \ {root} : Same(tables, others, s)
<1>l. Levels \in 0 .. Levels /\ \A d \in 0 .. Levels - 1 : d \in 0 .. Levels
  BY AddressAssumption
<1> DEFINE U == Destroy(tables, root)
           C(r, d) == Collect(tables, r, d)
           E(r, d) == Collect(U, r, d)
<1>1. /\ DOMAIN U = DOMAIN tables \ TablesOf(tables, root)
      /\ \A id \in DOMAIN U : U[id] = tables[id]
  BY DEF Destroy
<1> HIDE DEF U
<1>2. ASSUME NEW s \in R \ {root}, NEW d \in 0 .. Levels - 1, NEW n \in C(s, d)
      PROVE  n[2] \in DOMAIN U
  <2>1. n[2] \in DOMAIN tables
    BY DEF Forest
  <2>2. n[2] \notin TablesOf(tables, root)
    <3> SUFFICES ASSUME n[2] \in TablesOf(tables, root) PROVE FALSE
      OBVIOUS
    <3>1. PICK j \in 0 .. Levels - 1 : \E m \in C(root, j) : m[2] = n[2]
      BY TablesOfElements
    <3> QED BY <3>1 DEF Forest, NoSharing
  <2> QED BY <1>1, <2>1, <2>2
<1>3. ASSUME NEW s \in R \ {root} PROVE Same(tables, U, s)
  <2>1. \A d \in 0 .. Levels - 1 : \A n \in C(s, d) : \A i \in Index : U[n[2]][i] = tables[n[2]][i]
    BY <1>1, <1>2
  <2>2. \A d \in 0 .. Levels : Collect(U, s, d) = Collect(tables, s, d)
    BY <1>l, <2>1, SameTree
  <2> QED BY <2>2 DEF Same
<1>4. \A s \in R \ {root} : \A d \in 0 .. Levels : E(s, d) = C(s, d)
  BY <1>3 DEF Same
<1> HIDE DEF C, E
<1>5. DOMAIN U \subseteq Nat /\ IsFiniteSet(DOMAIN U)
  BY <1>1, FS_Subset DEF Forest
<1>6. \A id \in DOMAIN U : U[id] \in [Index -> Int]
  BY <1>1 DEF Forest
<1>7. \A r \in R \ {root} : \A d \in 0 .. Levels - 1 : \A n \in E(r, d) : n[2] \in DOMAIN U
  BY <1>l, <1>2, <1>4
<1>8. \A r \in R \ {root} : \A n \in E(r, Levels) : n[2] \in Address
  BY <1>l, <1>4 DEF Forest, C
<1>9. NoSharing(U, R \ {root})
  BY <1>l, <1>4 DEF Forest, NoSharing, C, E
<1>10. Rooted(U, R \ {root})
  <2> SUFFICES ASSUME NEW id \in DOMAIN U
               PROVE  \E r \in R \ {root} : \E d \in 0 .. Levels - 1 : \E n \in E(r, d) : n[2] = id
    BY DEF Rooted, E
  <2>1. id \in DOMAIN tables /\ id \notin TablesOf(tables, root)
    BY <1>1
  <2>2. PICK r \in R, d \in 0 .. Levels - 1 : \E n \in C(r, d) : n[2] = id
    BY <2>1 DEF Forest, Rooted, C
  <2>3. r # root
    BY <2>1, <2>2, TablesOfElements DEF C
  <2> QED BY <1>l, <1>4, <2>2, <2>3
<1>11. Forest(U, R \ {root})
  BY <1>5, <1>6, <1>7, <1>8, <1>9, <1>10 DEF Forest, E
<1> QED BY <1>3, <1>11 DEF U

-----------------------------------------------------------------------------
(* set_page                                                                *)

\* The way down to the table of an address.
Walk(begin, indexes) == FoldLeft(Descend, begin, indexes)

\* It is gone level by level.
LEMMA WalkTurns ==
  ASSUME NEW n \in Nat, NEW begin, NEW indexes, DOMAIN indexes = 1 .. n
  PROVE  \E run : /\ run[0] = begin
                  /\ \A k \in 1 .. n : run[k] = Descend(run[k - 1], indexes[k])
                  /\ run[n] = Walk(begin, indexes)
<1> DEFINE loop == [does |-> "walk", over |-> indexes]
           fold == FoldLeft(Descend, begin, indexes)
           Is(it) == it = [s \in SUBSET (1 .. n) |->
                             IF s = {} THEN begin
                             ELSE Descend(it[s \ {Max(s)}], indexes[Max(s)])]
<1>1. \A x, k : Turn(loop, x, k) = Descend(x, indexes[k])
  BY DEF Turn
<1>2. fold = (CHOOSE it : Is(it))[1 .. n]
  BY DEF FoldLeft, MapThenFoldSet
<1> HIDE DEF loop, fold
<1>3. \A it : IsLoop(it, n, loop, begin) <=> Is(it)
  BY <1>1, Zenon DEF IsLoop
<1>4. \E it : Is(it)
  BY <1>3, LoopExists, Zenon
<1>5. PICK it : Is(it) /\ fold = it[1 .. n]
  BY <1>2, <1>4, Zenon
<1>6. IsLoop(it, n, loop, begin)
  BY <1>3, <1>5, Zenon
<1> HIDE DEF Is
<1>7. PICK run : IsTurns(run, n, loop, begin) /\ run[n] = fold
  BY <1>5, <1>6, LoopRuns
<1>8. run[0] = begin /\ (\A k \in 1 .. n : run[k] = Descend(run[k - 1], indexes[k]))
  BY <1>1, <1>7, Zenon DEF IsTurns
<1>9. fold = Walk(begin, indexes)
  BY DEF fold, Walk
<1> QED BY <1>7, <1>8, <1>9

\* One level of it.
LEMMA DescendValue ==
  ASSUME NEW tables, NEW at, NEW index
  PROVE  Descend([tables |-> tables, at |-> at], index) =
           IF tables[at][index] # Invalid
           THEN [tables |-> tables, at |-> tables[at][index]]
           ELSE [tables |-> WithTable(tables, at, index, NewId(tables)), at |-> NewId(tables)]
<1> DEFINE walk == [tables |-> tables, at |-> at]
<1>1. walk.tables = tables /\ walk.at = at
  OBVIOUS
<1>2. [walk EXCEPT !.at = tables[at][index]] = [tables |-> tables, at |-> tables[at][index]]
  OBVIOUS
<1> HIDE DEF walk
<1>3. Descend(walk, index) =
        IF tables[at][index] # Invalid
        THEN [tables |-> tables, at |-> tables[at][index]]
        ELSE [tables |-> WithTable(tables, at, index, NewId(tables)), at |-> NewId(tables)]
  BY <1>1, <1>2 DEF Descend, WithTable
<1> QED BY <1>3 DEF walk

(***************************************************************************)
(* set_page changes one tree, and in it what is at one address.            *)
(***************************************************************************)
LEMMA SetPageEffect ==
  ASSUME NEW tables, NEW R, Forest(tables, R), NEW root \in R,
         NEW va \in Address, NEW pa \in Address
  PROVE  LET others == SetPage(tables, root, va, pa)
         IN  /\ Forest(others, R)
             /\ \A s \in R \ {root} : Same(tables, others, s)
             /\ GetAllPages(others, root) =
                  {n \in GetAllPages(tables, root) : n[1] # va} \cup {<<va, pa>>}
<1>0. Levels \in Nat \ {0} /\ Levels - 1 \in Nat /\ Levels \in 1 .. Levels
  BY AddressAssumption
<1> DEFINE indexes == [level \in 1 .. Levels - 1 |-> IndexAt(va, level)]
           begin == [tables |-> tables, at |-> root]
           walk == Walk(begin, indexes)
<1>1. PICK run : /\ run[0] = begin
                 /\ \A k \in 1 .. Levels - 1 : run[k] = Descend(run[k - 1], indexes[k])
                 /\ run[Levels - 1] = walk
  <2>1. DOMAIN indexes = 1 .. Levels - 1
    OBVIOUS
  <2>2. PICK n \in Nat : n = Levels - 1
    BY <1>0
  <2>3. DOMAIN indexes = 1 .. n
    BY <2>1, <2>2
  <2> HIDE DEF indexes, begin
  <2>4. PICK last : last = Walk(begin, indexes)
    OBVIOUS
  <2>5. \E run : /\ run[0] = begin
                 /\ \A k \in 1 .. n : run[k] = Descend(run[k - 1], indexes[k])
                 /\ run[n] = last
    BY <2>3, <2>4, WalkTurns
  <2> QED BY <2>2, <2>4, <2>5 DEF walk
<1> DEFINE Reached(k) ==
             \E T, x : /\ run[k] = [tables |-> T, at |-> x]
                       /\ Forest(T, R)
                       /\ \A s \in R \ {root} : Same(tables, T, s)
                       /\ Collect(T, root, Levels) = Collect(tables, root, Levels)
                       /\ <<Start(va, k), x>> \in Collect(T, root, k)
<1>2. Reached(0)
  <2>1. \A s \in R \ {root} : Same(tables, tables, s)
    BY DEF Same
  <2>2. Start(va, 0) = 0
    <3>1. va \in Nat /\ span[0] \in Nat \ {0} /\ va < span[0]
      BY <1>0, SpanValues DEF Address
    <3>2. (0 * span[0] + va) \div span[0] = 0
      BY <3>1, DivideProduct
    <3> QED BY <3>1, <3>2 DEF Start
  <2>3. <<Start(va, 0), root>> \in Collect(tables, root, 0)
    BY <2>2, CollectStep
  <2> QED BY <1>1, <2>1, <2>3
<1>3. ASSUME NEW k \in 0 .. (Levels - 1) - 1, Reached(k) PROVE Reached(k + 1)
  <2>1. PICK T, x : /\ run[k] = [tables |-> T, at |-> x]
                    /\ Forest(T, R)
                    /\ \A s \in R \ {root} : Same(tables, T, s)
                    /\ Collect(T, root, Levels) = Collect(tables, root, Levels)
                    /\ <<Start(va, k), x>> \in Collect(T, root, k)
    BY <1>3
  <2> DEFINE index == IndexAt(va, k + 1)
  <2>2. k \in Nat /\ k + 1 \in 1 .. Levels /\ k + 1 \in 1 .. Levels - 1 /\ (k + 1) - 1 = k /\ k \in 0 .. Levels - 2
        /\ k \in 0 .. Levels - 1
    BY <1>0
  <2>3. run[k + 1] = Descend([tables |-> T, at |-> x], index)
    BY <1>1, <2>1, <2>2
  <2>4. index \in Index /\ Start(va, k + 1) = Start(va, k) + index * span[k + 1]
    BY <2>2, EntryOfAddress
  <2> HIDE DEF index
  <2>5. CASE T[x][index] # Invalid
    <3>1. run[k + 1] = [tables |-> T, at |-> T[x][index]]
      <4>1. Descend([tables |-> T, at |-> x], index) =
              IF T[x][index] # Invalid
              THEN [tables |-> T, at |-> T[x][index]]
              ELSE [tables |-> WithTable(T, x, index, NewId(T)), at |-> NewId(T)]
        BY DescendValue, Zenon
      <4> QED BY <2>3, <2>5, <4>1, Zenon
    <3>2. <<Start(va, k + 1), T[x][index]>> \in Collect(T, root, k + 1)
      <4>1. PICK m \in Collect(T, root, k) : m = <<Start(va, k), x>>
        BY <2>1
      <4>2. PICK n : n = <<m[1] + index * span[k + 1], T[m[2]][index]>>
        OBVIOUS
      <4>3. T[m[2]][index] # Invalid
        BY <2>5, <4>1
      <4>4. n \in Below(T, Collect(T, root, k), k + 1)
        BY <2>4, <4>2, <4>3, BelowElements
      <4>5. n \in Collect(T, root, k + 1)
        BY <2>2, <4>4, CollectStep
      <4> QED BY <2>4, <4>1, <4>2, <4>5
    <3> QED BY <2>1, <3>1, <3>2
  <2>6. CASE T[x][index] = Invalid
    <3> DEFINE new == NewId(T)
               U == WithTable(T, x, index, new)
    <3>1. run[k + 1] = [tables |-> U, at |-> new]
      BY <2>3, <2>6, DescendValue
    <3>2. new \in Nat \ DOMAIN T
      BY <2>1, NewIdIsNew DEF Forest
    <3> HIDE DEF new
    <3>3. /\ Forest(U, R)
          /\ \A s \in R \ {root} : Same(T, U, s)
          /\ Collect(U, root, Levels) = Collect(T, root, Levels)
          /\ <<Start(va, k) + index * span[k + 1], new>> \in Collect(U, root, k + 1)
      BY <2>1, <2>2, <2>4, <2>6, <3>2, ForestNewTable
    <3> HIDE DEF U
    <3>4. \A s \in R \ {root} : Same(tables, U, s)
      BY <2>1, <3>3 DEF Same
    <3> QED BY <2>1, <2>4, <3>1, <3>3, <3>4
  <2> QED BY <2>5, <2>6
<1>4. Reached(Levels - 1)
  <2> DEFINE S == {k \in 0 .. Levels - 1 : Reached(k)}
  <2> HIDE DEF Reached
  <2>1. 0 \in S
    BY <1>0, <1>2
  <2>2. \A k \in 0 .. (Levels - 1) - 1 : k \in S => k + 1 \in S
    BY <1>0, <1>3
  <2> HIDE DEF S
  <2>3. 0 .. Levels - 1 \subseteq S
    BY <1>0, <2>1, <2>2, IntervalInduction
  <2> QED BY <1>0, <2>3 DEF S
<1>5. PICK T, x : /\ walk = [tables |-> T, at |-> x]
                  /\ Forest(T, R)
                  /\ \A s \in R \ {root} : Same(tables, T, s)
                  /\ Collect(T, root, Levels) = Collect(tables, root, Levels)
                  /\ <<Start(va, Levels - 1), x>> \in Collect(T, root, Levels - 1)
  BY <1>1, <1>4
<1> DEFINE index == IndexAt(va, Levels)
           U == WithPage(T, x, index, pa)
<1>6. SetPage(tables, root, va, pa) = U
  <2>1. SetPage(tables, root, va, pa) = WithPage(walk.tables, walk.at, index, pa)
    BY DEF SetPage, WithPage, Walk
  <2>2. walk.tables = T /\ walk.at = x
    <3> HIDE DEF walk
    <3> QED BY <1>5
  <2> QED BY <2>1, <2>2
<1>7. index \in Index /\ va = Start(va, Levels - 1) + index * span[Levels]
  <2>1. Start(va, Levels) = va
    <3>1. va \in Nat /\ span[Levels] = 1
      BY <1>0, SpanValues DEF Address
    <3>2. va \div 1 = va
      BY <3>1
    <3> QED BY <3>1, <3>2 DEF Start
  <2> QED BY <1>0, <2>1, EntryOfAddress
<1> HIDE DEF index
<1>8. /\ Forest(U, R)
      /\ \A s \in R \ {root} : Same(T, U, s)
      /\ Collect(U, root, Levels) = {n \in Collect(T, root, Levels) : n[1] # va} \cup {<<va, pa>>}
  BY <1>5, <1>7, ForestSetEntry
<1> HIDE DEF U
<1>9. \A s \in R \ {root} : Same(tables, U, s)
  BY <1>5, <1>8 DEF Same
<1> QED BY <1>5, <1>6, <1>8, <1>9 DEF GetAllPages

-----------------------------------------------------------------------------
(* The allocator                                                           *)

\* The list when every page from a on is free.
FreeFrom(a) ==
  IF a = MemoryEnd THEN << >> ELSE <<[addr |-> a, size |-> MemoryEnd - a]>>

\* It holds these pages.
LEMMA FreeFromPages ==
  ASSUME NEW a \in MEMORY_BEGIN .. MemoryEnd
  PROVE  FreeFrom(a) \in Seq(Node) /\ FreePages(FreeFrom(a)) = a .. MemoryEnd - 1
<1>0. MEMORY_BEGIN \in Nat \ {0} /\ MemoryEnd \in Nat /\ a \in Nat
  BY PageAssumption DEF MemoryEnd
<1>1. CASE a = MemoryEnd
  <2>1. FreeFrom(a) = << >>
    BY <1>1 DEF FreeFrom
  <2>2. FreePages(<< >>) = {}
    BY DEF FreePages
  <2>3. a .. MemoryEnd - 1 = {}
    BY <1>0, <1>1
  <2>4. << >> \in Seq(Node)
    OBVIOUS
  <2> QED BY <2>1, <2>2, <2>3, <2>4
<1>2. CASE a # MemoryEnd
  <2> DEFINE node == [addr |-> a, size |-> MemoryEnd - a]
  <2>1. FreeFrom(a) = <<node>>
    BY <1>2 DEF FreeFrom
  <2>2. node \in Node /\ NodePages(node) = a .. MemoryEnd - 1
    BY <1>0 DEF Node, NodePages
  <2> HIDE DEF node
  <2>3. FreePages(<<node>>) = NodePages(node)
    <3>1. DOMAIN <<node>> = {1} /\ <<node>>[1] = node
      OBVIOUS
    <3> QED BY <3>1 DEF FreePages
  <2>4. <<node>> \in Seq(Node)
    BY <2>2
  <2> QED BY <2>1, <2>2, <2>3, <2>4
<1> QED BY <1>1, <1>2

\* The first free page is taken.
LEMMA AllocOneFree ==
  ASSUME NEW a \in MEMORY_BEGIN .. MemoryEnd
  PROVE  AllocOne(FreeFrom(a)) =
           IF a = MemoryEnd THEN [addr |-> 0, list |-> FreeFrom(a)]
           ELSE [addr |-> a, list |-> FreeFrom(a + 1)]
<1>0. MEMORY_BEGIN \in Nat \ {0} /\ MemoryEnd \in Nat /\ a \in Nat
  BY PageAssumption DEF MemoryEnd
<1>1. CASE a = MemoryEnd
  BY <1>1 DEF FreeFrom, AllocOne
<1>2. CASE a # MemoryEnd
  <2> DEFINE node == [addr |-> a, size |-> MemoryEnd - a]
  <2>1. FreeFrom(a) = <<node>>
    BY <1>2 DEF FreeFrom
  <2>2. node.addr = a /\ node.size = MemoryEnd - a
    OBVIOUS
  <2>3. <<node>> # << >> /\ Last(<<node>>) = node /\ Front(<<node>>) = << >>
    BY DEF Last, Front
  <2> HIDE DEF node
  <2>4. Append(<< >>, [addr |-> node.addr + 1, size |-> node.size - 1])
          = <<[addr |-> a + 1, size |-> MemoryEnd - (a + 1)]>>
    BY <1>0, <2>2
  <2>5. node.size = 1 <=> a + 1 = MemoryEnd
    BY <1>0, <2>2
  <2>6. AllocOne(<<node>>) =
          [addr |-> a, list |-> IF node.size = 1 THEN << >>
                                ELSE Append(<< >>, [addr |-> node.addr + 1, size |-> node.size - 1])]
    BY <2>2, <2>3 DEF AllocOne
  <2>7. FreeFrom(a + 1) = IF node.size = 1 THEN << >>
                          ELSE Append(<< >>, [addr |-> node.addr + 1, size |-> node.size - 1])
    BY <2>4, <2>5 DEF FreeFrom
  <2> QED BY <1>2, <2>1, <2>6, <2>7
<1> QED BY <1>1, <1>2

\* Of the free pages alloc_specific_page takes the first, and no other.
LEMMA AllocSpecificFree ==
  ASSUME NEW a \in MEMORY_BEGIN .. MemoryEnd, NEW pa \in Page
  PROVE  AllocSpecificPage(FreeFrom(a), pa) = IF pa = a THEN FreeFrom(a + 1) ELSE FreeFrom(a)
<1>0. MEMORY_BEGIN \in Nat \ {0} /\ MemoryEnd \in Nat /\ a \in Nat /\ pa \in Nat /\ pa # MemoryEnd
  BY PageAssumption DEF MemoryEnd, Page
<1>1. CASE a = MemoryEnd
  <2>1. FreeFrom(a) = << >>
    BY <1>1 DEF FreeFrom
  <2>2. AllocSpecificPage(<< >>, pa) = << >>
    BY DEF AllocSpecificPage
  <2> QED BY <1>0, <1>1, <2>1, <2>2
<1>2. CASE a # MemoryEnd
  <2> DEFINE node == [addr |-> a, size |-> MemoryEnd - a]
             at == {i \in DOMAIN <<node>> : <<node>>[i].addr = pa}
  <2>1. FreeFrom(a) = <<node>>
    BY <1>2 DEF FreeFrom
  <2>2. node.addr = a /\ node.size = MemoryEnd - a /\ DOMAIN <<node>> = {1} /\ <<node>>[1] = node
    OBVIOUS
  <2>3. CASE pa # a
    <3>1. at = {}
      BY <2>2, <2>3
    <3>2. AllocSpecificPage(<<node>>, pa) = <<node>>
      BY <3>1 DEF AllocSpecificPage
    <3> QED BY <2>1, <2>3, <3>2
  <2>4. CASE pa = a
    <3>1. at = {1}
      BY <2>2, <2>4
    <3>2. (CHOOSE j \in at : TRUE) = 1
      BY <3>1
    <3>3. RemoveAt(<<node>>, 1) = << >>
      <4>1. SubSeq(<<node>>, 1, 0) = << >> /\ SubSeq(<<node>>, 2, 1) = << >> /\ Len(<<node>>) = 1
        OBVIOUS
      <4> QED BY <4>1 DEF RemoveAt
    <3>4. node.size = 1 <=> a + 1 = MemoryEnd
      BY <1>0, <2>2
    <3>5. [<<node>> EXCEPT ![1] = [addr |-> pa + 1, size |-> @.size - 1]]
            = <<[addr |-> a + 1, size |-> MemoryEnd - (a + 1)]>>
      <4>1. node.size - 1 = MemoryEnd - (a + 1)
        BY <1>0, <2>2
      <4> HIDE DEF node
      <4>2. [<<node>> EXCEPT ![1] = [addr |-> pa + 1, size |-> node.size - 1]]
              = <<[addr |-> pa + 1, size |-> node.size - 1]>>
        OBVIOUS
      <4> QED BY <2>2, <2>4, <4>1, <4>2
    <3>6. AllocSpecificPage(<<node>>, pa) =
            IF node.size = 1 THEN << >>
            ELSE [<<node>> EXCEPT ![1] = [addr |-> pa + 1, size |-> @.size - 1]]
      <4> HIDE DEF node
      <4> QED BY <2>2, <3>1, <3>2, <3>3, Zenon DEF AllocSpecificPage
    <3> HIDE DEF node
    <3> QED BY <2>1, <2>4, <3>4, <3>5, <3>6 DEF FreeFrom
  <2> QED BY <2>3, <2>4
<1> QED BY <1>1, <1>2

\* alloc(n) takes the first page, and finds n of them behind it.
LEMMA AllocManyFree ==
  ASSUME NEW a \in MEMORY_BEGIN .. MemoryEnd, NEW n \in Nat \ {0}
  PROVE  AllocMany(FreeFrom(a), n) =
           IF a + n <= MemoryEnd THEN [addr |-> a, list |-> FreeFrom(a + 1)]
           ELSE [addr |-> 0, list |-> FreeFrom(a)]
<1>0. MEMORY_BEGIN \in Nat \ {0} /\ MemoryEnd \in Nat /\ a \in Nat
  BY PageAssumption DEF MemoryEnd
<1> DEFINE list == FreeFrom(a)
           fits == {i \in DOMAIN list : list[i].size >= n}
           first == list[CHOOSE i \in fits : \A j \in fits : i <= j].addr
<1>1. CASE a + n <= MemoryEnd
  <2> DEFINE node == [addr |-> a, size |-> MemoryEnd - a]
  <2>1. list = <<node>>
    BY <1>0, <1>1 DEF FreeFrom
  <2>2. node.addr = a /\ node.size = MemoryEnd - a /\ DOMAIN <<node>> = {1} /\ <<node>>[1] = node
    OBVIOUS
  <2> HIDE DEF list, node
  <2>3. fits = {1}
    <3>1. node.size >= n
      BY <1>0, <1>1, <2>2
    <3> QED BY <2>1, <2>2, <3>1
  <2>4. first = a
    <3>1. (CHOOSE i \in fits : \A j \in fits : i <= j) = 1
      <4> HIDE DEF fits
      <4> QED BY <2>3
    <3> QED BY <2>1, <2>2, <3>1
  <2>5. AllocSpecificPage(list, a) = FreeFrom(a + 1)
    <3>1. a \in Page
      BY <1>0, <1>1 DEF Page
    <3> QED BY <3>1, AllocSpecificFree DEF list
  <2>6. fits # {}
    BY <2>3
  <2>7. AllocMany(list, n) = [addr |-> first, list |-> AllocSpecificPage(list, first)]
    BY <2>6 DEF AllocMany
  <2> HIDE DEF first
  <2> QED BY <1>1, <2>4, <2>5, <2>7 DEF list
<1>2. CASE ~(a + n <= MemoryEnd)
  <2>1. fits = {}
    <3>1. CASE a = MemoryEnd
      <4>1. list = << >>
        BY <3>1 DEF FreeFrom
      <4> HIDE DEF list
      <4> QED BY <4>1
    <3>2. CASE a # MemoryEnd
      <4> DEFINE node == [addr |-> a, size |-> MemoryEnd - a]
      <4>1. list = <<node>>
        BY <3>2 DEF FreeFrom
      <4>2. node.size = MemoryEnd - a /\ DOMAIN <<node>> = {1} /\ <<node>>[1] = node
        OBVIOUS
      <4> HIDE DEF list, node
      <4>3. ~(node.size >= n)
        BY <1>0, <1>2, <4>2
      <4> QED BY <4>1, <4>2, <4>3
    <3> QED BY <3>1, <3>2
  <2> HIDE DEF list
  <2>2. AllocMany(list, n) = [addr |-> 0, list |-> list]
    BY <2>1 DEF AllocMany
  <2> QED BY <1>2, <2>2 DEF list
<1> QED BY <1>1, <1>2

-----------------------------------------------------------------------------
(* The order in which addresses are mapped                                 *)

\* Each address of a set comes once.
LEMMA InOrderAll ==
  ASSUME NEW vas, vas \subseteq Nat, IsFiniteSet(vas)
  PROVE  /\ Cardinality(vas) \in Nat /\ DOMAIN InOrder(vas) = 1 .. Cardinality(vas)
         /\ \A i \in 1 .. Cardinality(vas) : InOrder(vas)[i] \in vas
         /\ \A va \in vas : \E i \in 1 .. Cardinality(vas) : InOrder(vas)[i] = va
<1> DEFINE c == Cardinality(vas)
           Lower(va) == {w \in vas : w < va}
           rank == [va \in vas |-> Cardinality(Lower(va)) + 1]
<1>1. c \in Nat
  BY FS_CardinalityType
<1>2. ASSUME NEW va \in vas
      PROVE  /\ IsFiniteSet(Lower(va)) /\ Cardinality(Lower(va)) \in 0 .. c - 1
  <2>1. Lower(va) \in SUBSET vas /\ va \notin Lower(va)
    OBVIOUS
  <2> HIDE DEF Lower
  <2>2. IsFiniteSet(Lower(va)) /\ Cardinality(Lower(va)) <= c /\ (c = Cardinality(Lower(va)) => vas = Lower(va))
    BY <2>1, FS_Subset
  <2>3. Cardinality(Lower(va)) \in Nat
    BY <2>2, FS_CardinalityType
  <2> QED BY <1>1, <2>1, <2>2, <2>3
<1>3. ASSUME NEW u \in vas, NEW w \in vas, u < w
      PROVE  Cardinality(Lower(u)) < Cardinality(Lower(w))
  <2>0. u \in Nat /\ w \in Nat /\ \A v \in vas : v \in Nat
    OBVIOUS
  <2>1. Lower(u) \in SUBSET Lower(w) /\ u \in Lower(w) /\ u \notin Lower(u)
    <3>1. \A v \in vas : v < u => v < w
      BY <1>3, <2>0
    <3>2. u < w /\ ~(u < u)
      BY <1>3, <2>0
    <3> QED BY <3>1, <3>2
  <2>2. Lower(u) # Lower(w)
    BY <2>1
  <2> HIDE DEF Lower
  <2>3. Cardinality(Lower(u)) <= Cardinality(Lower(w)) /\ Cardinality(Lower(u)) # Cardinality(Lower(w))
    BY <1>2, <2>1, <2>2, FS_Subset
  <2> QED BY <1>2, <2>3
<1>4. IsFiniteSet(1 .. c) /\ Cardinality(1 .. c) = c
  <2>1. IsFiniteSet(1 .. c) /\ Cardinality(1 .. c) = IF 1 > c THEN 0 ELSE c - 1 + 1
    BY <1>1, FS_Interval
  <2> QED BY <1>1, <2>1
<1> HIDE DEF Lower
<1>5. rank \in Injection(vas, 1 .. c)
  <2>1. \A va \in vas : rank[va] \in 1 .. c
    BY <1>1, <1>2
  <2>2. \A u, w \in vas : rank[u] = rank[w] => u = w
    <3> SUFFICES ASSUME NEW u \in vas, NEW w \in vas, rank[u] = rank[w] PROVE u = w
      OBVIOUS
    <3>1. u \in Nat /\ w \in Nat
      OBVIOUS
    <3>2. Cardinality(Lower(u)) = Cardinality(Lower(w))
      BY <1>2
    <3>3. ~(u < w) /\ ~(w < u)
      BY <1>2, <1>3, <3>2
    <3> QED BY <3>1, <3>3
  <2> QED BY <2>1, <2>2 DEF Injection, IsInjective
<1>6. \A i \in 1 .. c : \E va \in vas : Cardinality(Lower(va)) = i - 1
  <2>1. rank \in Surjection(vas, 1 .. c)
    <3>1. Cardinality(vas) = Cardinality(1 .. c) <=> rank \in Surjection(vas, 1 .. c)
      <4> HIDE DEF rank
      <4> QED BY <1>4, <1>5, FS_Injection
    <3> HIDE DEF rank
    <3> QED BY <1>4, <3>1
  <2> SUFFICES ASSUME NEW i \in 1 .. c PROVE \E va \in vas : Cardinality(Lower(va)) = i - 1
    OBVIOUS
  <2>2. PICK va \in vas : rank[va] = i
    BY <2>1 DEF Surjection
  <2>3. Cardinality(Lower(va)) + 1 = i
    BY <2>2
  <2> QED BY <1>2, <2>3
<1>7. /\ DOMAIN InOrder(vas) = 1 .. c
      /\ \A i \in 1 .. c : InOrder(vas)[i] = CHOOSE va \in vas : Cardinality(Lower(va)) = i - 1
  BY DEF InOrder, Lower
<1>8. ASSUME NEW i \in 1 .. c
      PROVE  InOrder(vas)[i] \in vas /\ Cardinality(Lower(InOrder(vas)[i])) = i - 1
  BY <1>6, <1>7
<1>9. ASSUME NEW va \in vas PROVE \E i \in 1 .. c : InOrder(vas)[i] = va
  <2> DEFINE i == Cardinality(Lower(va)) + 1
  <2>1. i \in 1 .. c /\ Cardinality(Lower(va)) = i - 1
    BY <1>1, <1>2
  <2>2. InOrder(vas)[i] \in vas /\ Cardinality(Lower(InOrder(vas)[i])) = Cardinality(Lower(va))
    BY <1>8, <2>1
  <2>3. PICK w \in vas : w = InOrder(vas)[i]
    BY <2>2
  <2>4. ~(w < va) /\ ~(va < w)
    BY <1>2, <1>3, <2>2, <2>3
  <2>5. w = va
    <3>1. w \in Nat /\ va \in Nat
      OBVIOUS
    <3> QED BY <2>4, <3>1
  <2> QED BY <2>1, <2>3, <2>5
<1> QED BY <1>1, <1>7, <1>8, <1>9

\* Sets of addresses are finite.
LEMMA AddressesFinite ==
  ASSUME NEW vas \in SUBSET Address
  PROVE  vas \subseteq Nat /\ IsFiniteSet(vas)
<1>1. span[0] \in Nat \ {0}
  BY SpanValues, AddressAssumption
<1>2. IsFiniteSet(Address)
  BY <1>1, FS_Interval DEF Address
<1>3. Address \subseteq Nat
  BY <1>1 DEF Address
<1>4. IsFiniteSet(vas)
  BY <1>2, FS_Subset
<1> QED BY <1>3, <1>4

-----------------------------------------------------------------------------
(* Pages mapped for the kernel                                             *)

\* They are mapped one after the other.
LEMMA SetTurns ==
  ASSUME NEW n \in Nat, NEW tables, NEW pages, DOMAIN pages = 1 .. n
  PROVE  \E run : /\ run[0] = tables
                  /\ \A k \in 1 .. n : run[k] = SetPage(run[k - 1], ttkernel, pages[k], pages[k])
                  /\ run[n] = MapForKernel(tables, pages)
<1> DEFINE loop == [does |-> "set", over |-> pages]
           fold == MapForKernel(tables, pages)
           Is(it) == it = [s \in SUBSET (1 .. n) |->
                             IF s = {} THEN tables
                             ELSE SetPage(it[s \ {Max(s)}], ttkernel, pages[Max(s)], pages[Max(s)])]
<1>1. \A x, k : Turn(loop, x, k) = SetPage(x, ttkernel, pages[k], pages[k])
  BY DEF Turn
<1>2. fold = (CHOOSE it : Is(it))[1 .. n]
  BY DEF MapForKernel, FoldLeft, MapThenFoldSet
<1> HIDE DEF loop, fold
<1>3. \A it : IsLoop(it, n, loop, tables) <=> Is(it)
  BY <1>1, Zenon DEF IsLoop
<1>4. \E it : Is(it)
  BY <1>3, LoopExists, Zenon
<1>5. PICK it : Is(it) /\ fold = it[1 .. n]
  BY <1>2, <1>4, Zenon
<1>6. IsLoop(it, n, loop, tables)
  BY <1>3, <1>5, Zenon
<1> HIDE DEF Is
<1>7. PICK run : IsTurns(run, n, loop, tables) /\ run[n] = fold
  BY <1>5, <1>6, LoopRuns
<1>8. run[0] = tables
      /\ (\A k \in 1 .. n : run[k] = SetPage(run[k - 1], ttkernel, pages[k], pages[k]))
  BY <1>1, <1>7, Zenon DEF IsTurns
<1> QED BY <1>7, <1>8 DEF fold

\* The tables in which the kernel finds pages where they are.
KernelTables(tables, R) ==
  /\ Forest(tables, R) /\ ttkernel \in R
  /\ \A n \in GetAllPages(tables, ttkernel) : n[1] = n[2]

Seen(tables, page) == <<page, page>> \in GetAllPages(tables, ttkernel)

\* One more page for the kernel takes none away.
LEMMA SetForKernel ==
  ASSUME NEW tables, NEW R, KernelTables(tables, R), NEW pa \in Address
  PROVE  LET others == SetPage(tables, ttkernel, pa, pa)
         IN  /\ KernelTables(others, R)
             /\ \A s \in R \ {ttkernel} : Same(tables, others, s)
             /\ \A page : Seen(tables, page) \/ page = pa => Seen(others, page)
<1> DEFINE U == SetPage(tables, ttkernel, pa, pa)
           K == GetAllPages(tables, ttkernel)
<1>1. /\ Forest(U, R)
      /\ \A s \in R \ {ttkernel} : Same(tables, U, s)
      /\ GetAllPages(U, ttkernel) = {n \in K : n[1] # pa} \cup {<<pa, pa>>}
  BY SetPageEffect DEF KernelTables
<1> HIDE DEF U
<1>2. \A n \in K : n[1] = n[2]
  BY DEF KernelTables
<1> HIDE DEF K
<1>3. \A n \in GetAllPages(U, ttkernel) : n[1] = n[2]
  <2>1. <<pa, pa>>[1] = <<pa, pa>>[2]
    OBVIOUS
  <2> QED BY <1>1, <1>2, <2>1
<1>4. ASSUME NEW page, <<page, page>> \in K \/ page = pa
      PROVE  <<page, page>> \in GetAllPages(U, ttkernel)
  <2>1. <<page, page>>[1] = page
    OBVIOUS
  <2> QED BY <1>1, <1>4, <2>1
<1> QED BY <1>1, <1>3, <1>4 DEF KernelTables, Seen, U, K

\* Neither does a list of pages.
LEMMA MapForKernelEffect ==
  ASSUME NEW n \in Nat, NEW tables, NEW R, KernelTables(tables, R),
         NEW pages, DOMAIN pages = 1 .. n, \A k \in 1 .. n : pages[k] \in Address
  PROVE  LET others == MapForKernel(tables, pages)
         IN  /\ KernelTables(others, R)
             /\ \A s \in R \ {ttkernel} : Same(tables, others, s)
             /\ \A page : Seen(tables, page) => Seen(others, page)
             /\ \A k \in 1 .. n : Seen(others, pages[k])
<1>1. PICK run : /\ run[0] = tables
                 /\ \A k \in 1 .. n : run[k] = SetPage(run[k - 1], ttkernel, pages[k], pages[k])
                 /\ run[n] = MapForKernel(tables, pages)
  <2>1. PICK mapped : mapped = MapForKernel(tables, pages)
    OBVIOUS
  <2>2. \E run : /\ run[0] = tables
                 /\ \A k \in 1 .. n : run[k] = SetPage(run[k - 1], ttkernel, pages[k], pages[k])
                 /\ run[n] = mapped
    BY <2>1, SetTurns
  <2> QED BY <2>1, <2>2
<1> DEFINE Done(k) == /\ KernelTables(run[k], R)
                      /\ \A s \in R \ {ttkernel} : Same(tables, run[k], s)
                      /\ \A page : Seen(tables, page) => Seen(run[k], page)
                      /\ \A j \in 1 .. k : Seen(run[k], pages[j])
           S == {k \in 0 .. n : Done(k)}
<1>2. 0 \in S
  BY <1>1 DEF Same
<1>3. ASSUME NEW k \in 0 .. n - 1, k \in S PROVE k + 1 \in S
  <2>1. Done(k)
    BY <1>3
  <2>2. k + 1 \in 1 .. n /\ (k + 1) - 1 = k /\ k + 1 \in 0 .. n /\ \A j \in 1 .. k + 1 : j \in 1 .. k \/ j = k + 1
    OBVIOUS
  <2>3. run[k + 1] = SetPage(run[k], ttkernel, pages[k + 1], pages[k + 1])
    BY <1>1, <2>2
  <2>4. pages[k + 1] \in Address
    BY <2>2
  <2>5. /\ KernelTables(run[k + 1], R)
        /\ \A s \in R \ {ttkernel} : Same(run[k], run[k + 1], s)
        /\ \A page : Seen(run[k], page) \/ page = pages[k + 1] => Seen(run[k + 1], page)
    BY <2>1, <2>3, <2>4, SetForKernel
  <2>6. \A s \in R \ {ttkernel} : Same(tables, run[k + 1], s)
    BY <2>1, <2>5 DEF Same
  <2> QED BY <2>1, <2>2, <2>5, <2>6
<1>4. n \in S
  <2> HIDE DEF S
  <2>1. 0 .. n \subseteq S
    BY <1>2, <1>3, IntervalInduction
  <2> QED BY <2>1
<1> QED BY <1>1, <1>4

-----------------------------------------------------------------------------
(* The kernel's image                                                      *)

TakeAll(list, pages) == FoldLeft(AllocSpecificPage, list, pages)

\* Its pages are reserved one after the other.
LEMMA TakeTurns ==
  ASSUME NEW n \in Nat, NEW list, NEW pages, DOMAIN pages = 1 .. n
  PROVE  \E run : /\ run[0] = list
                  /\ \A k \in 1 .. n : run[k] = AllocSpecificPage(run[k - 1], pages[k])
                  /\ run[n] = TakeAll(list, pages)
<1> DEFINE loop == [does |-> "take", over |-> pages]
           fold == TakeAll(list, pages)
           Is(it) == it = [s \in SUBSET (1 .. n) |->
                             IF s = {} THEN list
                             ELSE AllocSpecificPage(it[s \ {Max(s)}], pages[Max(s)])]
<1>1. \A x, k : Turn(loop, x, k) = AllocSpecificPage(x, pages[k])
  BY DEF Turn
<1>2. fold = (CHOOSE it : Is(it))[1 .. n]
  BY DEF TakeAll, FoldLeft, MapThenFoldSet
<1> HIDE DEF loop, fold
<1>3. \A it : IsLoop(it, n, loop, list) <=> Is(it)
  BY <1>1, Zenon DEF IsLoop
<1>4. \E it : Is(it)
  BY <1>3, LoopExists, Zenon
<1>5. PICK it : Is(it) /\ fold = it[1 .. n]
  BY <1>2, <1>4, Zenon
<1>6. IsLoop(it, n, loop, list)
  BY <1>3, <1>5, Zenon
<1> HIDE DEF Is
<1>7. PICK run : IsTurns(run, n, loop, list) /\ run[n] = fold
  BY <1>5, <1>6, LoopRuns
<1>8. run[0] = list /\ (\A k \in 1 .. n : run[k] = AllocSpecificPage(run[k - 1], pages[k]))
  BY <1>1, <1>7, Zenon DEF IsTurns
<1> QED BY <1>7, <1>8 DEF fold

\* None of them is found in the one node of free memory.
LEMMA ImageNotTaken ==
  ASSUME NEW n \in Nat, NEW pages, DOMAIN pages = 1 .. n,
         \A k \in 1 .. n : pages[k] \in Page \ {MEMORY_BEGIN}
  PROVE  TakeAll(AllMemory, pages) = FreeFrom(MEMORY_BEGIN)
<1>0. MEMORY_BEGIN \in MEMORY_BEGIN .. MemoryEnd /\ AllMemory = FreeFrom(MEMORY_BEGIN)
  BY PageAssumption DEF MemoryEnd, AllMemory, FreeFrom
<1>1. PICK run : /\ run[0] = AllMemory
                 /\ \A k \in 1 .. n : run[k] = AllocSpecificPage(run[k - 1], pages[k])
                 /\ run[n] = TakeAll(AllMemory, pages)
  <2>1. PICK left : left = TakeAll(AllMemory, pages)
    OBVIOUS
  <2>2. \E run : /\ run[0] = AllMemory
                 /\ \A k \in 1 .. n : run[k] = AllocSpecificPage(run[k - 1], pages[k])
                 /\ run[n] = left
    BY <2>1, TakeTurns
  <2> QED BY <2>1, <2>2
<1> DEFINE S == {k \in 0 .. n : run[k] = FreeFrom(MEMORY_BEGIN)}
<1>2. 0 \in S
  BY <1>0, <1>1
<1>3. ASSUME NEW k \in 0 .. n - 1, k \in S PROVE k + 1 \in S
  <2>1. k + 1 \in 1 .. n /\ (k + 1) - 1 = k /\ k + 1 \in 0 .. n
    OBVIOUS
  <2>2. run[k + 1] = AllocSpecificPage(run[k], pages[k + 1]) /\ pages[k + 1] \in Page \ {MEMORY_BEGIN}
    BY <1>1, <2>1
  <2>3. AllocSpecificPage(FreeFrom(MEMORY_BEGIN), pages[k + 1]) = FreeFrom(MEMORY_BEGIN)
    BY <1>0, <2>2, AllocSpecificFree
  <2> QED BY <1>3, <2>1, <2>2, <2>3
<1> HIDE DEF S
<1>4. n \in S
  <2>1. 0 .. n \subseteq S
    BY <1>2, <1>3, IntervalInduction
  <2> QED BY <2>1
<1> QED BY <1>1, <1>4 DEF S

-----------------------------------------------------------------------------
(* Memory                                                                  *)

\* The pages in the trees of programs were handed out as single pages, and
\* apart from page 0 each is in one tree, at one address.
PagesApart(tables, R, singles) ==
  /\ \A r \in R \ {ttkernel} : \A n \in GetAllPages(tables, r) : n[2] \in singles
  /\ \A r, s \in R \ {ttkernel} : \A n \in GetAllPages(tables, r), o \in GetAllPages(tables, s) :
        n[2] = o[2] /\ n[2] # 0 => r = s /\ n = o

\* What was handed out is the memory below the free one.
Handed(list, singles, stacks) ==
  /\ \E a \in MEMORY_BEGIN .. MemoryEnd :
       list = FreeFrom(a) /\ (singles \cup stacks) \ {0} = MEMORY_BEGIN .. a - 1
  /\ singles \cap stacks \subseteq {0}

\* The kernel finds it where it is.
HandedSeen(tables, singles, stacks) ==
  /\ \A page \in singles : Seen(tables, page)
  /\ \A s \in stacks : \A page \in StackOf(s) : Seen(tables, page)

(***************************************************************************)
(* Memory with the trees of the roots R: the kernel's, those of live       *)
(* processes, and those exec has left behind.                              *)
(***************************************************************************)
Sound(m, R) ==
  /\ m = [freelist |-> m.freelist, singles |-> m.singles, stacks |-> m.stacks, tables |-> m.tables]
  /\ KernelTables(m.tables, R)
  /\ Handed(m.freelist, m.singles, m.stacks)
  /\ HandedSeen(m.tables, m.singles, m.stacks)
  /\ PagesApart(m.tables, R, m.singles)

\* What alloc() hands out is new, or page 0.
LEMMA HandedOne ==
  ASSUME NEW list, NEW singles, NEW stacks, Handed(list, singles, stacks)
  PROVE  LET got == AllocOne(list)
         IN  /\ Handed(got.list, singles \cup {got.addr}, stacks)
             /\ got.addr \in (Page \ (singles \cup stacks)) \cup {0}
<1>0. MEMORY_BEGIN \in Nat \ {0} /\ MemoryEnd \in Nat
  BY PageAssumption DEF MemoryEnd
<1>1. PICK a \in MEMORY_BEGIN .. MemoryEnd :
        list = FreeFrom(a) /\ (singles \cup stacks) \ {0} = MEMORY_BEGIN .. a - 1
  BY DEF Handed
<1>2. AllocOne(list) = IF a = MemoryEnd THEN [addr |-> 0, list |-> FreeFrom(a)]
                       ELSE [addr |-> a, list |-> FreeFrom(a + 1)]
  BY <1>1, AllocOneFree
<1>3. singles \cap stacks \subseteq {0}
  BY DEF Handed
<1>4. CASE a = MemoryEnd
  <2>1. AllocOne(list).addr = 0 /\ AllocOne(list).list = list
    BY <1>1, <1>2, <1>4
  <2>2. (singles \cup {0} \cup stacks) \ {0} = MEMORY_BEGIN .. a - 1
    BY <1>1
  <2>3. Handed(list, singles \cup {0}, stacks)
    BY <1>1, <1>3, <2>2 DEF Handed
  <2> QED BY <2>1, <2>3
<1>5. CASE a # MemoryEnd
  <2>1. AllocOne(list).addr = a /\ AllocOne(list).list = FreeFrom(a + 1)
    BY <1>2, <1>5
  <2>2. a + 1 \in MEMORY_BEGIN .. MemoryEnd /\ a \in Nat \ {0} /\ (a + 1) - 1 = a
    BY <1>0, <1>5
  <2>3. a \notin MEMORY_BEGIN .. a - 1 /\ MEMORY_BEGIN .. a = (MEMORY_BEGIN .. a - 1) \cup {a}
    BY <1>0, <2>2
  <2>4. a \notin singles \cup stacks
    BY <1>1, <2>2, <2>3
  <2>5. (singles \cup {a} \cup stacks) \ {0} = MEMORY_BEGIN .. (a + 1) - 1
    BY <1>1, <2>2, <2>3
  <2>6. Handed(FreeFrom(a + 1), singles \cup {a}, stacks)
    BY <1>3, <2>2, <2>4, <2>5 DEF Handed
  <2>7. a \in Page
    BY <1>0, <1>5 DEF Page
  <2> QED BY <2>1, <2>4, <2>6, <2>7
<1> QED BY <1>4, <1>5

\* What alloc(n) hands out is new, or page 0, and lies in a tree's addresses.
LEMMA HandedMany ==
  ASSUME NEW list, NEW singles, NEW stacks, Handed(list, singles, stacks)
  PROVE  LET got == AllocMany(list, StackPages)
         IN  /\ Handed(got.list, singles, stacks \cup {got.addr})
             /\ got.addr \in Nat /\ StackOf(got.addr) \subseteq Address
<1>0. MEMORY_BEGIN \in Nat \ {0} /\ MemoryEnd \in Nat /\ StackPages \in Nat \ {0}
  BY PageAssumption DEF MemoryEnd
<1>1. PICK a \in MEMORY_BEGIN .. MemoryEnd :
        list = FreeFrom(a) /\ (singles \cup stacks) \ {0} = MEMORY_BEGIN .. a - 1
  BY DEF Handed
<1>2. AllocMany(list, StackPages) =
        IF a + StackPages <= MemoryEnd THEN [addr |-> a, list |-> FreeFrom(a + 1)]
        ELSE [addr |-> 0, list |-> FreeFrom(a)]
  BY <1>0, <1>1, AllocManyFree
<1>3. singles \cap stacks \subseteq {0}
  BY DEF Handed
<1>4. CASE ~(a + StackPages <= MemoryEnd)
  <2>1. AllocMany(list, StackPages).addr = 0 /\ AllocMany(list, StackPages).list = list
    BY <1>1, <1>2, <1>4
  <2>2. (singles \cup (stacks \cup {0})) \ {0} = MEMORY_BEGIN .. a - 1
    BY <1>1
  <2>3. Handed(list, singles, stacks \cup {0})
    BY <1>1, <1>3, <2>2 DEF Handed
  <2>4. StackOf(0) \subseteq Address
    <3>1. StackOf(0) = 0 .. StackPages - 1
      BY <1>0 DEF StackOf
    <3> QED BY <3>1, AddressAssumption
  <2> QED BY <2>1, <2>3, <2>4
<1>5. CASE a + StackPages <= MemoryEnd
  <2>1. AllocMany(list, StackPages).addr = a /\ AllocMany(list, StackPages).list = FreeFrom(a + 1)
    BY <1>2, <1>5
  <2>2. a + 1 \in MEMORY_BEGIN .. MemoryEnd /\ a \in Nat \ {0} /\ (a + 1) - 1 = a
    BY <1>0, <1>5
  <2>3. a \notin MEMORY_BEGIN .. a - 1 /\ MEMORY_BEGIN .. a = (MEMORY_BEGIN .. a - 1) \cup {a}
    BY <1>0, <2>2
  <2>4. a \notin singles \cup stacks
    BY <1>1, <2>2, <2>3
  <2>5. (singles \cup (stacks \cup {a})) \ {0} = MEMORY_BEGIN .. (a + 1) - 1
    BY <1>1, <2>2, <2>3
  <2>6. Handed(FreeFrom(a + 1), singles, stacks \cup {a})
    BY <1>3, <2>2, <2>4, <2>5 DEF Handed
  <2>7. StackOf(a) \subseteq Page
    BY <1>0, <1>5, <2>2 DEF Page, StackOf
  <2>8. StackOf(a) \subseteq Address
    BY <2>7, AddressAssumption
  <2> QED BY <2>1, <2>2, <2>6, <2>8
<1> QED BY <1>4, <1>5

\* What serves no program is below the free memory, too.
LEMMA HandedPages ==
  ASSUME NEW list, NEW singles, NEW stacks, Handed(list, singles, stacks)
  PROVE  /\ list \in Seq(Node)
         /\ singles \subseteq Page \cup {0} /\ stacks \subseteq Page \cup {0}
         /\ FreePages(list) \cap (singles \cup stacks) = {}
         /\ Page \subseteq FreePages(list) \cup singles \cup stacks
<1>0. MEMORY_BEGIN \in Nat \ {0} /\ MemoryEnd \in Nat
  BY PageAssumption DEF MemoryEnd
<1>1. PICK a \in MEMORY_BEGIN .. MemoryEnd :
        list = FreeFrom(a) /\ (singles \cup stacks) \ {0} = MEMORY_BEGIN .. a - 1
  BY DEF Handed
<1>2. list \in Seq(Node) /\ FreePages(list) = a .. MemoryEnd - 1
  BY <1>1, FreeFromPages
<1>3. MEMORY_BEGIN .. a - 1 \subseteq Page
  BY <1>0 DEF Page
<1>4. \A page \in singles \cup stacks : page = 0 \/ page \in MEMORY_BEGIN .. a - 1
  BY <1>1
<1>5. \A page \in a .. MemoryEnd - 1 : page # 0 /\ page \notin MEMORY_BEGIN .. a - 1
  BY <1>0
<1>6. Page \subseteq (a .. MemoryEnd - 1) \cup (MEMORY_BEGIN .. a - 1)
  BY <1>0 DEF Page
<1> QED BY <1>1, <1>2, <1>3, <1>4, <1>5, <1>6

\* A new page in a tree of a program.
LEMMA MapNewPageEffect ==
  ASSUME NEW m, NEW R, Sound(m, R), NEW root \in R \ {ttkernel}, NEW va \in Address
  PROVE  LET o == MapNewPage(m, root, va)
         IN  /\ Sound(o, R)
             /\ \A s \in R \ {ttkernel, root} : Same(m.tables, o.tables, s)
             /\ m.singles \subseteq o.singles /\ o.stacks = m.stacks
             /\ \E page \in (Page \ m.singles) \cup {0} :
                  GetAllPages(o.tables, root) =
                    {n \in GetAllPages(m.tables, root) : n[1] # va} \cup {<<va, page>>}
<1> DEFINE o == MapNewPage(m, root, va)
           got == AllocOne(m.freelist)
           page == got.addr
           T == SetPage(m.tables, ttkernel, page, page)
           U == SetPage(T, root, va, page)
<1>1. /\ Handed(got.list, m.singles \cup {page}, m.stacks)
      /\ page \in (Page \ (m.singles \cup m.stacks)) \cup {0}
  BY HandedOne DEF Sound
<1>2. o = [freelist |-> got.list, singles |-> m.singles \cup {page}, stacks |-> m.stacks, tables |-> U]
  <2>1. PICK f, i, s, t : m = [freelist |-> f, singles |-> i, stacks |-> s, tables |-> t]
    BY DEF Sound
  <2>2. o = [m EXCEPT !.freelist = got.list, !.singles = m.singles \cup {page}, !.tables = U]
    BY <2>1 DEF MapNewPage
  <2> HIDE DEF o, got, U
  <2> QED BY <2>1, <2>2
<1> HIDE DEF o, got
<1>3. page \in Address
  <2>1. 0 \in Address
    BY SpanValues, AddressAssumption DEF Address
  <2> QED BY <1>1, <2>1, AddressAssumption
<1> HIDE DEF page
<1>4. /\ KernelTables(T, R)
      /\ \A s \in R \ {ttkernel} : Same(m.tables, T, s)
      /\ \A p : Seen(m.tables, p) \/ p = page => Seen(T, p)
  BY <1>3, SetForKernel DEF Sound
<1> HIDE DEF T
<1>5. /\ Forest(U, R)
      /\ \A s \in R \ {root} : Same(T, U, s)
      /\ GetAllPages(U, root) = {n \in GetAllPages(T, root) : n[1] # va} \cup {<<va, page>>}
  BY <1>3, <1>4, SetPageEffect DEF KernelTables
<1> HIDE DEF U
<1>l. Levels \in 0 .. Levels
  BY AddressAssumption
<1>6. \A s \in R \ {ttkernel, root} : Same(m.tables, U, s)
  BY <1>4, <1>5 DEF Same
<1>7. GetAllPages(T, root) = GetAllPages(m.tables, root)
  BY <1>4, <1>l DEF Same, GetAllPages
<1>8. GetAllPages(U, ttkernel) = GetAllPages(T, ttkernel)
  BY <1>4, <1>5, <1>l DEF KernelTables, Same, GetAllPages
<1>9. KernelTables(U, R)
  BY <1>4, <1>5, <1>8 DEF KernelTables
<1>10. HandedSeen(U, m.singles \cup {page}, m.stacks)
  BY <1>4, <1>8 DEF HandedSeen, Seen, Sound
<1>11. \A s \in R \ {ttkernel, root} : GetAllPages(U, s) = GetAllPages(m.tables, s)
  BY <1>6, <1>l DEF Same, GetAllPages
<1>12. GetAllPages(U, root) = {n \in GetAllPages(m.tables, root) : n[1] # va} \cup {<<va, page>>}
  BY <1>5, <1>7
<1>13. PagesApart(U, R, m.singles \cup {page})
  <2>1. PagesApart(m.tables, R, m.singles)
    BY DEF Sound
  <2>2. ASSUME NEW r \in R \ {ttkernel}, NEW n \in GetAllPages(U, r)
        PROVE  \/ n \in GetAllPages(m.tables, r) /\ n[2] \in m.singles
               \/ r = root /\ n = <<va, page>> /\ n[2] = page
    <3>1. <<va, page>>[2] = page
      OBVIOUS
    <3>2. n \in GetAllPages(m.tables, r) \/ (r = root /\ n = <<va, page>>)
      BY <1>11, <1>12
    <3> QED BY <2>1, <3>1, <3>2 DEF PagesApart
  <2>3. page \notin m.singles \/ page = 0
    BY <1>1
  <2>4. \A r \in R \ {ttkernel} : \A n \in GetAllPages(U, r) : n[2] \in m.singles \cup {page}
    BY <2>2
  <2>5. ASSUME NEW r \in R \ {ttkernel}, NEW s \in R \ {ttkernel},
               NEW n \in GetAllPages(U, r), NEW k \in GetAllPages(U, s), n[2] = k[2], n[2] # 0
        PROVE  r = s /\ n = k
    <3>1. \/ n \in GetAllPages(m.tables, r) /\ n[2] \in m.singles
          \/ r = root /\ n = <<va, page>> /\ n[2] = page
      BY <2>2
    <3>2. \/ k \in GetAllPages(m.tables, s) /\ k[2] \in m.singles
          \/ s = root /\ k = <<va, page>> /\ k[2] = page
      BY <2>2
    <3> QED BY <2>1, <2>3, <2>5, <3>1, <3>2 DEF PagesApart
  <2> QED BY <2>4, <2>5 DEF PagesApart
<1>14. /\ o.freelist = got.list /\ o.singles = m.singles \cup {page}
       /\ o.stacks = m.stacks /\ o.tables = U
  BY <1>2
<1>15. Sound(o, R)
  BY <1>1, <1>2, <1>9, <1>10, <1>13, <1>14 DEF Sound
<1>16. page \in (Page \ m.singles) \cup {0}
  BY <1>1
<1> QED BY <1>6, <1>12, <1>14, <1>15, <1>16 DEF o

\* New pages at each of some addresses, in a tree that maps nothing.
LEMMA MapNewPagesEffect ==
  ASSUME NEW m, NEW R, Sound(m, R), NEW root \in R \ {ttkernel}, NEW vas \in SUBSET Address,
         GetAllPages(m.tables, root) = {}
  PROVE  LET o == MapNewPages(m, root, vas)
         IN  /\ Sound(o, R)
             /\ \A s \in R \ {ttkernel, root} : Same(m.tables, o.tables, s)
             /\ m.singles \subseteq o.singles /\ o.stacks = m.stacks
             /\ \A va : va \in vas <=> \E n \in GetAllPages(o.tables, root) : n[1] = va
             /\ \A n \in GetAllPages(o.tables, root) : n[2] \in (Page \ m.singles) \cup {0}
<1> DEFINE c == Cardinality(vas)
<1>1. /\ c \in Nat /\ DOMAIN InOrder(vas) = 1 .. c
      /\ \A i \in 1 .. c : InOrder(vas)[i] \in vas
      /\ \A va \in vas : \E i \in 1 .. c : InOrder(vas)[i] = va
  BY AddressesFinite, InOrderAll
<1>2. MapNewPages(m, root, vas) = MapAll(m, root, InOrder(vas))
  BY DEF MapNewPages, MapAll
<1>3. PICK list : list = InOrder(vas)
  OBVIOUS
<1> HIDE DEF c
<1>4. PICK run : /\ run[0] = m
                 /\ \A k \in 1 .. c : run[k] = MapNewPage(run[k - 1], root, list[k])
                 /\ run[c] = MapNewPages(m, root, vas)
  <2>1. PICK n \in Nat : n = c
    BY <1>1
  <2>2. DOMAIN list = 1 .. n
    BY <1>1, <1>3, <2>1
  <2>3. PICK run : /\ run[0] = m
                   /\ \A k \in 1 .. n : run[k] = MapNewPage(run[k - 1], root, list[k])
                   /\ run[n] = MapAll(m, root, list)
    <3>1. PICK all : all = MapAll(m, root, list)
      OBVIOUS
    <3> QED BY <2>2, <3>1, MapTurns
  <2> QED BY <1>2, <1>3, <2>1, <2>3
<1> DEFINE Done(k) ==
             /\ Sound(run[k], R)
             /\ \A s \in R \ {ttkernel, root} : Same(m.tables, run[k].tables, s)
             /\ m.singles \subseteq run[k].singles /\ run[k].stacks = m.stacks
             /\ \A j \in 1 .. k : \E n \in GetAllPages(run[k].tables, root) : n[1] = list[j]
             /\ \A n \in GetAllPages(run[k].tables, root) :
                   n[1] \in vas /\ n[2] \in (Page \ m.singles) \cup {0}
           S == {k \in 0 .. c : Done(k)}
<1>5. 0 \in S
  <2>1. \A s \in R \ {ttkernel, root} : Same(m.tables, m.tables, s)
    BY DEF Same
  <2> QED BY <1>1, <1>4, <2>1
<1>6. ASSUME NEW k \in 0 .. c - 1, k \in S PROVE k + 1 \in S
  <2>1. Done(k)
    BY <1>6
  <2>2. k + 1 \in 1 .. c /\ (k + 1) - 1 = k /\ k + 1 \in 0 .. c /\ \A j \in 1 .. k + 1 : j \in 1 .. k \/ j = k + 1
    BY <1>1
  <2>3. run[k + 1] = MapNewPage(run[k], root, list[k + 1])
    BY <1>4, <2>2
  <2>4. list[k + 1] \in vas /\ list[k + 1] \in Address
    BY <1>1, <1>3, <2>2
  <2>5. PICK old, new, va : old = run[k] /\ new = run[k + 1] /\ va = list[k + 1]
    OBVIOUS
  <2>6. /\ Sound(new, R)
        /\ \A s \in R \ {ttkernel, root} : Same(old.tables, new.tables, s)
        /\ old.singles \subseteq new.singles /\ new.stacks = old.stacks
        /\ \E page \in (Page \ old.singles) \cup {0} :
             GetAllPages(new.tables, root) =
               {n \in GetAllPages(old.tables, root) : n[1] # va} \cup {<<va, page>>}
    BY <2>1, <2>3, <2>4, <2>5, MapNewPageEffect, SMTT(30)
  <2>7. PICK page \in (Page \ old.singles) \cup {0} :
          GetAllPages(new.tables, root) =
            {n \in GetAllPages(old.tables, root) : n[1] # va} \cup {<<va, page>>}
    BY <2>6
  <2>8. PICK b : b = <<va, page>>
    OBVIOUS
  <2>b. b[1] = va /\ b[2] = page
    BY <2>8
  <2>9. \A s \in R \ {ttkernel, root} : Same(m.tables, new.tables, s)
    BY <2>1, <2>5, <2>6 DEF Same
  <2>10. ASSUME NEW j \in 1 .. k + 1
         PROVE  \E n \in GetAllPages(new.tables, root) : n[1] = list[j]
    <3>1. CASE list[j] = va
      BY <2>7, <2>8, <2>b, <3>1
    <3>2. CASE list[j] # va
      <4>1. j \in 1 .. k
        BY <2>2, <2>5, <3>2
      <4>2. PICK n \in GetAllPages(old.tables, root) : n[1] = list[j]
        BY <2>1, <2>5, <4>1
      <4> QED BY <2>7, <3>2, <4>2
    <3> QED BY <3>1, <3>2
  <2>11. ASSUME NEW n \in GetAllPages(new.tables, root)
         PROVE  n[1] \in vas /\ n[2] \in (Page \ m.singles) \cup {0}
    <3>1. n \in GetAllPages(old.tables, root) \/ n = b
      BY <2>7, <2>8
    <3>2. page \in (Page \ m.singles) \cup {0}
      BY <2>1, <2>5
    <3> QED BY <2>1, <2>4, <2>5, <2>b, <3>1, <3>2
  <2>12. Done(k + 1)
    BY <2>1, <2>5, <2>6, <2>9, <2>10, <2>11
  <2> QED BY <2>2, <2>12
<1>7. Done(c)
  <2> HIDE DEF Done
  <2> HIDE DEF S
  <2>1. 0 .. c \subseteq S
    BY <1>1, <1>5, <1>6, IntervalInduction
  <2> QED BY <1>1, <2>1 DEF S
<1>8. \A va : va \in vas <=> \E n \in GetAllPages(run[c].tables, root) : n[1] = va
  BY <1>1, <1>3, <1>7
<1> QED BY <1>4, <1>7, <1>8

\* Memory m has become o: it has got a tree with new pages at some addresses,
\* and a kernel stack.
Made(m, R, vas, o, new, stack) ==
  /\ new \notin R /\ new # ttkernel
  /\ Sound(o, R \cup {new})
  /\ \A s \in R \ {ttkernel} : Same(m.tables, o.tables, s)
  /\ m.singles \subseteq o.singles
  /\ o.stacks = m.stacks \cup {stack}
  /\ \A va : va \in vas <=> \E n \in GetAllPages(o.tables, new) : n[1] = va
  /\ \A n \in GetAllPages(o.tables, new) : n[2] \in (Page \ m.singles) \cup {0}

\* It is what fork and exec do.
LEMMA NewSpaceEffect ==
  ASSUME NEW m, NEW R, Sound(m, R), NEW vas \in SUBSET Address
  PROVE  Made(m, R, vas, NewSpace(m, vas).memory, NewSpace(m, vas).tt, NewSpace(m, vas).ksp)
<1> DEFINE got == AllocMany(m.freelist, StackPages)
           addr == got.addr
           pages == [i \in 1 .. StackPages |-> addr + i - 1]
           T == MapStack(m.tables, addr)
           new == NewId(T)
           U == With(T, new, Empty)
           begun == [m EXCEPT !.freelist = got.list, !.stacks = @ \cup {addr}, !.tables = U]
           b == [freelist |-> got.list, singles |-> m.singles, stacks |-> m.stacks \cup {addr}, tables |-> U]
           o == MapNewPages(b, new, vas)
<1>1. /\ Handed(got.list, m.singles, m.stacks \cup {addr})
      /\ addr \in Nat /\ StackOf(addr) \subseteq Address
  BY HandedMany DEF Sound
<1>2. NewSpace(m, vas) = [memory |-> o, tt |-> new, ksp |-> addr]
  <2>1. PICK f, i, s, t : m = [freelist |-> f, singles |-> i, stacks |-> s, tables |-> t]
    BY DEF Sound
  <2>2. begun = b
    <3>1. m.stacks = s /\ m.singles = i
      BY <2>1
    <3>2. begun = [freelist |-> got.list, singles |-> i, stacks |-> s \cup {addr}, tables |-> U]
      <4>1. PICK l, u, k : l = got.list /\ u = U /\ k = m.stacks \cup {addr}
        OBVIOUS
      <4>2. begun = [m EXCEPT !.freelist = l, !.stacks = k, !.tables = u]
        BY <4>1
      <4> HIDE DEF begun, got, U, addr
      <4>3. begun = [freelist |-> l, singles |-> i, stacks |-> k, tables |-> u]
        BY <2>1, <4>2
      <4> QED BY <3>1, <4>1, <4>3
    <3> HIDE DEF begun, got, U, addr
    <3> QED BY <3>1, <3>2
  <2>3. NewSpace(m, vas) = [memory |-> MapNewPages(begun, new, vas), tt |-> new, ksp |-> addr]
    BY DEF NewSpace
  <2> HIDE DEF begun, b, new, addr
  <2> QED BY <2>2, <2>3
<1> HIDE DEF o
<1>3. /\ KernelTables(T, R)
      /\ \A s \in R \ {ttkernel} : Same(m.tables, T, s)
      /\ \A page : Seen(m.tables, page) => Seen(T, page)
      /\ \A page \in StackOf(addr) : Seen(T, page)
  <2> HIDE DEF addr
  <2>0. StackPages \in Nat
    BY PageAssumption
  <2>1. T = MapForKernel(m.tables, pages)
    BY DEF MapStack
  <2>2. DOMAIN pages = 1 .. StackPages /\ \A k \in 1 .. StackPages : pages[k] = addr + k - 1
    OBVIOUS
  <2>3. \A k \in 1 .. StackPages : pages[k] \in StackOf(addr)
    BY <1>1, <2>0, <2>2 DEF StackOf
  <2>4. \A page \in StackOf(addr) : \E k \in 1 .. StackPages : pages[k] = page
    <3> SUFFICES ASSUME NEW page \in StackOf(addr) PROVE \E k \in 1 .. StackPages : pages[k] = page
      OBVIOUS
    <3>1. page - addr + 1 \in 1 .. StackPages /\ addr + (page - addr + 1) - 1 = page
      BY <1>1, <2>0 DEF StackOf
    <3> QED BY <2>2, <3>1
  <2> HIDE DEF pages
  <2>5. /\ KernelTables(MapForKernel(m.tables, pages), R)
        /\ \A s \in R \ {ttkernel} : Same(m.tables, MapForKernel(m.tables, pages), s)
        /\ \A page : Seen(m.tables, page) => Seen(MapForKernel(m.tables, pages), page)
        /\ \A k \in 1 .. StackPages : Seen(MapForKernel(m.tables, pages), pages[k])
    <3>1. KernelTables(m.tables, R)
      BY DEF Sound
    <3>2. \A k \in 1 .. StackPages : pages[k] \in Address
      BY <1>1, <2>3
    <3> QED BY <2>0, <2>2, <3>1, <3>2, MapForKernelEffect
  <2> QED BY <2>1, <2>4, <2>5
<1> HIDE DEF T
<1>4. new \in Nat \ DOMAIN T
  BY <1>3, NewIdIsNew DEF KernelTables, Forest
<1> HIDE DEF new
<1>5. /\ Forest(U, R \cup {new})
      /\ \A s \in R : Same(T, U, s)
      /\ Collect(U, new, Levels) = {}
      /\ new \notin R
  BY <1>3, <1>4, ForestNewRoot DEF KernelTables
<1>6. ttkernel \in R /\ new # ttkernel
  BY <1>3, <1>5 DEF KernelTables
<1> HIDE DEF U, got, addr
<1>l. Levels \in 0 .. Levels
  BY AddressAssumption
<1>7. \A s \in R : GetAllPages(U, s) = GetAllPages(T, s)
  BY <1>5, <1>l DEF Same, GetAllPages
<1>8. \A s \in R \ {ttkernel} : GetAllPages(T, s) = GetAllPages(m.tables, s)
  BY <1>3, <1>l DEF Same, GetAllPages
<1>9. GetAllPages(U, new) = {}
  BY <1>5 DEF GetAllPages
<1>10. KernelTables(U, R \cup {new})
  BY <1>3, <1>5, <1>6, <1>7 DEF KernelTables
<1>11. HandedSeen(U, m.singles, m.stacks \cup {addr})
  BY <1>3, <1>6, <1>7 DEF HandedSeen, Seen, Sound
<1>12. PagesApart(U, R \cup {new}, m.singles)
  <2>1. PagesApart(m.tables, R, m.singles)
    BY DEF Sound
  <2>2. \A r \in (R \cup {new}) \ {ttkernel} : \A n \in GetAllPages(U, r) :
           r \in R /\ n \in GetAllPages(m.tables, r)
    BY <1>7, <1>8, <1>9
  <2> QED BY <2>1, <2>2 DEF PagesApart
<1>13. /\ b.freelist = got.list /\ b.singles = m.singles
       /\ b.stacks = m.stacks \cup {addr} /\ b.tables = U
       /\ b = [freelist |-> got.list, singles |-> m.singles, stacks |-> m.stacks \cup {addr}, tables |-> U]
  OBVIOUS
<1> HIDE DEF b
<1>14. Sound(b, R \cup {new})
  BY <1>1, <1>10, <1>11, <1>12, <1>13 DEF Sound
<1>15. /\ Sound(o, R \cup {new})
       /\ \A s \in (R \cup {new}) \ {ttkernel, new} : Same(b.tables, o.tables, s)
       /\ b.singles \subseteq o.singles /\ o.stacks = b.stacks
       /\ \A va : va \in vas <=> \E n \in GetAllPages(o.tables, new) : n[1] = va
       /\ \A n \in GetAllPages(o.tables, new) : n[2] \in (Page \ b.singles) \cup {0}
  <2>1. PICK Q, root : Q = R \cup {new} /\ root = new
    OBVIOUS
  <2>2. Sound(b, Q) /\ root \in Q \ {ttkernel} /\ GetAllPages(b.tables, root) = {}
    BY <1>6, <1>9, <1>13, <1>14, <2>1
  <2>3. /\ Sound(MapNewPages(b, root, vas), Q)
        /\ \A s \in Q \ {ttkernel, root} : Same(b.tables, MapNewPages(b, root, vas).tables, s)
        /\ b.singles \subseteq MapNewPages(b, root, vas).singles
        /\ MapNewPages(b, root, vas).stacks = b.stacks
        /\ \A va : va \in vas <=> \E n \in GetAllPages(MapNewPages(b, root, vas).tables, root) : n[1] = va
        /\ \A n \in GetAllPages(MapNewPages(b, root, vas).tables, root) : n[2] \in (Page \ b.singles) \cup {0}
    BY <2>2, MapNewPagesEffect
  <2>4. o = MapNewPages(b, root, vas)
    BY <2>1 DEF o
  <2> QED BY <2>1, <2>3, <2>4
<1>16. \A s \in R \ {ttkernel} : Same(m.tables, o.tables, s)
  BY <1>3, <1>5, <1>13, <1>15 DEF Same
<1>17. Made(m, R, vas, o, new, addr)
  BY <1>5, <1>6, <1>13, <1>15, <1>16 DEF Made
<1>18. NewSpace(m, vas).memory = o /\ NewSpace(m, vas).tt = new /\ NewSpace(m, vas).ksp = addr
  BY <1>2
<1> QED BY <1>17, <1>18

\* A tree is taken away; what the others map stays.
LEMMA DestroyEffect ==
  ASSUME NEW m, NEW R, Sound(m, R), NEW root \in R \ {ttkernel}
  PROVE  LET o == [m EXCEPT !.tables = Destroy(@, root)]
         IN  /\ Sound(o, R \ {root})
             /\ \A s \in R \ {root} : Same(m.tables, o.tables, s)
             /\ o.singles = m.singles /\ o.stacks = m.stacks
<1> DEFINE o == [m EXCEPT !.tables = Destroy(@, root)]
           U == Destroy(m.tables, root)
<1>1. Forest(U, R \ {root}) /\ \A s \in R \ {root} : Same(m.tables, U, s)
  BY ForestWithout DEF Sound, KernelTables
<1>2. o = [freelist |-> m.freelist, singles |-> m.singles, stacks |-> m.stacks, tables |-> U]
  <2>1. m = [freelist |-> m.freelist, singles |-> m.singles, stacks |-> m.stacks, tables |-> m.tables]
    BY DEF Sound
  <2>2. PICK u : u = U
    OBVIOUS
  <2>3. o = [m EXCEPT !.tables = u]
    BY <2>1, <2>2
  <2> HIDE DEF o, U
  <2>4. o = [freelist |-> m.freelist, singles |-> m.singles, stacks |-> m.stacks, tables |-> u]
    BY <2>1, <2>3
  <2> QED BY <2>2, <2>4
<1> HIDE DEF U, o
<1>l. Levels \in 0 .. Levels
  BY AddressAssumption
<1>3. \A s \in R \ {root} : GetAllPages(U, s) = GetAllPages(m.tables, s)
  BY <1>1, <1>l DEF Same, GetAllPages
<1>4. ttkernel \in R \ {root}
  BY DEF Sound, KernelTables
<1>5. KernelTables(U, R \ {root})
  BY <1>1, <1>3, <1>4 DEF Sound, KernelTables
<1>6. HandedSeen(U, m.singles, m.stacks)
  BY <1>3, <1>4 DEF Sound, HandedSeen, Seen
<1>7. PagesApart(U, R \ {root}, m.singles)
  <2>1. PagesApart(m.tables, R, m.singles)
    BY DEF Sound
  <2> QED BY <1>3, <2>1 DEF PagesApart
<1>8. o.freelist = m.freelist /\ o.singles = m.singles /\ o.stacks = m.stacks /\ o.tables = U
  BY <1>2
<1>9. Sound(o, R \ {root})
  BY <1>2, <1>5, <1>6, <1>7, <1>8 DEF Sound
<1> QED BY <1>1, <1>8, <1>9 DEF o

-----------------------------------------------------------------------------
(* Memory and processes                                                    *)

(***************************************************************************)
(* What is always true of memory, the trees and stacks of live processes   *)
(* and the next process identifier.  R are the roots of all trees.         *)
(***************************************************************************)
Live(m, t, k, c, R) ==
  /\ Sound(m, R)
  /\ c \in Nat /\ DOMAIN t \subseteq Pid /\ \A p \in DOMAIN t : p < c
  /\ IsInjective(t) /\ \A p \in DOMAIN t : t[p] \in R \ {ttkernel}
  /\ DOMAIN k = DOMAIN t /\ \A p \in DOMAIN t : k[p] \in m.stacks
  /\ \A p \in DOMAIN t : GetAllPages(m.tables, t[p]) # {}

\* A process more, with memory of its own.
LEMMA LiveFork ==
  ASSUME NEW m, NEW t, NEW k, NEW c \in Pid, NEW R, Live(m, t, k, c, R),
         NEW vas \in SUBSET Address, vas # {}
  PROVE  LET space == NewSpace(m, vas)
         IN  Live(space.memory, With(t, c, space.tt), With(k, c, space.ksp), c + 1, R \cup {space.tt})
<1> DEFINE space == NewSpace(m, vas)
           o == space.memory
           new == space.tt
           t2 == With(t, c, new)
           k2 == With(k, c, space.ksp)
<1>0. c \in Nat
  BY DEF Live
<1>1. Made(m, R, vas, o, new, space.ksp)
  <2>1. Sound(m, R)
    BY DEF Live
  <2> QED BY <2>1, NewSpaceEffect
<1>2. c \notin DOMAIN t
  BY <1>0 DEF Live
<1>3. /\ DOMAIN t2 = DOMAIN t \cup {c} /\ t2[c] = new /\ \A p \in DOMAIN t : t2[p] = t[p]
      /\ DOMAIN k2 = DOMAIN k \cup {c} /\ k2[c] = space.ksp /\ \A p \in DOMAIN k : k2[p] = k[p]
  BY <1>2 DEF With, Live
<1>l. Levels \in 0 .. Levels
  BY AddressAssumption
<1> HIDE DEF space, t2, k2
<1>4. \A p \in DOMAIN t : GetAllPages(o.tables, t[p]) = GetAllPages(m.tables, t[p])
  BY <1>1, <1>l DEF Made, Live, Same, GetAllPages
<1>5. \A p \in DOMAIN t2 : GetAllPages(o.tables, t2[p]) # {}
  <2>1. GetAllPages(o.tables, new) # {}
    BY <1>1 DEF Made
  <2> QED BY <1>3, <1>4, <2>1 DEF Made, Live
<1>6. c + 1 \in Nat /\ DOMAIN t2 \subseteq Pid /\ \A p \in DOMAIN t2 : p < c + 1
  <2>1. \A p \in DOMAIN t : p \in Nat /\ p < c
    BY AddressAssumption DEF Live
  <2> QED BY <1>0, <1>3, <2>1 DEF Live
<1>7. IsInjective(t2) /\ \A p \in DOMAIN t2 : t2[p] \in (R \cup {new}) \ {ttkernel}
  BY <1>1, <1>3 DEF Made, Live, IsInjective
<1>8. DOMAIN k2 = DOMAIN t2 /\ \A p \in DOMAIN t2 : k2[p] \in o.stacks
  BY <1>1, <1>3 DEF Made, Live
<1>9. Live(o, t2, k2, c + 1, R \cup {new})
  BY <1>1, <1>5, <1>6, <1>7, <1>8 DEF Made, Live
<1> QED BY <1>9 DEF space, t2, k2

\* A process gets other memory.
LEMMA LiveExec ==
  ASSUME NEW m, NEW t, NEW k, NEW c, NEW R, Live(m, t, k, c, R), NEW p \in DOMAIN t,
         NEW vas \in SUBSET Address, vas # {}
  PROVE  LET space == NewSpace(m, vas)
         IN  Live(space.memory, [t EXCEPT ![p] = space.tt], [k EXCEPT ![p] = space.ksp], c,
                  R \cup {space.tt})
<1> DEFINE space == NewSpace(m, vas)
           o == space.memory
           new == space.tt
           t2 == [t EXCEPT ![p] = new]
           k2 == [k EXCEPT ![p] = space.ksp]
<1>1. Made(m, R, vas, o, new, space.ksp)
  <2>1. Sound(m, R)
    BY DEF Live
  <2> QED BY <2>1, NewSpaceEffect
<1>3. /\ DOMAIN t2 = DOMAIN t /\ t2[p] = new /\ \A q \in DOMAIN t \ {p} : t2[q] = t[q]
      /\ DOMAIN k2 = DOMAIN k /\ k2[p] = space.ksp /\ \A q \in DOMAIN k \ {p} : k2[q] = k[q]
  BY DEF Live
<1>l. Levels \in 0 .. Levels
  BY AddressAssumption
<1> HIDE DEF space, t2, k2
<1>4. \A q \in DOMAIN t : GetAllPages(o.tables, t[q]) = GetAllPages(m.tables, t[q])
  BY <1>1, <1>l DEF Made, Live, Same, GetAllPages
<1>5. \A q \in DOMAIN t2 : GetAllPages(o.tables, t2[q]) # {}
  <2>1. GetAllPages(o.tables, new) # {}
    BY <1>1 DEF Made
  <2> QED BY <1>3, <1>4, <2>1 DEF Made, Live
<1>7. IsInjective(t2) /\ \A q \in DOMAIN t2 : t2[q] \in (R \cup {new}) \ {ttkernel}
  BY <1>1, <1>3 DEF Made, Live, IsInjective
<1>8. DOMAIN k2 = DOMAIN t2 /\ \A q \in DOMAIN t2 : k2[q] \in o.stacks
  BY <1>1, <1>3 DEF Made, Live
<1>9. Live(o, t2, k2, c, R \cup {new})
  BY <1>1, <1>3, <1>5, <1>7, <1>8 DEF Made, Live
<1> QED BY <1>9 DEF space, t2, k2

\* A process less, and its tree.
LEMMA LiveExit ==
  ASSUME NEW m, NEW t, NEW k, NEW c, NEW R, Live(m, t, k, c, R), NEW p \in DOMAIN t
  PROVE  Live([m EXCEPT !.tables = Destroy(@, t[p])], [q \in DOMAIN t \ {p} |-> t[q]],
              [q \in DOMAIN k \ {p} |-> k[q]], c, R \ {t[p]})
<1> DEFINE o == [m EXCEPT !.tables = Destroy(@, t[p])]
           t2 == [q \in DOMAIN t \ {p} |-> t[q]]
           k2 == [q \in DOMAIN k \ {p} |-> k[q]]
<1>1. /\ Sound(o, R \ {t[p]})
      /\ \A s \in R \ {t[p]} : Same(m.tables, o.tables, s)
      /\ o.singles = m.singles /\ o.stacks = m.stacks
  <2>1. t[p] \in R \ {ttkernel} /\ Sound(m, R)
    BY DEF Live
  <2> QED BY <2>1, DestroyEffect
<1>2. /\ DOMAIN t2 = DOMAIN t \ {p} /\ \A q \in DOMAIN t2 : t2[q] = t[q]
      /\ DOMAIN k2 = DOMAIN k \ {p} /\ \A q \in DOMAIN k2 : k2[q] = k[q]
  OBVIOUS
<1>l. Levels \in 0 .. Levels
  BY AddressAssumption
<1> HIDE DEF o, t2, k2
<1>3. \A q \in DOMAIN t2 : t2[q] \in R \ {ttkernel, t[p]}
  BY <1>2 DEF Live, IsInjective
<1>4. \A q \in DOMAIN t2 : GetAllPages(o.tables, t2[q]) = GetAllPages(m.tables, t[q])
  BY <1>1, <1>2, <1>3, <1>l DEF Same, GetAllPages
<1>5. \A q \in DOMAIN t2 : GetAllPages(o.tables, t2[q]) # {}
  BY <1>2, <1>4 DEF Live
<1>6. IsInjective(t2)
  BY <1>2 DEF Live, IsInjective
<1>7. DOMAIN k2 = DOMAIN t2 /\ \A q \in DOMAIN t2 : k2[q] \in o.stacks
  BY <1>1, <1>2 DEF Live
<1>8. Live(o, t2, k2, c, R \ {t[p]})
  BY <1>1, <1>2, <1>3, <1>5, <1>6, <1>7 DEF Live
<1> QED BY <1>8 DEF o, t2, k2

\* A process gets a page more.
LEMMA LiveGrow ==
  ASSUME NEW m, NEW t, NEW k, NEW c, NEW R, Live(m, t, k, c, R), NEW p \in DOMAIN t,
         NEW va \in Address
  PROVE  Live(MapNewPage(m, t[p], va), t, k, c, R)
<1> DEFINE o == MapNewPage(m, t[p], va)
<1>1. /\ Sound(o, R)
      /\ \A s \in R \ {ttkernel, t[p]} : Same(m.tables, o.tables, s)
      /\ o.stacks = m.stacks
      /\ \E page \in (Page \ m.singles) \cup {0} :
           GetAllPages(o.tables, t[p]) =
             {n \in GetAllPages(m.tables, t[p]) : n[1] # va} \cup {<<va, page>>}
  <2>1. t[p] \in R \ {ttkernel} /\ Sound(m, R)
    BY DEF Live
  <2> QED BY <2>1, MapNewPageEffect
<1>l. Levels \in 0 .. Levels
  BY AddressAssumption
<1> HIDE DEF o
<1>2. \A q \in DOMAIN t \ {p} : GetAllPages(o.tables, t[q]) = GetAllPages(m.tables, t[q])
  BY <1>1, <1>l DEF Live, IsInjective, Same, GetAllPages
<1>3. GetAllPages(o.tables, t[p]) # {}
  BY <1>1
<1>4. \A q \in DOMAIN t : GetAllPages(o.tables, t[q]) # {}
  BY <1>2, <1>3 DEF Live
<1>5. Live(o, t, k, c, R)
  BY <1>1, <1>4 DEF Live
<1> QED BY <1>5 DEF o

LiveNow(R) == Live(memory, tt, ksp, pid_counter, R)

(***************************************************************************)
(* The inductive invariant.                                                *)
(***************************************************************************)
Lives == \E R : LiveNow(R)

\* An entry of a table leads nowhere, to a page, or to a table.
LEMMA EntriesTyped ==
  ASSUME NEW tables, NEW R, Forest(tables, R), NEW id \in DOMAIN tables
  PROVE  tables[id] \in [Index -> {Invalid} \cup Address \cup DOMAIN tables]
<1>0. Levels \in Nat \ {0}
  BY AddressAssumption
<1>1. tables[id] \in [Index -> Int]
  BY DEF Forest
<1>2. PICK r \in R, d \in 0 .. Levels - 1 : \E n \in Collect(tables, r, d) : n[2] = id
  BY DEF Forest, Rooted
<1>3. PICK n \in Collect(tables, r, d) : n[2] = id
  BY <1>2
<1>4. ASSUME NEW i \in Index PROVE tables[id][i] \in {Invalid} \cup Address \cup DOMAIN tables
  <2> SUFFICES ASSUME tables[id][i] # Invalid PROVE tables[id][i] \in Address \cup DOMAIN tables
    OBVIOUS
  <2>1. PICK e : e = <<n[1] + i * span[d + 1], tables[n[2]][i]>>
    OBVIOUS
  <2>2. e \in Below(tables, Collect(tables, r, d), d + 1) /\ e[2] = tables[id][i]
    BY <1>3, <2>1, BelowElements
  <2>3. d \in Nat
    BY <1>0
  <2>4. e \in Collect(tables, r, d + 1)
    BY <2>2, <2>3, CollectStep
  <2>5. d + 1 \in 0 .. Levels - 1 \/ d + 1 = Levels
    BY <1>0
  <2>6. CASE d + 1 \in 0 .. Levels - 1
    BY <2>2, <2>4, <2>6 DEF Forest
  <2>7. CASE d + 1 = Levels
    BY <2>2, <2>4, <2>7 DEF Forest
  <2> QED BY <2>5, <2>6, <2>7
<1> QED BY <1>1, <1>4

\* The types.
LEMMA LivesTyped ==
  ASSUME NEW R, LiveNow(R)
  PROVE  TypeOK
<1>1. Sound(memory, R)
  BY DEF LiveNow, Live
<1>2. Forest(memory.tables, R)
  BY <1>1 DEF Sound, KernelTables
<1>3. MemoryOK(memory)
  <2>1. memory.freelist \in Seq(Node) /\ memory.singles \subseteq Page \cup {0} /\ memory.stacks \subseteq Page \cup {0}
    BY <1>1, HandedPages DEF Sound
  <2>2. DOMAIN memory.tables \subseteq Nat
    BY <1>2 DEF Forest
  <2>3. \A id \in DOMAIN memory.tables :
           memory.tables[id] \in [Index -> {Invalid} \cup Address \cup DOMAIN memory.tables]
    BY <1>2, EntriesTyped
  <2> QED BY <2>1, <2>2, <2>3 DEF MemoryOK
<1>4. \A p \in DOMAIN tt : tt[p] \in DOMAIN memory.tables \ {ttkernel}
  <2> SUFFICES ASSUME NEW p \in DOMAIN tt PROVE tt[p] \in DOMAIN memory.tables \ {ttkernel}
    OBVIOUS
  <2>1. tt[p] \in R \ {ttkernel}
    BY DEF LiveNow, Live
  <2>2. PICK n : n = <<0, tt[p]>>
    OBVIOUS
  <2>3. n \in Collect(memory.tables, tt[p], 0) /\ n[2] = tt[p] /\ 0 \in 0 .. Levels - 1
    BY <2>2, CollectStep, AddressAssumption
  <2> QED BY <1>2, <2>1, <2>3 DEF Forest
<1>5. DOMAIN ksp = DOMAIN tt /\ Range(ksp) \subseteq memory.stacks
  BY DEF LiveNow, Live, Range
<1>6. DOMAIN tt \subseteq Pid /\ pid_counter \in Nat
  BY DEF LiveNow, Live
<1> QED BY <1>3, <1>4, <1>5, <1>6 DEF TypeOK

\* A page is in the list of free memory or was taken out of it, once.
LEMMA LivesOnce ==
  ASSUME NEW R, LiveNow(R)
  PROVE  TakenOnce
<1>1. Handed(memory.freelist, memory.singles, memory.stacks)
  BY DEF LiveNow, Live, Sound
<1>2. memory.singles \cap memory.stacks \subseteq {0}
  BY <1>1 DEF Handed
<1>3. /\ FreePages(memory.freelist) \cap (memory.singles \cup memory.stacks) = {}
      /\ Page \subseteq FreePages(memory.freelist) \cup memory.singles \cup memory.stacks
  BY <1>1, HandedPages
<1> QED BY <1>2, <1>3 DEF TakenOnce, Used

\* The kernel finds every page it touches.
LEMMA LivesSeen ==
  ASSUME NEW R, LiveNow(R)
  PROVE  KernelSees
<1> DEFINE seen == GetAllPages(memory.tables, ttkernel)
           pages(p) == {n[2] : n \in GetAllPages(memory.tables, tt[p])}
<1>1. Sound(memory, R)
  BY DEF LiveNow, Live
<1>2. \A n \in seen : n[1] = n[2]
  BY <1>1 DEF Sound, KernelTables
<1>3. ASSUME NEW p \in DOMAIN tt, NEW page \in StackOf(ksp[p]) PROVE <<page, page>> \in seen
  <2>1. ksp[p] \in memory.stacks
    BY DEF LiveNow, Live
  <2> QED BY <1>1, <2>1 DEF Sound, HandedSeen, Seen
<1>4. ASSUME NEW p \in DOMAIN tt, NEW page \in pages(p) PROVE <<page, page>> \in seen
  <2>1. tt[p] \in R \ {ttkernel}
    BY DEF LiveNow, Live
  <2>2. page \in memory.singles
    BY <1>1, <2>1 DEF Sound, PagesApart
  <2> QED BY <1>1, <2>2 DEF Sound, HandedSeen, Seen
<1> QED BY <1>2, <1>3, <1>4 DEF KernelSees

\* The trees in use are among those of the invariant.
LEMMA RootsLive ==
  ASSUME NEW R, LiveNow(R)
  PROVE  Roots \subseteq R /\ Roots = {ttkernel} \cup {tt[p] : p \in DOMAIN tt}
<1>1. Roots = {ttkernel} \cup {tt[p] : p \in DOMAIN tt}
  BY DEF Roots, Range
<1>2. ttkernel \in R
  BY DEF LiveNow, Live, Sound, KernelTables
<1> QED BY <1>1, <1>2 DEF LiveNow, Live

\* No table is in two trees.
LEMMA LivesApart ==
  ASSUME NEW R, LiveNow(R)
  PROVE  TablesApart
<1>1. Forest(memory.tables, R)
  BY DEF LiveNow, Live, Sound, KernelTables
<1>2. Roots \subseteq R
  BY RootsLive
<1>3. TypeOK
  BY LivesTyped
<1>4. IsInjective(tt) /\ ttkernel \notin Range(tt)
  BY DEF LiveNow, Live, Range
<1>5. NoSharing(memory.tables, Roots)
  BY <1>1, <1>2 DEF Forest, NoSharing
<1>6. InTrees \subseteq DOMAIN memory.tables
  <2> SUFFICES ASSUME NEW id, id \in InTrees PROVE id \in DOMAIN memory.tables
    OBVIOUS
  <2>1. PICK r \in Roots : id \in TablesOf(memory.tables, r)
    BY DEF InTrees
  <2>2. PICK d \in 0 .. Levels - 1 : \E n \in Collect(memory.tables, r, d) : n[2] = id
    BY <2>1, TablesOfElements
  <2> QED BY <1>1, <1>2, <2>2 DEF Forest
<1> QED BY <1>3, <1>4, <1>5, <1>6 DEF TablesApart, NoSharing

\* A program has at least one page, and no more than addresses.
LEMMA ProgramAddresses ==
  ASSUME NEW size \in BinarySize
  PROVE  Program(size) \in SUBSET Address /\ Program(size) # {}
BY AddressAssumption DEF Program

Image == [i \in 1 .. KernelEnd - KernelBegin |-> KernelBegin + i - 1]

Booted ==
  [freelist |-> FoldLeft(AllocSpecificPage, AllMemory, Image),
   singles  |-> {},
   stacks   |-> {},
   tables   |-> MapForKernel([id \in {ttkernel} |-> Empty], Image)]

\* There is one tree to begin with, and all memory is free.
LEMMA BootedSound == Sound(Booted, {ttkernel})
<1> DEFINE n == IF KernelBegin <= KernelEnd THEN KernelEnd - KernelBegin ELSE 0
           none == [id \in {} |-> Empty]
           base == [id \in {ttkernel} |-> Empty]
<1>1. n \in Nat /\ 1 .. KernelEnd - KernelBegin = 1 .. n
  BY PageAssumption
<1>2. /\ DOMAIN Image = 1 .. n
      /\ \A k \in 1 .. n : Image[k] \in Page \ {MEMORY_BEGIN} /\ Image[k] \in Address
  <2>1. DOMAIN Image = 1 .. n
    BY <1>1 DEF Image
  <2>2. ASSUME NEW k \in 1 .. n PROVE Image[k] \in KernelImage
    <3>1. Image[k] = KernelBegin + k - 1
      BY <1>1 DEF Image
    <3>2. k <= KernelEnd - KernelBegin
      BY PageAssumption
    <3> QED BY <3>1, <3>2, PageAssumption DEF KernelImage
  <2> QED BY <2>1, <2>2, PageAssumption, AddressAssumption
<1> HIDE DEF n
<1>3. TakeAll(AllMemory, Image) = FreeFrom(MEMORY_BEGIN)
  BY <1>1, <1>2, ImageNotTaken
<1>4. Handed(FreeFrom(MEMORY_BEGIN), {}, {})
  <2>1. MEMORY_BEGIN \in MEMORY_BEGIN .. MemoryEnd /\ MEMORY_BEGIN .. MEMORY_BEGIN - 1 = {}
    BY PageAssumption DEF MemoryEnd
  <2> QED BY <2>1 DEF Handed
<1>5. Forest(none, {})
  <2>1. DOMAIN none = {}
    OBVIOUS
  <2> HIDE DEF none
  <2> QED BY <2>1, FS_EmptySet DEF Forest, NoSharing, Rooted
<1>6. base = With(none, ttkernel, Empty)
  BY DEF With
<1>7. Forest(base, {ttkernel}) /\ Collect(base, ttkernel, Levels) = {}
  <2>1. ttkernel \in Nat \ DOMAIN none
    BY DEF ttkernel
  <2> HIDE DEF none, base
  <2>2. /\ Forest(With(none, ttkernel, Empty), {} \cup {ttkernel})
        /\ Collect(With(none, ttkernel, Empty), ttkernel, Levels) = {}
    BY <1>5, <2>1, ForestNewRoot
  <2>3. {} \cup {ttkernel} = {ttkernel}
    OBVIOUS
  <2> QED BY <1>6, <2>2, <2>3
<1> HIDE DEF base
<1>8. KernelTables(base, {ttkernel})
  BY <1>7 DEF KernelTables, GetAllPages
<1>9. KernelTables(MapForKernel(base, Image), {ttkernel})
  BY <1>1, <1>2, <1>8, MapForKernelEffect
<1>10. /\ Booted.freelist = FreeFrom(MEMORY_BEGIN) /\ Booted.singles = {} /\ Booted.stacks = {}
       /\ Booted.tables = MapForKernel(base, Image)
       /\ Booted = [freelist |-> Booted.freelist, singles |-> Booted.singles,
                    stacks |-> Booted.stacks, tables |-> Booted.tables]
  BY <1>3 DEF Booted, TakeAll, base
<1>11. HandedSeen(Booted.tables, {}, {}) /\ PagesApart(Booted.tables, {ttkernel}, {})
  BY DEF HandedSeen, PagesApart
<1> QED BY <1>4, <1>9, <1>10, <1>11 DEF Sound

\* What main() has made when it starts the first process.
LEMMA InitMade ==
  ASSUME Init
  PROVE  \E size \in BinarySize :
           /\ Made(Booted, {ttkernel}, Program(size), memory, tt[0], ksp[0])
           /\ tt = [p \in {0} |-> tt[0]] /\ ksp = [p \in {0} |-> ksp[0]]
           /\ pid_counter = 1
<1>1. PICK size \in BinarySize :
        /\ memory = NewSpace(Booted, Program(size)).memory
        /\ tt = [p \in {0} |-> NewSpace(Booted, Program(size)).tt]
        /\ ksp = [p \in {0} |-> NewSpace(Booted, Program(size)).ksp]
        /\ pid_counter = 1
  BY DEF Init, Booted, Image
<1>2. Made(Booted, {ttkernel}, Program(size), NewSpace(Booted, Program(size)).memory,
           NewSpace(Booted, Program(size)).tt, NewSpace(Booted, Program(size)).ksp)
  BY BootedSound, ProgramAddresses, NewSpaceEffect
<1>3. tt[0] = NewSpace(Booted, Program(size)).tt /\ ksp[0] = NewSpace(Booted, Program(size)).ksp
  BY <1>1
<1> QED BY <1>1, <1>2, <1>3

\* It satisfies the invariant.
LEMMA InitLives == Init => Lives
<1> SUFFICES ASSUME Init PROVE Lives
  OBVIOUS
<1>1. PICK size \in BinarySize :
        /\ Made(Booted, {ttkernel}, Program(size), memory, tt[0], ksp[0])
        /\ tt = [p \in {0} |-> tt[0]] /\ ksp = [p \in {0} |-> ksp[0]]
        /\ pid_counter = 1
  BY InitMade
<1>2. DOMAIN tt = {0} /\ DOMAIN ksp = {0}
  BY <1>1
<1>3. GetAllPages(memory.tables, tt[0]) # {}
  BY <1>1, ProgramAddresses DEF Made
<1>4. 0 \in Pid /\ 0 < 1 /\ 1 \in Nat
  BY AddressAssumption
<1>5. LiveNow({ttkernel} \cup {tt[0]})
  BY <1>1, <1>2, <1>3, <1>4 DEF LiveNow, Live, Made, IsInjective
<1> QED BY <1>5 DEF Lives

\* Addresses of a tree are addresses.
LEMMA MappedAddresses ==
  ASSUME NEW R, LiveNow(R), NEW p \in DOMAIN tt
  PROVE  Mapped(p) \in SUBSET Address /\ Mapped(p) # {}
<1>l. Levels \in 0 .. Levels
  BY AddressAssumption
<1>1. \A n \in GetAllPages(memory.tables, tt[p]) : n[1] \in Address
  BY <1>l, FoundShape DEF GetAllPages, Starts
<1>2. GetAllPages(memory.tables, tt[p]) # {}
  BY DEF LiveNow, Live
<1> QED BY <1>1, <1>2 DEF Mapped

-----------------------------------------------------------------------------
(* Steps                                                                   *)

\* fork: what it makes, and what the invariant becomes.
LEMMA ForkStep ==
  ASSUME NEW R, LiveNow(R), NEW p \in DOMAIN tt, Fork(p)
  PROVE  \E new, stack :
           /\ Made(memory, R, Mapped(p), memory', new, stack)
           /\ tt' = With(tt, pid_counter, new) /\ ksp' = With(ksp, pid_counter, stack)
           /\ LiveNow(R \cup {new})'
           /\ pid_counter \in Pid \ DOMAIN tt
<1> DEFINE space == NewSpace(memory, Mapped(p))
<1>1. /\ pid_counter \in Pid /\ pid_counter' = pid_counter + 1
      /\ memory' = space.memory
      /\ tt' = With(tt, pid_counter, space.tt)
      /\ ksp' = With(ksp, pid_counter, space.ksp)
  BY DEF Fork
<1>2. Mapped(p) \in SUBSET Address /\ Mapped(p) # {}
  BY MappedAddresses
<1>3. Live(memory, tt, ksp, pid_counter, R) /\ Sound(memory, R)
  BY DEF LiveNow, Live
<1>4. Made(memory, R, Mapped(p), space.memory, space.tt, space.ksp)
  BY <1>2, <1>3, NewSpaceEffect
<1>5. Live(space.memory, With(tt, pid_counter, space.tt), With(ksp, pid_counter, space.ksp),
           pid_counter + 1, R \cup {space.tt})
  BY <1>1, <1>2, <1>3, LiveFork
<1>6. pid_counter \notin DOMAIN tt
  <2>1. pid_counter \in Nat /\ \A q \in DOMAIN tt : q < pid_counter
    BY <1>3 DEF Live
  <2> QED BY <2>1
<1> HIDE DEF space
<1>7. PICK new, stack : new = space.tt /\ stack = space.ksp
  OBVIOUS
<1>8. LiveNow(R \cup {new})'
  BY <1>1, <1>5, <1>7 DEF LiveNow
<1>9. Made(memory, R, Mapped(p), memory', new, stack)
  BY <1>1, <1>4, <1>7
<1> QED BY <1>1, <1>6, <1>7, <1>8, <1>9

\* exec
LEMMA ExecStep ==
  ASSUME NEW R, LiveNow(R), NEW p \in DOMAIN tt, NEW size \in BinarySize, Exec(p, size)
  PROVE  \E new, stack :
           /\ Made(memory, R, Program(size), memory', new, stack)
           /\ tt' = [tt EXCEPT ![p] = new] /\ ksp' = [ksp EXCEPT ![p] = stack]
           /\ LiveNow(R \cup {new})'
<1> DEFINE space == NewSpace(memory, Program(size))
<1>1. /\ pid_counter' = pid_counter
      /\ memory' = space.memory
      /\ tt' = [tt EXCEPT ![p] = space.tt]
      /\ ksp' = [ksp EXCEPT ![p] = space.ksp]
  BY DEF Exec
<1>2. Program(size) \in SUBSET Address /\ Program(size) # {}
  BY ProgramAddresses
<1>3. Live(memory, tt, ksp, pid_counter, R) /\ Sound(memory, R)
  BY DEF LiveNow, Live
<1>4. Made(memory, R, Program(size), space.memory, space.tt, space.ksp)
  BY <1>2, <1>3, NewSpaceEffect
<1>5. Live(space.memory, [tt EXCEPT ![p] = space.tt], [ksp EXCEPT ![p] = space.ksp],
           pid_counter, R \cup {space.tt})
  BY <1>2, <1>3, LiveExec
<1> HIDE DEF space
<1>6. PICK new, stack : new = space.tt /\ stack = space.ksp
  OBVIOUS
<1>7. LiveNow(R \cup {new})'
  BY <1>1, <1>5, <1>6 DEF LiveNow
<1>8. Made(memory, R, Program(size), memory', new, stack)
  BY <1>1, <1>4, <1>6
<1> QED BY <1>1, <1>6, <1>7, <1>8

\* exit
LEMMA ExitStep ==
  ASSUME NEW R, LiveNow(R), NEW p \in DOMAIN tt, Exit(p)
  PROVE  /\ \E Q : Q = R \ {tt[p]} /\ LiveNow(Q)'
         /\ tt' = [q \in DOMAIN tt \ {p} |-> tt[q]] /\ p # 0
         /\ \A s \in R \ {tt[p]} : Same(memory.tables, memory'.tables, s)
<1>1. /\ memory' = [memory EXCEPT !.tables = Destroy(@, tt[p])]
      /\ tt' = [q \in DOMAIN tt \ {p} |-> tt[q]]
      /\ ksp' = [q \in DOMAIN ksp \ {p} |-> ksp[q]]
      /\ pid_counter' = pid_counter /\ p # 0
  BY DEF Exit
<1>2. Live(memory, tt, ksp, pid_counter, R) /\ Sound(memory, R) /\ tt[p] \in R \ {ttkernel}
  BY DEF LiveNow, Live
<1>3. Live([memory EXCEPT !.tables = Destroy(@, tt[p])], [q \in DOMAIN tt \ {p} |-> tt[q]],
           [q \in DOMAIN ksp \ {p} |-> ksp[q]], pid_counter, R \ {tt[p]})
  BY <1>2, LiveExit
<1>4. PICK Q : Q = R \ {tt[p]}
  OBVIOUS
<1>6. LiveNow(Q)'
  <2>1. Live(memory', tt', ksp', pid_counter', Q)
    BY <1>1, <1>3, <1>4, Zenon
  <2> QED BY <2>1 DEF LiveNow
<1>5. \A s \in R \ {tt[p]} : Same(memory.tables, memory'.tables, s)
  <2>1. \A s \in R \ {tt[p]} :
          Same(memory.tables, [memory EXCEPT !.tables = Destroy(@, tt[p])].tables, s)
    BY <1>2, DestroyEffect
  <2> QED BY <1>1, <2>1, Zenon
<1> QED BY <1>1, <1>4, <1>5, <1>6

\* allocate_page, and a fault on the stack
LEMMA GrowStep ==
  ASSUME NEW R, LiveNow(R), NEW p \in DOMAIN tt, NEW va \in Address \ Mapped(p),
         memory' = MapNewPage(memory, tt[p], va), UNCHANGED <<tt, ksp, pid_counter>>
  PROVE  /\ LiveNow(R)'
         /\ \A s \in R \ {ttkernel, tt[p]} : Same(memory.tables, memory'.tables, s)
         /\ \E page \in (Page \ memory.singles) \cup {0} :
              GetAllPages(memory'.tables, tt[p])
                = GetAllPages(memory.tables, tt[p]) \cup {<<va, page>>}
<1>1. Live(memory, tt, ksp, pid_counter, R) /\ Sound(memory, R) /\ tt[p] \in R \ {ttkernel}
  BY DEF LiveNow, Live
<1>2. Live(memory', tt, ksp, pid_counter, R)
  BY <1>1, LiveGrow
<1>3. LiveNow(R)'
  BY <1>2 DEF LiveNow
<1>4. /\ \A s \in R \ {ttkernel, tt[p]} : Same(memory.tables, memory'.tables, s)
      /\ \E page \in (Page \ memory.singles) \cup {0} :
           GetAllPages(memory'.tables, tt[p]) =
             {n \in GetAllPages(memory.tables, tt[p]) : n[1] # va} \cup {<<va, page>>}
  BY <1>1, MapNewPageEffect
<1>5. {n \in GetAllPages(memory.tables, tt[p]) : n[1] # va} = GetAllPages(memory.tables, tt[p])
  BY DEF Mapped
<1> QED BY <1>3, <1>4, <1>5

\* A page is added at an address of the heap or of the stack.
Grown(p) ==
  \E va \in Address \ Mapped(p) :
    memory' = MapNewPage(memory, tt[p], va) /\ UNCHANGED <<tt, ksp, pid_counter>>

\* What a step may be.
LEMMA StepCases ==
  ASSUME [Next]_vars
  PROVE  \/ \E p \in DOMAIN tt : Fork(p)
         \/ \E p \in DOMAIN tt, size \in BinarySize : Exec(p, size)
         \/ \E p \in DOMAIN tt : Exit(p)
         \/ \E p \in DOMAIN tt : Grown(p)
         \/ UNCHANGED vars
<1>1. ASSUME NEW p \in DOMAIN tt, NEW va \in Heap, AllocatePage(p, va) PROVE Grown(p)
  BY <1>1, AddressAssumption DEF AllocatePage, Grown
<1>2. ASSUME NEW p \in DOMAIN tt, NEW va \in Stack, DataAbort(p, va) PROVE Grown(p)
  BY <1>2, AddressAssumption DEF DataAbort, Grown
<1>3. ASSUME NEW p \in DOMAIN tt, AllocatePageRefused(p, HEAP_END) PROVE UNCHANGED vars
  BY <1>3 DEF AllocatePageRefused
<1> QED BY <1>1, <1>2, <1>3 DEF Next

\* Every step keeps the invariant.
LEMMA NextLives == Lives /\ [Next]_vars => Lives'
<1> SUFFICES ASSUME Lives, [Next]_vars PROVE Lives'
  OBVIOUS
<1>1. PICK R : LiveNow(R)
  BY DEF Lives
<1>2. ASSUME NEW Q, LiveNow(Q)' PROVE Lives'
  BY <1>2 DEF Lives
<1>3. ASSUME NEW p \in DOMAIN tt, Fork(p) PROVE Lives'
  BY <1>1, <1>2, <1>3, ForkStep
<1>4. ASSUME NEW p \in DOMAIN tt, NEW size \in BinarySize, Exec(p, size) PROVE Lives'
  BY <1>1, <1>2, <1>4, ExecStep
<1>5. ASSUME NEW p \in DOMAIN tt, Exit(p) PROVE Lives'
  BY <1>1, <1>2, <1>5, ExitStep
<1>6. ASSUME NEW p \in DOMAIN tt, Grown(p) PROVE Lives'
  BY <1>1, <1>2, <1>6, GrowStep DEF Grown
<1>7. ASSUME UNCHANGED vars PROVE Lives'
  <2>1. LiveNow(R)'
    BY <1>1, <1>7 DEF LiveNow, vars
  <2> QED BY <1>2, <2>1
<1> QED BY <1>3, <1>4, <1>5, <1>6, <1>7, StepCases

\* The invariant holds in every state.
LEMMA AlwaysLives == Spec => []Lives
BY InitLives, NextLives, PTL DEF Spec

-----------------------------------------------------------------------------
(* Tables that are lost                                                    *)

\* The same tree has the same tables.
LEMMA SameTables ==
  ASSUME NEW tables, NEW others, NEW root, Same(tables, others, root)
  PROVE  TablesOf(others, root) = TablesOf(tables, root)
<1>1. \A d \in 0 .. Levels - 1 : Collect(others, root, d) = Collect(tables, root, d)
  BY AddressAssumption DEF Same
<1>2. \A id : id \in TablesOf(others, root) <=> id \in TablesOf(tables, root)
  BY <1>1, TablesOfElements
<1> QED BY <1>2

\* Tables in no tree in use are in the trees of the roots that are not.
LEMMA LostTables ==
  ASSUME NEW R, LiveNow(R)
  PROVE  Lost = UNION {TablesOf(memory.tables, r) : r \in R \ Roots}
<1>1. Forest(memory.tables, R)
  BY DEF LiveNow, Live, Sound, KernelTables
<1>2. Roots \subseteq R
  BY RootsLive
<1>3. ASSUME NEW id
      PROVE  id \in DOMAIN memory.tables <=> \E r \in R : id \in TablesOf(memory.tables, r)
  BY <1>1, TablesOfElements DEF Forest, Rooted
<1>4. ASSUME NEW id, NEW r \in R, NEW s \in R,
             id \in TablesOf(memory.tables, r), id \in TablesOf(memory.tables, s)
      PROVE  r = s
  <2>1. PICK i \in 0 .. Levels - 1 : \E n \in Collect(memory.tables, r, i) : n[2] = id
    BY <1>4, TablesOfElements
  <2>2. PICK j \in 0 .. Levels - 1 : \E n \in Collect(memory.tables, s, j) : n[2] = id
    BY <1>4, TablesOfElements
  <2> QED BY <1>1, <2>1, <2>2 DEF Forest, NoSharing
<1>5. ASSUME NEW id
      PROVE  id \in Lost <=> \E r \in R \ Roots : id \in TablesOf(memory.tables, r)
  <2>1. id \in InTrees <=> \E r \in Roots : id \in TablesOf(memory.tables, r)
    BY DEF InTrees
  <2> QED BY <1>2, <1>3, <1>4, <2>1 DEF Lost
<1> QED BY <1>5

\* The same of the next state.
LEMMA LostTablesNext ==
  ASSUME NEW Q
  PROVE  LiveNow(Q)' => (Lost = UNION {TablesOf(memory.tables, r) : r \in Q \ Roots})'
<1>1. LiveNow(Q) => Lost = UNION {TablesOf(memory.tables, r) : r \in Q \ Roots}
  BY LostTables
<1> QED BY <1>1, PTL

\* After a step that leaves alone the trees that are then not in use.
LEMMA LostNext ==
  ASSUME NEW R, LiveNow(R), NEW Q, LiveNow(Q)',
         \A s \in Q : s \in Roots' \/ Same(memory.tables, memory'.tables, s)
  PROVE  \A id : id \in Lost' <=> \E r \in Q : r \notin Roots' /\ id \in TablesOf(memory.tables, r)
<1>1. Lost' = UNION {TablesOf(memory'.tables, r) : r \in Q \ Roots'}
  BY LostTablesNext
<1>2. \A r \in Q \ Roots' : TablesOf(memory'.tables, r) = TablesOf(memory.tables, r)
  BY SameTables
<1> QED BY <1>1, <1>2

(***************************************************************************)
(* The kernel's heap loses no table but those exec leaves behind.          *)
(***************************************************************************)
LEMMA NextLeaks ==
  ASSUME Lives, [Next]_vars, Lost' # Lost
  PROVE  \E p \in DOMAIN tt :
           /\ p \in DOMAIN tt' /\ tt'[p] # tt[p]
           /\ Lost' = Lost \cup TablesOf(memory.tables, tt[p])
<1>1. PICK R : LiveNow(R)
  BY DEF Lives
<1>2. Roots \subseteq R /\ Roots = {ttkernel} \cup {tt[p] : p \in DOMAIN tt}
  BY <1>1, RootsLive
<1>3. \A id : id \in Lost <=> \E r \in R : r \notin Roots /\ id \in TablesOf(memory.tables, r)
  BY <1>1, LostTables
<1>4. Roots' = {ttkernel} \cup {tt'[p] : p \in DOMAIN tt'}
  BY DEF Roots, Range
<1>5. ASSUME NEW p \in DOMAIN tt PROVE tt[p] \in R \ {ttkernel}
  BY <1>1 DEF LiveNow, Live
<1>6. ASSUME NEW p \in DOMAIN tt, Fork(p) PROVE Lost' = Lost
  <2>1. PICK new, stack :
          /\ Made(memory, R, Mapped(p), memory', new, stack)
          /\ tt' = With(tt, pid_counter, new)
          /\ LiveNow(R \cup {new})'
          /\ pid_counter \in Pid \ DOMAIN tt
    BY <1>1, <1>6, ForkStep
  <2>2. PICK Q : Q = R \cup {new} /\ LiveNow(Q)'
    BY <2>1
  <2>3. new \notin R /\ \A s \in R \ {ttkernel} : Same(memory.tables, memory'.tables, s)
    BY <2>1 DEF Made
  <2>4. Roots' = Roots \cup {new}
    <3>1. /\ DOMAIN tt' = DOMAIN tt \cup {pid_counter} /\ tt'[pid_counter] = new
          /\ \A q \in DOMAIN tt : tt'[q] = tt[q]
      BY <2>1 DEF With
    <3> QED BY <1>2, <1>4, <3>1
  <2>5. \A s \in Q : s \in Roots' \/ Same(memory.tables, memory'.tables, s)
    BY <1>2, <2>2, <2>3, <2>4
  <2>6. \A id : id \in Lost' <=> \E r \in Q : r \notin Roots' /\ id \in TablesOf(memory.tables, r)
    BY <1>1, <2>2, <2>5, LostNext
  <2>7. \A r : (r \in Q /\ r \notin Roots') <=> (r \in R /\ r \notin Roots)
    BY <2>2, <2>3, <2>4
  <2>8. \A id : id \in Lost' <=> id \in Lost
    BY <1>3, <2>6, <2>7
  <2> QED BY <2>8
<1>7. ASSUME NEW p \in DOMAIN tt, NEW size \in BinarySize, Exec(p, size)
      PROVE  /\ p \in DOMAIN tt' /\ tt'[p] # tt[p]
             /\ Lost' = Lost \cup TablesOf(memory.tables, tt[p])
  <2>1. PICK new, stack :
          /\ Made(memory, R, Program(size), memory', new, stack)
          /\ tt' = [tt EXCEPT ![p] = new]
          /\ LiveNow(R \cup {new})'
    BY <1>1, <1>7, ExecStep
  <2>2. PICK Q : Q = R \cup {new} /\ LiveNow(Q)'
    BY <2>1
  <2>3. new \notin R /\ \A s \in R \ {ttkernel} : Same(memory.tables, memory'.tables, s)
    BY <2>1 DEF Made
  <2>4. DOMAIN tt' = DOMAIN tt /\ tt'[p] = new /\ \A q \in DOMAIN tt \ {p} : tt'[q] = tt[q]
    BY <2>1
  <2>5. tt[p] \in R \ {ttkernel} /\ \A q \in DOMAIN tt \ {p} : tt[q] # tt[p]
    BY <1>1, <1>5 DEF LiveNow, Live, IsInjective
  <2>6. Roots' = (Roots \ {tt[p]}) \cup {new}
    <3>1. ASSUME NEW r PROVE r \in Roots' <=> r \in (Roots \ {tt[p]}) \cup {new}
      BY <1>2, <1>4, <2>4, <2>5
    <3> QED BY <3>1
  <2>7. \A s \in Q : s \in Roots' \/ Same(memory.tables, memory'.tables, s)
    BY <1>2, <2>2, <2>3, <2>5, <2>6
  <2>8. \A id : id \in Lost' <=> \E r \in Q : r \notin Roots' /\ id \in TablesOf(memory.tables, r)
    BY <1>1, <2>2, <2>7, LostNext
  <2>9. \A r : (r \in Q /\ r \notin Roots') <=> (r \in R /\ r \notin Roots) \/ r = tt[p]
    BY <2>2, <2>3, <2>5, <2>6
  <2>10. \A id : id \in Lost' <=> id \in Lost \/ id \in TablesOf(memory.tables, tt[p])
    BY <1>3, <2>8, <2>9
  <2>11. Lost' = Lost \cup TablesOf(memory.tables, tt[p])
    BY <2>10
  <2> QED BY <2>3, <2>4, <2>5, <2>11
<1>8. ASSUME NEW p \in DOMAIN tt, Exit(p) PROVE Lost' = Lost
  <2>1. /\ \E Q : Q = R \ {tt[p]} /\ LiveNow(Q)'
        /\ tt' = [q \in DOMAIN tt \ {p} |-> tt[q]]
        /\ \A s \in R \ {tt[p]} : Same(memory.tables, memory'.tables, s)
    BY <1>1, <1>8, ExitStep
  <2>2. PICK Q : Q = R \ {tt[p]} /\ LiveNow(Q)'
    BY <2>1
  <2>3. tt[p] \in R \ {ttkernel} /\ \A q \in DOMAIN tt \ {p} : tt[q] # tt[p]
    BY <1>1, <1>5 DEF LiveNow, Live, IsInjective
  <2>4. Roots' = Roots \ {tt[p]}
    <3>1. DOMAIN tt' = DOMAIN tt \ {p} /\ \A q \in DOMAIN tt \ {p} : tt'[q] = tt[q]
      BY <2>1
    <3>2. ASSUME NEW r PROVE r \in Roots' <=> r \in Roots \ {tt[p]}
      BY <1>2, <1>4, <2>3, <3>1
    <3> QED BY <3>2
  <2>5. \A s \in Q : s \in Roots' \/ Same(memory.tables, memory'.tables, s)
    BY <2>1, <2>2
  <2>6. \A id : id \in Lost' <=> \E r \in Q : r \notin Roots' /\ id \in TablesOf(memory.tables, r)
    BY <1>1, <2>2, <2>5, LostNext
  <2>7. tt[p] \in Roots
    BY <1>2
  <2>8. \A r : (r \in Q /\ r \notin Roots') <=> (r \in R /\ r \notin Roots)
    BY <2>2, <2>4, <2>7
  <2>9. \A id : id \in Lost' <=> id \in Lost
    BY <1>3, <2>6, <2>8
  <2> QED BY <2>9
<1>9. ASSUME NEW p \in DOMAIN tt, Grown(p) PROVE Lost' = Lost
  <2>1. PICK va \in Address \ Mapped(p) :
          memory' = MapNewPage(memory, tt[p], va) /\ UNCHANGED <<tt, ksp, pid_counter>>
    BY <1>9 DEF Grown
  <2>2. LiveNow(R)' /\ \A s \in R \ {ttkernel, tt[p]} : Same(memory.tables, memory'.tables, s)
    BY <1>1, <2>1, GrowStep
  <2>3. Roots' = Roots
    BY <1>2, <1>4, <2>1
  <2>4. \A s \in R : s \in Roots' \/ Same(memory.tables, memory'.tables, s)
    BY <1>2, <2>2, <2>3
  <2>5. \A id : id \in Lost' <=> \E r \in R : r \notin Roots' /\ id \in TablesOf(memory.tables, r)
    BY <1>1, <2>2, <2>4, LostNext
  <2>6. \A id : id \in Lost' <=> id \in Lost
    BY <1>3, <2>3, <2>5
  <2> QED BY <2>6
<1>10. ASSUME UNCHANGED vars PROVE Lost' = Lost
  BY <1>10 DEF vars, Lost, InTrees, Roots, Range
<1> QED BY <1>6, <1>7, <1>8, <1>9, <1>10, StepCases

-----------------------------------------------------------------------------
(* The theorems                                                            *)

(***************************************************************************)
(* Whatever forks, programs loaded, faults and exits came before, alloc    *)
(* returns no address of a page a second time, neither for a single page   *)
(* nor for the beginning of a kernel stack, and a page that it has not     *)
(* returned is still in its list.  Of the further pages of a kernel stack  *)
(* this says that they are in the list or have been returned to somebody.  *)
(***************************************************************************)
THEOREM PagesTakenOnce == Spec => []TakenOnce
<1>1. Lives => TakenOnce
  BY LivesOnce DEF Lives
<1> QED BY <1>1, AlwaysLives, PTL

(***************************************************************************)
(* The pages a process has mapped and those of the stack the kernel runs   *)
(* on for it are mapped in the kernel's own tables, each at its own        *)
(* address: fork's copy of a program and the first instruction after a     *)
(* switch of stacks hit no unmapped page.                                  *)
(***************************************************************************)
THEOREM KernelAlwaysSees == Spec => []KernelSees
<1>1. Lives => KernelSees
  BY LivesSeen DEF Lives
<1> QED BY <1>1, AlwaysLives, PTL

(***************************************************************************)
(* The trees of the processes and of the kernel share no table: the tree   *)
(* an exit gives back to the heap holds nothing another one still uses.    *)
(***************************************************************************)
THEOREM TablesStayApart == Spec => []TablesApart
<1>1. Lives => TablesApart
  BY LivesApart DEF Lives
<1> QED BY <1>1, AlwaysLives, PTL

(***************************************************************************)
(* The one call that loses tables is exec, which puts a new tree into the  *)
(* process and leaves the old one where it is.  It loses that tree and     *)
(* nothing else; fork, exit and the calls and faults that add a page to a  *)
(* process lose none.                                                      *)
(***************************************************************************)
THEOREM ExecLeaks == Spec => OnlyExecLeaks
<1>1. Lives /\ [Next]_vars =>
        [Lost' # Lost =>
           \E p \in DOMAIN tt :
             /\ p \in DOMAIN tt' /\ tt'[p] # tt[p]
             /\ Lost' = Lost \cup TablesOf(memory.tables, tt[p])]_vars
  BY NextLeaks
<1> QED BY <1>1, AlwaysLives, PTL DEF Spec, OnlyExecLeaks

-----------------------------------------------------------------------------
(* Private address spaces                                                  *)

\* What a set of pairs of addresses and pages maps.
MapOf(pages) == [va \in {n[1] : n \in pages} |-> (CHOOSE n \in pages : n[1] = va)[2]]

SpaceIn(tables, t, p) == IF p \in DOMAIN t THEN MapOf(GetAllPages(tables, t[p])) ELSE << >>

\* The abstract state, now and next.
LEMMA SpaceIs ==
  ASSUME NEW p
  PROVE  /\ SpaceOf(p) = SpaceIn(memory.tables, tt, p)
         /\ SpaceOf(p)' = SpaceIn(memory'.tables, tt', p)
BY DEF SpaceOf, SpaceIn, MapOf

\* At each address of a tree is its page.
LEMMA MapOfTree ==
  ASSUME NEW tables, NEW root
  PROVE  /\ \A a : a \in DOMAIN MapOf(GetAllPages(tables, root))
                     <=> \E n \in GetAllPages(tables, root) : n[1] = a
         /\ \A n \in GetAllPages(tables, root) : MapOf(GetAllPages(tables, root))[n[1]] = n[2]
<1> DEFINE pages == GetAllPages(tables, root)
<1>1. \A m, n \in pages : m[1] = n[1] => m = n
  BY FoundOnce, AddressAssumption DEF GetAllPages
<1> HIDE DEF pages
<1>2. \A n \in pages : (CHOOSE m \in pages : m[1] = n[1]) = n
  BY <1>1
<1>3. \A n \in pages : MapOf(pages)[n[1]] = n[2]
  BY <1>2 DEF MapOf
<1>4. \A a : a \in DOMAIN MapOf(pages) <=> \E n \in pages : n[1] = a
  BY DEF MapOf
<1> QED BY <1>3, <1>4 DEF pages

\* What PrivateMemory calls a new map.
NewMap(map, singles) ==
  /\ \A a \in DOMAIN map : map[a] = 0 \/ map[a] \in Page \ singles
  /\ \A a, b \in DOMAIN map : a # b /\ map[a] = map[b] => map[a] = 0

\* It is what NewSpace makes.
LEMMA MadeNewMap ==
  ASSUME NEW m, NEW R, NEW vas, NEW o, NEW new, NEW stack, Made(m, R, vas, o, new, stack)
  PROVE  /\ DOMAIN MapOf(GetAllPages(o.tables, new)) = vas
         /\ NewMap(MapOf(GetAllPages(o.tables, new)), m.singles)
<1> DEFINE pages == GetAllPages(o.tables, new)
           map == MapOf(pages)
<1>1. /\ \A a : a \in DOMAIN map <=> \E n \in pages : n[1] = a
      /\ \A n \in pages : map[n[1]] = n[2]
  BY MapOfTree
<1> HIDE DEF map
<1>2. /\ \A va : va \in vas <=> \E n \in pages : n[1] = va
      /\ \A n \in pages : n[2] \in (Page \ m.singles) \cup {0}
  BY DEF Made
<1>3. \A n, k \in pages : n[2] = k[2] /\ n[2] # 0 => n = k
  <2>1. PagesApart(o.tables, R \cup {new}, o.singles) /\ new \in (R \cup {new}) \ {ttkernel}
    BY DEF Made, Sound
  <2> QED BY <2>1 DEF PagesApart
<1> HIDE DEF pages
<1>4. \A a : a \in DOMAIN map <=> a \in vas
  BY <1>1, <1>2
<1>5. DOMAIN map = vas
  BY <1>4
<1>6. ASSUME NEW a \in DOMAIN map PROVE \E n \in pages : n[1] = a /\ map[a] = n[2]
  BY <1>1
<1>7. \A a \in DOMAIN map : map[a] = 0 \/ map[a] \in Page \ m.singles
  BY <1>2, <1>6
<1>8. ASSUME NEW a \in DOMAIN map, NEW b \in DOMAIN map, a # b, map[a] = map[b] PROVE map[a] = 0
  BY <1>3, <1>6, <1>8
<1>9. NewMap(map, m.singles)
  BY <1>7, <1>8 DEF NewMap
<1> QED BY <1>5, <1>9 DEF map, pages

\* Pages in use were handed out.
LEMMA InUseHanded ==
  ASSUME NEW R, LiveNow(R)
  PROVE  Private!InUse \subseteq memory.singles
<1> SUFFICES ASSUME NEW page, page \in Private!InUse PROVE page \in memory.singles
  OBVIOUS
<1>1. PICK p \in Pid : page \in Private!Pages(SpaceOf(p))
  BY DEF Private!InUse
<1>2. PICK a \in DOMAIN SpaceOf(p) : page = SpaceOf(p)[a]
  BY <1>1 DEF Private!Pages
<1>3. p \in DOMAIN tt
  BY <1>2, SpaceIs DEF SpaceIn
<1>4. SpaceOf(p) = MapOf(GetAllPages(memory.tables, tt[p]))
  BY <1>3, SpaceIs DEF SpaceIn
<1>5. PICK n \in GetAllPages(memory.tables, tt[p]) : n[2] = page
  BY <1>2, <1>4, MapOfTree
<1>6. tt[p] \in R \ {ttkernel} /\ PagesApart(memory.tables, R, memory.singles)
  BY <1>3 DEF LiveNow, Live, Sound
<1> QED BY <1>5, <1>6 DEF PagesApart

\* A new map is one of PrivateMemory's.
LEMMA NewMapIsNew ==
  ASSUME NEW R, LiveNow(R), NEW map, NewMap(map, memory.singles)
  PROVE  Private!New(map)
<1>1. Private!InUse \subseteq memory.singles
  BY InUseHanded
<1> QED BY <1>1 DEF NewMap, Private!New, Private!Pages

\* The map of one process becomes another.
LEMMA BecomesIs ==
  ASSUME NEW p \in Pid, \A q \in Pid \ {p} : SpaceOf(q)' = SpaceOf(q)
  PROVE  \E map : map = SpaceOf(p)' /\ Private!Becomes(p, map)
                  /\ map \in {[q \in Pid |-> SpaceOf(q)]'[p]}
<1>1. PICK map : map = SpaceOf(p)'
  OBVIOUS
<1>2. [q \in Pid |-> SpaceOf(q)]' = [[q \in Pid |-> SpaceOf(q)] EXCEPT ![p] = map]
  BY <1>1
<1> QED BY <1>1, <1>2 DEF Private!Becomes

\* The empty map.
LEMMA NothingIs == Private!Nothing = << >>
BY DEF Private!Nothing

\* A process that lives has memory, and one that does not has none.
LEMMA LiveHasMemory ==
  ASSUME NEW R, LiveNow(R), NEW p
  PROVE  SpaceOf(p) # Private!Nothing <=> p \in DOMAIN tt
<1>1. CASE p \in DOMAIN tt
  <2>1. SpaceOf(p) = MapOf(GetAllPages(memory.tables, tt[p]))
    BY <1>1, SpaceIs DEF SpaceIn
  <2>2. GetAllPages(memory.tables, tt[p]) # {}
    BY <1>1 DEF LiveNow, Live
  <2>3. DOMAIN SpaceOf(p) # {}
    BY <2>1, <2>2, MapOfTree
  <2>4. DOMAIN Private!Nothing = {}
    BY DEF Private!Nothing
  <2> QED BY <1>1, <2>3, <2>4
<1>2. CASE p \notin DOMAIN tt
  <2>1. SpaceOf(p) = << >>
    BY <1>2, SpaceIs DEF SpaceIn
  <2> QED BY <1>2, <2>1, NothingIs
<1> QED BY <1>1, <1>2

\* What a process sees stays, where its tree is the same.
LEMMA SpaceStays ==
  ASSUME NEW p, p \in DOMAIN tt <=> p \in DOMAIN tt',
         p \in DOMAIN tt => tt'[p] = tt[p] /\ Same(memory.tables, memory'.tables, tt[p])
  PROVE  SpaceOf(p)' = SpaceOf(p)
<1>1. p \in DOMAIN tt => GetAllPages(memory'.tables, tt'[p]) = GetAllPages(memory.tables, tt[p])
  BY AddressAssumption DEF Same, GetAllPages
<1> QED BY <1>1, SpaceIs DEF SpaceIn

\* Each of the steps is one of PrivateMemory's.
LEMMA NextPrivate ==
  ASSUME Lives, [Next]_vars
  PROVE  [Private!Next]_[p \in Pid |-> SpaceOf(p)]
<1>1. PICK R : LiveNow(R)
  BY DEF Lives
<1>2. \A p \in DOMAIN tt : p \in Pid /\ tt[p] \in R \ {ttkernel}
  BY <1>1 DEF LiveNow, Live
<1>3. ASSUME NEW p \in DOMAIN tt, Fork(p) PROVE Private!Next
  <2>1. PICK new, stack :
          /\ Made(memory, R, Mapped(p), memory', new, stack)
          /\ tt' = With(tt, pid_counter, new)
          /\ pid_counter \in Pid \ DOMAIN tt
    BY <1>1, <1>3, ForkStep
  <2>2. PICK q \in Pid : q = pid_counter
    BY <2>1
  <2>3. /\ DOMAIN tt' = DOMAIN tt \cup {q} /\ tt'[q] = new
        /\ \A s \in DOMAIN tt : tt'[s] = tt[s]
    BY <2>1, <2>2 DEF With
  <2>4. \A s \in R \ {ttkernel} : Same(memory.tables, memory'.tables, s)
    BY <2>1 DEF Made
  <2>5. \A s \in Pid \ {q} : SpaceOf(s)' = SpaceOf(s)
    BY <1>2, <2>3, <2>4, SpaceStays
  <2>6. PICK map : /\ map = SpaceOf(q)' /\ Private!Becomes(q, map)
                   /\ map \in {[s \in Pid |-> SpaceOf(s)]'[q]}
    BY <2>5, BecomesIs
  <2>7. map = MapOf(GetAllPages(memory'.tables, new))
    BY <2>3, <2>6, SpaceIs DEF SpaceIn
  <2>8. DOMAIN map = Mapped(p) /\ NewMap(map, memory.singles)
    BY <2>1, <2>7, MadeNewMap
  <2>9. SpaceOf(q) = Private!Nothing /\ SpaceOf(p) # Private!Nothing
    BY <1>1, <2>1, <2>2, LiveHasMemory
  <2>10. DOMAIN SpaceOf(p) = Mapped(p)
    BY SpaceIs DEF SpaceIn, MapOf, Mapped
  <2>11. Private!New(map)
    BY <1>1, <2>8, NewMapIsNew
  <2>12. Private!Fork(p, q, map)
    BY <1>2, <2>2, <2>8, <2>9, <2>10, <2>11 DEF Private!Fork
  <2> QED BY <1>2, <2>6, <2>9, <2>12 DEF Private!Next
<1>4. ASSUME NEW p \in DOMAIN tt, NEW size \in BinarySize, Exec(p, size) PROVE Private!Next
  <2>1. PICK new, stack :
          /\ Made(memory, R, Program(size), memory', new, stack)
          /\ tt' = [tt EXCEPT ![p] = new] /\ ksp' = [ksp EXCEPT ![p] = stack]
          /\ LiveNow(R \cup {new})'
    BY <1>1, <1>4, ExecStep
  <2>2. DOMAIN tt' = DOMAIN tt /\ tt'[p] = new /\ \A s \in DOMAIN tt \ {p} : tt'[s] = tt[s]
    BY <2>1
  <2>3. \A s \in R \ {ttkernel} : Same(memory.tables, memory'.tables, s)
    BY <2>1 DEF Made
  <2>4. \A s \in Pid \ {p} : SpaceOf(s)' = SpaceOf(s)
    BY <1>2, <2>2, <2>3, SpaceStays
  <2>5. PICK map : /\ map = SpaceOf(p)' /\ Private!Becomes(p, map)
                   /\ map \in {[s \in Pid |-> SpaceOf(s)]'[p]}
    BY <1>2, <2>4, BecomesIs
  <2>6. map = MapOf(GetAllPages(memory'.tables, new))
    BY <2>2, <2>5, SpaceIs DEF SpaceIn
  <2>7. DOMAIN map = Program(size) /\ NewMap(map, memory.singles)
    BY <2>1, <2>6, MadeNewMap
  <2>8. SpaceOf(p) # Private!Nothing
    BY <1>1, LiveHasMemory
  <2>9. Private!New(map)
    BY <1>1, <2>7, NewMapIsNew
  <2>10. Private!Exec(p, map)
    BY <2>7, <2>9 DEF Private!Exec
  <2> QED BY <1>2, <2>5, <2>8, <2>10 DEF Private!Next
<1>5. ASSUME NEW p \in DOMAIN tt, Exit(p) PROVE Private!Next
  <2>1. /\ tt' = [q \in DOMAIN tt \ {p} |-> tt[q]] /\ p # 0
        /\ \A s \in R \ {tt[p]} : Same(memory.tables, memory'.tables, s)
    BY <1>1, <1>5, ExitStep
  <2>2. DOMAIN tt' = DOMAIN tt \ {p} /\ \A q \in DOMAIN tt \ {p} : tt'[q] = tt[q]
    BY <2>1
  <2>3. \A q \in DOMAIN tt \ {p} : tt[q] # tt[p]
    BY <1>1 DEF LiveNow, Live, IsInjective
  <2>4. \A s \in Pid \ {p} : SpaceOf(s)' = SpaceOf(s)
    BY <1>2, <2>1, <2>2, <2>3, SpaceStays
  <2>5. PICK map : /\ map = SpaceOf(p)' /\ Private!Becomes(p, map)
                   /\ map \in {[s \in Pid |-> SpaceOf(s)]'[p]}
    BY <1>2, <2>4, BecomesIs
  <2>6. map = Private!Nothing
    <3>1. p \notin DOMAIN tt'
      BY <2>2
    <3> QED BY <2>5, <3>1, SpaceIs, NothingIs DEF SpaceIn
  <2>7. SpaceOf(p) # Private!Nothing
    BY <1>1, LiveHasMemory
  <2>8. Private!Exit(p, map)
    BY <2>1, <2>6 DEF Private!Exit
  <2> QED BY <1>2, <2>5, <2>7, <2>8 DEF Private!Next
<1>6. ASSUME NEW p \in DOMAIN tt, Grown(p) PROVE Private!Next
  <2>1. PICK va \in Address \ Mapped(p) :
          memory' = MapNewPage(memory, tt[p], va) /\ UNCHANGED <<tt, ksp, pid_counter>>
    BY <1>6 DEF Grown
  <2>2. /\ \A s \in R \ {ttkernel, tt[p]} : Same(memory.tables, memory'.tables, s)
        /\ \E page \in (Page \ memory.singles) \cup {0} :
             GetAllPages(memory'.tables, tt[p])
               = GetAllPages(memory.tables, tt[p]) \cup {<<va, page>>}
    BY <1>1, <2>1, GrowStep
  <2>3. PICK page \in (Page \ memory.singles) \cup {0} :
          GetAllPages(memory'.tables, tt[p]) = GetAllPages(memory.tables, tt[p]) \cup {<<va, page>>}
    BY <2>2
  <2>4. \A q \in DOMAIN tt \ {p} : tt[q] # tt[p]
    BY <1>1 DEF LiveNow, Live, IsInjective
  <2>5. tt' = tt
    BY <2>1
  <2>6. \A s \in Pid \ {p} : SpaceOf(s)' = SpaceOf(s)
    BY <1>2, <2>2, <2>4, <2>5, SpaceStays
  <2>7. PICK map : /\ map = SpaceOf(p)' /\ Private!Becomes(p, map)
                   /\ map \in {[s \in Pid |-> SpaceOf(s)]'[p]}
    BY <1>2, <2>6, BecomesIs
  <2>8. PICK old, new, b : /\ old = GetAllPages(memory.tables, tt[p])
                           /\ new = GetAllPages(memory'.tables, tt[p])
                           /\ b = <<va, page>>
    OBVIOUS
  <2>9. new = old \cup {b} /\ b[1] = va /\ b[2] = page
    BY <2>3, <2>8
  <2>10. /\ SpaceOf(p) = MapOf(old) /\ map = MapOf(new)
    BY <2>5, <2>7, <2>8, SpaceIs DEF SpaceIn
  <2>11. /\ \A a : a \in DOMAIN SpaceOf(p) <=> \E n \in old : n[1] = a
         /\ \A n \in old : SpaceOf(p)[n[1]] = n[2]
    BY <2>8, <2>10, MapOfTree
  <2>12. /\ \A a : a \in DOMAIN map <=> \E n \in new : n[1] = a
         /\ \A n \in new : map[n[1]] = n[2]
    BY <2>8, <2>10, MapOfTree
  <2>13. va \notin DOMAIN SpaceOf(p)
    BY <2>1, <2>8, <2>11 DEF Mapped
  <2>14. DOMAIN map = DOMAIN SpaceOf(p) \cup {va}
    <3>1. \A a : a \in DOMAIN map <=> a \in DOMAIN SpaceOf(p) \cup {va}
      BY <2>9, <2>11, <2>12
    <3> QED BY <3>1
  <2>15. map[va] = page
    BY <2>9, <2>12
  <2>16. ASSUME NEW a \in DOMAIN SpaceOf(p) PROVE map[a] = SpaceOf(p)[a]
    <3>1. PICK n \in old : n[1] = a
      BY <2>11
    <3>2. n \in new
      BY <2>9
    <3> QED BY <2>11, <2>12, <3>1, <3>2
  <2>17. map[va] \in (Page \ Private!InUse) \cup {0}
    BY <1>1, <2>15, InUseHanded
  <2>18. [s \in Pid |-> SpaceOf(s)][p] = SpaceOf(p)
    BY <1>2
  <2>19. Private!Grow(p, map)
    BY <2>13, <2>14, <2>16, <2>17, <2>18 DEF Private!Grow
  <2>20. SpaceOf(p) # Private!Nothing
    BY <1>1, LiveHasMemory
  <2> QED BY <1>2, <2>7, <2>19, <2>20 DEF Private!Next
<1>7. ASSUME UNCHANGED vars PROVE UNCHANGED [p \in Pid |-> SpaceOf(p)]
  <2>1. \A p \in Pid : SpaceOf(p)' = SpaceOf(p)
    BY <1>7, SpaceIs DEF vars
  <2> QED BY <2>1
<1> QED BY <1>3, <1>4, <1>5, <1>6, <1>7, StepCases

\* The first process has a program in pages of its own.
LEMMA InitPrivate ==
  ASSUME Init
  PROVE  Private!Init
<1>1. PICK size \in BinarySize :
        /\ Made(Booted, {ttkernel}, Program(size), memory, tt[0], ksp[0])
        /\ tt = [p \in {0} |-> tt[0]]
  BY InitMade
<1>2. 0 \in Pid /\ DOMAIN tt = {0}
  BY <1>1, AddressAssumption
<1>3. SpaceOf(0) = MapOf(GetAllPages(memory.tables, tt[0]))
  BY <1>2, SpaceIs DEF SpaceIn
<1>4. DOMAIN SpaceOf(0) = Program(size) /\ NewMap(SpaceOf(0), Booted.singles)
  BY <1>1, <1>3, MadeNewMap
<1>5. \A p \in Pid \ {0} : SpaceOf(p) = Private!Nothing
  BY <1>2, SpaceIs, NothingIs DEF SpaceIn
<1>6. [p \in Pid |-> SpaceOf(p)][0] = SpaceOf(0)
  BY <1>2
<1>7. Private!Pages(SpaceOf(0)) \subseteq Page
  BY <1>4 DEF NewMap, Private!Pages
<1> QED BY <1>4, <1>5, <1>6, <1>7 DEF Private!Init, NewMap

(***************************************************************************)
(* What boot, fork, exec, exit, allocate_page and the data abort that      *)
(* grows a stack do to tables and free list are steps of PrivateMemory:    *)
(* the addresses mapped in the parent are mapped in the child, at pages    *)
(* nobody else sees, an exec'd program is at such pages too, and what one  *)
(* process does never changes what another one sees.                       *)
(***************************************************************************)
THEOREM MemoryIsPrivate == Spec => ImplementsPrivateMemory
<1>1. Init => Private!Init
  BY InitPrivate
<1>2. Lives /\ [Next]_vars => [Private!Next]_[p \in Pid |-> SpaceOf(p)]
  BY NextPrivate
<1> QED BY <1>1, <1>2, AlwaysLives, PTL DEF Spec, ImplementsPrivateMemory, Private!Spec
====
