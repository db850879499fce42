---------------------------- MODULE WwfsProofs ----------------------------
(***************************************************************************)
(* The file system keeps the blocks of its files apart, for every size of  *)
(* the disk, of its blocks and of the table of inodes: BlocksApart is an   *)
(* invariant, and OnlyIndirectLeaks holds of every step.                   *)
(*                                                                         *)
(* An operation changes one inode and works on a disk of its own, which it *)
(* then stores.  So the proof has three parts: what the loops that add,    *)
(* remove and write blocks do to such a disk, given the blocks that the    *)
(* others have (rest); that the invariant allows to see the state that way *)
(* for each inode; and that storing the disk restores the invariant.       *)
(***************************************************************************)
EXTENDS Wwfs, ListLemmas

-----------------------------------------------------------------------------
(* Arithmetic                                                              *)

\* A quotient, and its remainder.
LEMMA Quotient ==
  ASSUME NEW b \in Nat \ {0}, NEW x \in Nat
  PROVE  x \div b \in Nat /\ b * (x \div b) <= x /\ x < b * (x \div b) + b
OBVIOUS

\* Multiples of b that are less than b apart are in order.
LEMMA QuotientOrder ==
  ASSUME NEW b \in Nat \ {0}, NEW p \in Nat, NEW q \in Nat, b * p < b * q + b
  PROVE  p <= q
<1> SUFFICES ASSUME p > q PROVE FALSE
  OBVIOUS
<1>1. PICK d \in Nat : p = q + 1 + d
  <2>1. p - q - 1 \in Nat /\ p = q + 1 + (p - q - 1)
    OBVIOUS
  <2> QED BY <2>1
<1>2. b * p = b * q + b + b * d
  BY <1>1
<1>3. b * d \in Nat
  OBVIOUS
<1> QED BY <1>2, <1>3

\* An inode has no block without a cell, and every cell of it is in one of its blocks.
LEMMA BlocksOf ==
  /\ Blocks(0) = 0
  /\ \A s \in Nat : Blocks(s) \in Nat
  /\ \A s, x \in Nat : x < s => x \div BlockSize \in 0 .. Blocks(s) - 1
<1>1. BlockSize \in Nat \ {0}
  BY WwfsAssumption
<1>2. ASSUME NEW s \in Nat PROVE Blocks(s) \in Nat
  <2>1. s + BlockSize - 1 \in Nat
    BY <1>1
  <2> QED BY <1>1, <2>1, Quotient DEF Blocks
<1>3. Blocks(0) = 0
  <2>1. BlockSize - 1 \in Nat /\ 0 + BlockSize - 1 = BlockSize - 1
    BY <1>1
  <2>2. PICK q \in Nat : q = (BlockSize - 1) \div BlockSize /\ BlockSize * q <= BlockSize - 1
    BY <1>1, <2>1, Quotient
  <2>3. q <= 0
    BY <1>1, <2>2, QuotientOrder
  <2> QED BY <2>1, <2>2, <2>3 DEF Blocks
<1>4. ASSUME NEW s \in Nat, NEW x \in Nat, x < s PROVE x \div BlockSize \in 0 .. Blocks(s) - 1
  <2>1. PICK n \in Nat : n = s + BlockSize - 1
    BY <1>1
  <2>2. PICK p \in Nat : p = x \div BlockSize /\ BlockSize * p <= x
    BY <1>1, Quotient
  <2>3. PICK q \in Nat : q = n \div BlockSize /\ n < BlockSize * q + BlockSize
    BY <1>1, Quotient
  <2>4. BlockSize * (p + 1) = BlockSize * p + BlockSize
    BY <1>1
  <2>5. BlockSize * (p + 1) < BlockSize * q + BlockSize
    <3>1. BlockSize * p \in Nat /\ BlockSize * q \in Nat
      BY <1>1
    <3> QED BY <1>1, <1>4, <2>1, <2>2, <2>3, <2>4, <3>1
  <2>6. p + 1 <= q
    BY <1>1, <2>5, QuotientOrder, p + 1 \in Nat
  <2>7. Blocks(s) = q
    BY <2>1, <2>3 DEF Blocks
  <2> QED BY <2>2, <2>6, <2>7
<1> QED BY <1>2, <1>3, <1>4

-----------------------------------------------------------------------------
(* A disk, as the operations on one inode see it                           *)

\* What a cell of a block holds: a part of a text, or a number.
Cells == Cell \cup Nat

\* What Disk makes of the state.
Disks == [bitmap : SUBSET Block, data : [Block -> [0 .. BlockSize - 1 -> Cells]], inode : Inode]

\* The place of a block of the inode.
At(d, k) == BlockId(d.data, d.inode, k)

\* The n blocks that the inode has, and block_l1 if it has that.
Mine(d, n, indirect) ==
  {At(d, k) : k \in 0 .. n - 1} \cup (IF indirect THEN {d.inode.block_l1} ELSE {})

(***************************************************************************)
(* The blocks of the inode are apart from each other, and from the blocks  *)
(* in rest; the bitmap has no others.                                      *)
(***************************************************************************)
SoundDisk(d, n, indirect, rest) ==
  /\ d \in Disks /\ indirect \in BOOLEAN
  /\ n \in 0 .. MaxBlocks /\ (n > Direct => indirect)
  /\ \A k \in 0 .. n - 1 : At(d, k) \in Block \ rest
  /\ \A k, l \in 0 .. n - 1 : At(d, k) = At(d, l) => k = l
  /\ indirect => /\ d.inode.block_l1 \in Block \ rest
                 /\ \A k \in 0 .. n - 1 : At(d, k) # d.inode.block_l1
  /\ d.bitmap = rest \cup Mine(d, n, indirect)

\* The blocks in rest keep their contents, and the inode its size and type.
Kept(d, e, rest) ==
  /\ \A b \in rest : e.data[b] = d.data[b]
  /\ e.inode.size = d.inode.size /\ e.inode.type = d.inode.type

\* Whether an inode with n blocks has block_l1.
Wide(n) == IF n >= Direct THEN TRUE ELSE FALSE

\* The number of blocks that can still be allocated.
Left(d) == Cardinality(Block \ d.bitmap)

\* The first block, or what allocate_block yields when there is none.
First(S) == CHOOSE b \in S : \A c \in S : b <= c

\* allocate_block finds a free block when there is one.
LEMMA FirstFree ==
  /\ \A d : FreeBlock(d) = First(Block \ d.bitmap)
  /\ \A S \in SUBSET Block : S # {} => First(S) \in S
<1>1. \A d : FreeBlock(d) = First(Block \ d.bitmap)
  BY DEF FreeBlock, First
<1>2. ASSUME NEW S \in SUBSET Block, S # {} PROVE First(S) \in S
  <2>1. Block \subseteq Nat
    BY WwfsAssumption DEF Block
  <2>2. Min(S) \in S /\ \A y \in S : Min(S) <= y
    BY <1>2, <2>1, MinProperties
  <2> QED BY <2>2 DEF First
<1> QED BY <1>1, <1>2

\* A block more is allocated.
LEMMA Allocate ==
  \A d \in Disks : Left(d) > 0 =>
    /\ FreeBlock(d) \in Block /\ FreeBlock(d) \notin d.bitmap
    /\ \A e : e.bitmap = d.bitmap \cup {FreeBlock(d)} => Left(e) = Left(d) - 1
<1> TAKE d \in Disks
<1> HAVE Left(d) > 0
<1>1. IsFiniteSet(Block)
  BY WwfsAssumption, FS_Interval DEF Block
<1>2. Block \ d.bitmap # {}
  BY FS_EmptySet DEF Left
<1>3. FreeBlock(d) \in Block \ d.bitmap
  BY <1>2, FirstFree
<1>4. ASSUME NEW e, e.bitmap = d.bitmap \cup {FreeBlock(d)} PROVE Left(e) = Left(d) - 1
  <2>1. Block \ e.bitmap = (Block \ d.bitmap) \ {FreeBlock(d)}
    BY <1>4
  <2>2. PICK S : S = Block \ d.bitmap
    OBVIOUS
  <2>3. IsFiniteSet(S)
    BY <1>1, <2>2, FS_Subset
  <2>4. PICK b : b = FreeBlock(d) /\ b \in S
    BY <1>3, <2>2
  <2>5. Cardinality(S \ {b}) = Cardinality(S) - 1
    BY <2>3, <2>4, FS_RemoveElement
  <2> QED BY <2>1, <2>2, <2>4, <2>5 DEF Left
<1> QED BY <1>3, <1>4

\* What the inode has when a block is added behind its blocks.
LEMMA OneMore ==
  ASSUME NEW d, NEW e, NEW n, NEW indirect, NEW rest, NEW b,
         SoundDisk(d, n, indirect, rest), n < MaxBlocks, n >= Direct => indirect,
         b \in Block, b \notin d.bitmap, e \in Disks,
         \A k \in 0 .. n - 1 : At(e, k) = At(d, k),
         At(e, n) = b, e.inode.block_l1 = d.inode.block_l1,
         e.bitmap = d.bitmap \cup {b}
  PROVE  SoundDisk(e, n + 1, indirect, rest)
<1>0. MaxBlocks \in Nat /\ Direct \in Nat
  BY WwfsAssumption DEF MaxBlocks
<1>1. n \in Nat /\ n + 1 \in 0 .. MaxBlocks /\ (n + 1 > Direct => indirect) /\ indirect \in BOOLEAN
  BY <1>0 DEF SoundDisk
<1>2. \A k \in 0 .. (n + 1) - 1 : k = n \/ k \in 0 .. n - 1
  BY <1>1
<1>3. /\ \A k \in 0 .. n - 1 : At(d, k) \in d.bitmap
      /\ indirect => d.inode.block_l1 \in d.bitmap
      /\ rest \subseteq d.bitmap
  BY DEF SoundDisk, Mine
<1>4. \A k \in 0 .. (n + 1) - 1 : At(e, k) \in Block \ rest
  BY <1>2, <1>3 DEF SoundDisk
<1>5. \A k, l \in 0 .. (n + 1) - 1 : At(e, k) = At(e, l) => k = l
  BY <1>2, <1>3 DEF SoundDisk
<1>6. indirect => /\ e.inode.block_l1 \in Block \ rest
                  /\ \A k \in 0 .. (n + 1) - 1 : At(e, k) # e.inode.block_l1
  BY <1>2, <1>3 DEF SoundDisk
<1>7. {At(e, k) : k \in 0 .. (n + 1) - 1} = {At(d, k) : k \in 0 .. n - 1} \cup {b}
  <2>1. n \in 0 .. (n + 1) - 1 /\ \A k \in 0 .. n - 1 : k \in 0 .. (n + 1) - 1
    BY <1>1
  <2> QED BY <1>2, <2>1
<1>8. e.bitmap = rest \cup Mine(e, n + 1, indirect)
  BY <1>7 DEF SoundDisk, Mine
<1> QED BY <1>1, <1>4, <1>5, <1>6, <1>8 DEF SoundDisk

\* set_blockid_of_inode with a block that is free.
LEMMA AddBlockSound ==
  ASSUME NEW d, NEW n, NEW indirect, NEW rest,
         SoundDisk(d, n, indirect, rest), n < MaxBlocks, n >= Direct => indirect, Left(d) > 0
  PROVE  /\ SoundDisk(AddBlock(d, n), n + 1, indirect, rest)
         /\ Kept(d, AddBlock(d, n), rest)
         /\ Left(AddBlock(d, n)) = Left(d) - 1
<1>0. MaxBlocks \in Nat /\ Direct \in Nat \ {0} /\ BlockSize \in Nat \ {0} /\ MaxBlocks = Direct + BlockSize
  BY WwfsAssumption DEF MaxBlocks
<1>1. d \in Disks /\ n \in Nat
  BY <1>0 DEF SoundDisk
<1>2. PICK b \in Block : b = FreeBlock(d) /\ b \notin d.bitmap
  BY <1>1, Allocate
<1>3. PICK e : e = AddBlock(d, n)
  OBVIOUS
<1>4. e.bitmap = d.bitmap \cup {b} /\ Left(e) = Left(d) - 1
  <2>1. e.bitmap = d.bitmap \cup {b}
    BY <1>1, <1>2, <1>3 DEF AddBlock, Disks
  <2> QED BY <1>1, <1>2, <2>1, Allocate
<1>01. b \in Nat
  BY WwfsAssumption DEF Block
<1>5. CASE n < Direct
  <2>1. /\ e = [bitmap |-> d.bitmap \cup {b}, data |-> d.data, inode |-> e.inode]
        /\ e.inode = [d.inode EXCEPT !.blocks_l0[n] = b]
    BY <1>1, <1>2, <1>3, <1>5 DEF AddBlock, Disks
  <2>2. /\ e.inode = [type |-> d.inode.type, size |-> d.inode.size,
                      blocks_l0 |-> [d.inode.blocks_l0 EXCEPT ![n] = b],
                      block_l1 |-> d.inode.block_l1]
        /\ e.inode \in Inode
    <3>1. d.inode \in Inode
      BY <1>1 DEF Disks
    <3>2. e.inode = [type |-> d.inode.type, size |-> d.inode.size,
                     blocks_l0 |-> [d.inode.blocks_l0 EXCEPT ![n] = b],
                     block_l1 |-> d.inode.block_l1]
      BY <2>1, <3>1 DEF Inode
    <3>3. [d.inode.blocks_l0 EXCEPT ![n] = b] \in [0 .. Direct - 1 -> Nat]
      BY <3>1, <1>01 DEF Inode
    <3> QED BY <3>1, <3>2, <3>3 DEF Inode
  <2>3. e \in Disks
    BY <1>1, <2>1, <2>2 DEF Disks
  <2>4. n \in DOMAIN d.inode.blocks_l0
    BY <1>0, <1>1, <1>5 DEF Disks, Inode
  <2>5. At(e, n) = b /\ \A k \in 0 .. n - 1 : At(e, k) = At(d, k)
    BY <1>0, <1>1, <1>5, <2>1, <2>2, <2>4 DEF At, BlockId
  <2>6. SoundDisk(e, n + 1, indirect, rest)
    BY <1>2, <1>4, <2>2, <2>3, <2>5, OneMore
  <2>7. Kept(d, e, rest)
    BY <2>1, <2>2 DEF Kept
  <2> QED BY <1>3, <1>4, <2>6, <2>7
<1>6. CASE n >= Direct
  <2>1. PICK l \in Block : l = d.inode.block_l1 /\ l \notin rest
    BY <1>6 DEF SoundDisk
  <2>2. PICK r \in 0 .. BlockSize - 1 : r = n - Direct
    BY <1>0, <1>1, <1>6
  <2>3. e = [bitmap |-> d.bitmap \cup {b}, data |-> [d.data EXCEPT ![l][r] = b], inode |-> d.inode]
    <3>1. ~ (n < Direct)
      BY <1>0, <1>1, <1>6
    <3>2. AddBlock(d, n) = [[d EXCEPT !.bitmap = @ \cup {b}] EXCEPT !.data[l][r] = b]
      BY <1>2, <2>1, <2>2, <3>1 DEF AddBlock
    <3> QED BY <1>1, <1>3, <3>2 DEF Disks
  <2>4. e.data \in [Block -> [0 .. BlockSize - 1 -> Cells]]
    <3>1. d.data \in [Block -> [0 .. BlockSize - 1 -> Cells]] /\ b \in Cells
      BY <1>1, <1>01 DEF Disks, Cells
    <3> QED BY <2>3, <3>1
  <2>5. e \in Disks
    <3>1. d.bitmap \cup {b} \in SUBSET Block /\ d.inode \in Inode
      BY <1>1 DEF Disks
    <3> QED BY <2>3, <2>4, <3>1 DEF Disks
  <2>6. d.data \in [Block -> [0 .. BlockSize - 1 -> Cells]]
    BY <1>1 DEF Disks
  <2>7. /\ e.data[l][r] = b
        /\ \A i \in 0 .. BlockSize - 1 : i # r => e.data[l][i] = d.data[l][i]
        /\ \A c \in Block : c # l => e.data[c] = d.data[c]
    BY <2>3, <2>6
  <2>8. At(e, n) = b
    <3>1. ~ (n < Direct) /\ e.inode.block_l1 = l /\ n - Direct = r
      BY <1>0, <1>1, <1>6, <2>1, <2>2, <2>3
    <3>2. At(e, n) = e.data[e.inode.block_l1][n - Direct]
      BY <3>1 DEF At, BlockId
    <3> QED BY <2>7, <3>1, <3>2
  <2>9. ASSUME NEW k \in 0 .. n - 1 PROVE At(e, k) = At(d, k)
    <3>1. CASE k < Direct
      BY <2>3, <3>1 DEF At, BlockId
    <3>2. CASE k >= Direct
      <4>1. k - Direct \in 0 .. BlockSize - 1 /\ k - Direct # r
        BY <1>0, <1>1, <2>2, <3>2
      <4> QED BY <1>0, <2>1, <2>3, <2>7, <3>2, <4>1 DEF At, BlockId
    <3> QED BY <1>0, <3>1, <3>2
  <2>10. SoundDisk(e, n + 1, indirect, rest)
    BY <1>2, <1>4, <2>3, <2>5, <2>8, <2>9, OneMore
  <2>11. Kept(d, e, rest)
    <3>1. rest \subseteq Block
      BY <1>1 DEF SoundDisk, Disks
    <3> QED BY <2>1, <2>3, <2>7, <3>1 DEF Kept
  <2> QED BY <1>3, <1>4, <2>10, <2>11
<1> QED BY <1>0, <1>1, <1>5, <1>6

\* The block that will hold the numbers of others.
LEMMA AddIndirectSound ==
  ASSUME NEW d, NEW n, NEW rest, SoundDisk(d, n, FALSE, rest), Left(d) > 0
  PROVE  /\ SoundDisk(AddIndirect(d), n, TRUE, rest)
         /\ Kept(d, AddIndirect(d), rest)
         /\ Left(AddIndirect(d)) = Left(d) - 1
<1>0. MaxBlocks \in Nat /\ Direct \in Nat \ {0}
  BY WwfsAssumption DEF MaxBlocks
<1>1. d \in Disks /\ n \in Nat /\ n <= Direct /\ n \in 0 .. MaxBlocks
  BY <1>0 DEF SoundDisk
<1>2. PICK b \in Block : b = FreeBlock(d) /\ b \notin d.bitmap
  BY <1>1, Allocate
<1>01. b \in Nat
  BY WwfsAssumption DEF Block
<1>3. PICK e : e = AddIndirect(d)
  OBVIOUS
<1>4. e = [bitmap |-> d.bitmap \cup {b}, data |-> d.data,
           inode |-> [type |-> d.inode.type, size |-> d.inode.size,
                      blocks_l0 |-> d.inode.blocks_l0, block_l1 |-> b]]
  BY <1>1, <1>2, <1>3 DEF AddIndirect, Disks, Inode
<1>5. e \in Disks
  BY <1>1, <1>4, <1>01 DEF Disks, Inode
<1>6. Left(e) = Left(d) - 1
  BY <1>1, <1>2, <1>4, Allocate
<1>7. \A k \in 0 .. n - 1 : At(e, k) = At(d, k)
  BY <1>0, <1>1, <1>4 DEF At, BlockId
<1>8. rest \subseteq d.bitmap /\ \A k \in 0 .. n - 1 : At(d, k) \in d.bitmap
  BY DEF SoundDisk, Mine
<1>9. e.bitmap = rest \cup Mine(e, n, TRUE)
  <2>1. {At(e, k) : k \in 0 .. n - 1} = {At(d, k) : k \in 0 .. n - 1}
    BY <1>7
  <2> QED BY <1>4, <2>1 DEF SoundDisk, Mine
<1>10. SoundDisk(e, n, TRUE, rest)
  <2>1. \A k \in 0 .. n - 1 : At(e, k) \in Block \ rest
    BY <1>7 DEF SoundDisk
  <2>2. \A k, l \in 0 .. n - 1 : At(e, k) = At(e, l) => k = l
    BY <1>7 DEF SoundDisk
  <2>3. /\ e.inode.block_l1 \in Block \ rest
        /\ \A k \in 0 .. n - 1 : At(e, k) # e.inode.block_l1
    BY <1>2, <1>4, <1>7, <1>8
  <2> QED BY <1>1, <1>5, <1>9, <2>1, <2>2, <2>3 DEF SoundDisk
<1>11. Kept(d, e, rest)
  BY <1>4 DEF Kept
<1> QED BY <1>3, <1>6, <1>10, <1>11

-----------------------------------------------------------------------------
(* Growing and shrinking                                                   *)

\* What FreeBlock yields when no block is free, and the disks that may lead to.
Nowhere == First({})

Anywhere ==
  [bitmap : SUBSET (Block \cup {Nowhere}),
   data : [Block -> [0 .. BlockSize - 1 -> Cells \cup {Nowhere}]],
   inode : [type : {"DIRECTORY", "FILE", "FIFO"}, size : Nat,
            blocks_l0 : [0 .. Direct - 1 -> Nat \cup {Nowhere}],
            block_l1 : Nat \cup {Nowhere}]]

\* Those include the disks of the system, as long as none was missing.
LEMMA DisksAnywhere == Disks \subseteq Anywhere
BY DEF Disks, Anywhere, Inode

\* allocate_block yields a block or Nowhere.
LEMMA FreeAnywhere == \A d \in Anywhere : FreeBlock(d) \in Block \cup {Nowhere}
<1> TAKE d \in Anywhere
<1>1. PICK S : S = Block \ d.bitmap
  OBVIOUS
<1>2. FreeBlock(d) = First(S)
  BY <1>1, FirstFree
<1>3. CASE S = {}
  BY <1>2, <1>3 DEF Nowhere
<1>4. CASE S # {}
  BY <1>1, <1>2, <1>4, FirstFree
<1> QED BY <1>3, <1>4

\* The steps of Grow stay among these disks, whether blocks are left or not.
LEMMA AddAnywhere ==
  \A d \in Anywhere, n \in Nat : AddBlock(d, n) \in Anywhere /\ AddIndirect(d) \in Anywhere
<1> TAKE d \in Anywhere, n \in Nat
<1>1. PICK b \in Block \cup {Nowhere} : b = FreeBlock(d)
  BY FreeAnywhere
<1>2. b \in Nat \cup {Nowhere} /\ b \in Cells \cup {Nowhere}
  BY WwfsAssumption DEF Block, Cells
<1> DEFINE Data == [Block -> [0 .. BlockSize - 1 -> Cells \cup {Nowhere}]]
           Node == [type : {"DIRECTORY", "FILE", "FIFO"}, size : Nat,
                    blocks_l0 : [0 .. Direct - 1 -> Nat \cup {Nowhere}],
                    block_l1 : Nat \cup {Nowhere}]
<1>3. PICK m : m = d.bitmap \cup {b}
  OBVIOUS
<1>4. /\ d = [bitmap |-> d.bitmap, data |-> d.data, inode |-> d.inode]
      /\ m \in SUBSET (Block \cup {Nowhere}) /\ d.data \in Data /\ d.inode \in Node
  BY <1>3 DEF Anywhere
<1>5. \A x \in Data, y \in Node : [bitmap |-> m, data |-> x, inode |-> y] \in Anywhere
  BY <1>4 DEF Anywhere
<1>6. AddIndirect(d) = [bitmap |-> m, data |-> d.data, inode |-> [d.inode EXCEPT !.block_l1 = b]]
  <2>1. AddIndirect(d) = [d EXCEPT !.bitmap = @ \cup {b}, !.inode.block_l1 = b]
    BY <1>1 DEF AddIndirect
  <2>2. d = [bitmap |-> d.bitmap, data |-> d.data, inode |-> d.inode]
    BY <1>4
  <2> HIDE DEF Data, Node
  <2> QED BY <1>3, <2>1, <2>2
<1>7. [d.inode EXCEPT !.block_l1 = b] \in Node
  BY <1>2, <1>4
<1>8. CASE n < Direct
  <2>1. AddBlock(d, n) = [bitmap |-> m, data |-> d.data,
                          inode |-> [d.inode EXCEPT !.blocks_l0[n] = b]]
    BY <1>1, <1>3, <1>4, <1>8 DEF AddBlock
  <2>2. [d.inode EXCEPT !.blocks_l0[n] = b] \in Node
    <3>1. [d.inode.blocks_l0 EXCEPT ![n] = b] \in [0 .. Direct - 1 -> Nat \cup {Nowhere}]
      BY <1>2, <1>4
    <3>2. [d.inode EXCEPT !.blocks_l0[n] = b]
            = [d.inode EXCEPT !.blocks_l0 = [d.inode.blocks_l0 EXCEPT ![n] = b]]
      BY <1>4
    <3> QED BY <1>4, <3>1, <3>2
  <2> HIDE DEF Data, Node
  <2> QED BY <1>4, <1>5, <1>6, <1>7, <2>1, <2>2
<1>9. CASE ~ (n < Direct)
  <2>1. PICK l, r : l = d.inode.block_l1 /\ r = n - Direct
    OBVIOUS
  <2>2. AddBlock(d, n) = [bitmap |-> m, data |-> [d.data EXCEPT ![l][r] = b], inode |-> d.inode]
    BY <1>1, <1>3, <1>4, <1>9, <2>1 DEF AddBlock
  <2>3. [d.data EXCEPT ![l][r] = b] \in Data
    BY <1>2, <1>4
  <2> HIDE DEF Data, Node
  <2> QED BY <1>4, <1>5, <1>6, <1>7, <2>2, <2>3
<1> QED BY <1>8, <1>9

\* The disks that Grow goes through.
GrowRun(run, q0, d, old, new) ==
  /\ run \in [0 .. new - old -> Anywhere]
  /\ run[0] = q0
  /\ \A k \in 1 .. new - old : run[k] = AddBlock(run[k - 1], old + k - 1)
  /\ Grow(d, old, new) = run[new - old]

\* The loop that allocates the new blocks.
LEMMA GrowLoop ==
  ASSUME NEW d \in Anywhere, NEW old \in Nat, NEW new \in Nat, old < new,
         NEW q0 \in Anywhere, q0 = IF Crosses(old, new) THEN AddIndirect(d) ELSE d
  PROVE  \E run : GrowRun(run, q0, d, old, new)
<1> DEFINE N == new - old
           step == [p \in Anywhere \X (1 .. N) |-> AddBlock(p[1], old + p[2] - 1)]
           Is(it) == it = [s \in SUBSET (1 .. N) |->
                IF s = {} THEN q0
                ELSE AddBlock(it[s \ {Max(s)}], [k \in 1 .. N |-> old + k - 1][Max(s)])]
<1>1. N \in Nat /\ \A k \in 1 .. N : old + k - 1 \in Nat
  OBVIOUS
<1>2. step \in [Anywhere \X (1 .. N) -> Anywhere]
  BY <1>1, AddAnywhere
<1>3. Grow(d, old, new) = (CHOOSE it : Is(it))[1 .. N]
  BY <1>1 DEF Grow, FoldLeft, MapThenFoldSet
<1> HIDE DEF N
<1>4. PICK g : IsFold(g, N, Anywhere, q0, step)
  <2> HIDE DEF step
  <2> QED BY <1>1, <1>2, FoldExists
<1>5. ASSUME NEW s \in SUBSET (1 .. N), s # {}
      PROVE  /\ Max(s) \in 1 .. N
             /\ step[<<g[s \ {Max(s)}], Max(s)>>] = AddBlock(g[s \ {Max(s)}], old + Max(s) - 1)
  BY <1>1, <1>4, <1>5, MaxUpTo DEF IsFold
<1>6. Is(g)
  BY <1>4, <1>5 DEF IsFold
<1>7. PICK h : Is(h) /\ Grow(d, old, new) = h[1 .. N]
  BY <1>3, <1>6
<1> HIDE DEF step
<1>8. h[{}] = q0
  BY <1>7
<1>9. ASSUME NEW k \in 1 .. N PROVE h[1 .. k] = AddBlock(h[1 .. k - 1], old + k - 1)
  <2>1. k \in Nat \ {0} /\ k \in 1 .. k /\ 1 .. k \in SUBSET (1 .. N)
    BY <1>1
  <2>2. Max(1 .. k) = k /\ (1 .. k) \ {k} = 1 .. k - 1
    BY <2>1, MaxOfInterval
  <2> QED BY <1>7, <2>1, <2>2
<1>10. Unfolds(h, N, Anywhere, q0, step)
  BY <1>8, <1>9 DEF step, Unfolds
<1>11. PICK run : IsRun(run, h, N, Anywhere, q0, step)
  BY <1>1, <1>2, <1>10, FoldRun
<1>12. ASSUME NEW k \in 1 .. N PROVE run[k] = AddBlock(run[k - 1], old + k - 1)
  <2>1. k - 1 \in 0 .. N
    BY <1>1
  <2>2. run[k - 1] \in Anywhere /\ run[k] = step[<<run[k - 1], k>>]
    BY <1>11, <2>1 DEF IsRun
  <2> QED BY <2>2 DEF step
<1> QED BY <1>7, <1>11, <1>12 DEF N, IsRun, GrowRun

\* An inode grows.
LEMMA GrowSound ==
  ASSUME NEW d, NEW old \in Nat, NEW new \in Nat, NEW rest, old < new, new <= MaxBlocks,
         SoundDisk(d, old, Wide(old), rest),
         Left(d) >= new - old + (IF Crosses(old, new) THEN 1 ELSE 0)
  PROVE  /\ SoundDisk(Grow(d, old, new), new, Wide(new), rest)
         /\ Kept(d, Grow(d, old, new), rest)
<1>0. MaxBlocks \in Nat /\ Direct \in Nat \ {0} /\ d \in Disks
  BY WwfsAssumption DEF MaxBlocks, SoundDisk
<1>1. PICK h \in BOOLEAN : h = Wide(new) /\ (new >= Direct => h)
  BY DEF Wide
<1>2. Left(d) \in Nat
  <2>1. IsFiniteSet(Block)
    BY WwfsAssumption, FS_Interval DEF Block
  <2> QED BY <2>1, FS_Subset, FS_CardinalityType DEF Left
<1>3. PICK q0 : q0 = IF Crosses(old, new) THEN AddIndirect(d) ELSE d
  OBVIOUS
<1>4. SoundDisk(q0, old, h, rest) /\ Kept(d, q0, rest) /\ Left(q0) \in Nat /\ Left(q0) >= new - old
  <2>1. CASE Crosses(old, new)
    <3>0. old < Direct /\ new >= Direct /\ Left(d) >= new - old + 1
      BY <2>1 DEF Crosses
    <3>1. Wide(old) = FALSE /\ h = TRUE /\ Left(d) > 0 /\ Left(d) - 1 >= new - old
      BY <1>0, <1>1, <1>2, <3>0 DEF Wide
    <3>2. SoundDisk(d, old, FALSE, rest)
      BY <3>1
    <3>3. SoundDisk(q0, old, TRUE, rest) /\ Kept(d, q0, rest) /\ Left(q0) = Left(d) - 1
      BY <1>3, <2>1, <3>1, <3>2, AddIndirectSound
    <3>4. PICK a \in Nat : a = Left(d)
      BY <1>2
    <3>5. a - 1 \in Nat
      BY <3>1, <3>4
    <3> QED BY <3>1, <3>3, <3>4, <3>5
  <2>2. CASE ~ Crosses(old, new)
    <3>1. ~ (old < Direct) \/ ~ (new >= Direct)
      BY <2>2 DEF Crosses
    <3>2. Wide(old) = Wide(new)
      BY <1>0, <3>1 DEF Wide
    <3>3. Left(d) >= new - old /\ q0 = d
      BY <1>2, <1>3, <2>2
    <3> QED BY <1>1, <1>2, <3>2, <3>3 DEF Kept
  <2> QED BY <2>1, <2>2
<1>5. d \in Anywhere /\ q0 \in Anywhere
  <2>1. q0 \in Disks
    BY <1>4 DEF SoundDisk
  <2> QED BY <1>0, <2>1, DisksAnywhere
<1>6. PICK run : GrowRun(run, q0, d, old, new)
  BY <1>3, <1>5, GrowLoop
<1>7. PICK N \in Nat : N = new - old
  OBVIOUS
<1>8. PICK c \in Nat : c = Left(q0) /\ c >= N
  BY <1>4, <1>7
<1> DEFINE Good == {k \in 0 .. N : /\ SoundDisk(run[k], old + k, h, rest)
                                   /\ Kept(d, run[k], rest)
                                   /\ Left(run[k]) = c - k}
<1>9. 0 \in Good
  BY <1>4, <1>6, <1>8 DEF GrowRun
<1>10. ASSUME NEW k \in 0 .. N - 1, k \in Good PROVE k + 1 \in Good
  <2>1. SoundDisk(run[k], old + k, h, rest) /\ Kept(d, run[k], rest) /\ Left(run[k]) = c - k
    BY <1>10
  <2>2. k + 1 \in 1 .. N /\ k + 1 \in 0 .. N /\ (k + 1) - 1 = k /\ old + (k + 1) - 1 = old + k
    BY <1>7
  <2>3. run[k + 1] = AddBlock(run[k], old + k)
    BY <1>6, <1>7, <2>2 DEF GrowRun
  <2>4. old + k < MaxBlocks /\ (old + k >= Direct => h) /\ c - k > 0
    <3>1. old + k < new /\ new \in Nat /\ k < N
      BY <1>7
    <3>2. old + k < MaxBlocks
      BY <1>0, <3>1
    <3>3. old + k >= Direct => new >= Direct
      BY <1>0, <3>1
    <3>4. c - k > 0
      BY <1>8, <3>1
    <3> QED BY <1>1, <3>2, <3>3, <3>4
  <2>5. PICK n \in Nat : n = old + k
    OBVIOUS
  <2>6. PICK q : q = run[k] /\ SoundDisk(q, n, h, rest) /\ Left(q) > 0
    BY <2>1, <2>4, <2>5
  <2>7. /\ SoundDisk(AddBlock(q, n), n + 1, h, rest)
        /\ Kept(q, AddBlock(q, n), rest)
        /\ Left(AddBlock(q, n)) = Left(q) - 1
    BY <2>4, <2>5, <2>6, AddBlockSound
  <2>8. SoundDisk(run[k + 1], old + (k + 1), h, rest)
    BY <2>3, <2>5, <2>6, <2>7, n + 1 = old + (k + 1)
  <2>9. Kept(d, run[k + 1], rest)
    BY <2>1, <2>3, <2>5, <2>6, <2>7 DEF Kept
  <2>10. Left(run[k + 1]) = c - (k + 1)
    BY <2>1, <2>3, <2>5, <2>6, <2>7
  <2> QED BY <2>2, <2>8, <2>9, <2>10
<1>11. 0 .. N \subseteq Good
  <2> HIDE DEF Good
  <2> QED BY <1>9, <1>10, IntervalInduction
<1>12. N \in Good
  BY <1>11
<1>13. SoundDisk(run[N], old + N, h, rest) /\ Kept(d, run[N], rest) /\ old + N = new
  BY <1>7, <1>12
<1> QED BY <1>1, <1>6, <1>7, <1>13 DEF GrowRun

\* An inode shrinks; when it does not need block_l1 any more, that one stays
\* marked, and is one of the rest.
LEMMA ShrinkSound ==
  ASSUME NEW d, NEW old \in Nat, NEW new \in Nat, NEW rest, new < old,
         SoundDisk(d, old, Wide(old), rest)
  PROVE  LET e == Shrink(d, old, new)
             leak == IF Wide(old) /\ ~ Wide(new) THEN {d.inode.block_l1} ELSE {}
         IN  SoundDisk(e, new, Wide(new), rest \cup leak) /\ Kept(d, e, rest)
<1>0. MaxBlocks \in Nat /\ Direct \in Nat \ {0} /\ d \in Disks /\ old \in 0 .. MaxBlocks
  BY WwfsAssumption DEF MaxBlocks, SoundDisk
<1>1. PICK e : e = Shrink(d, old, new)
  OBVIOUS
<1>2. PICK leak : leak = IF Wide(old) /\ ~ Wide(new) THEN {d.inode.block_l1} ELSE {}
  OBVIOUS
<1> DEFINE gone == {At(d, k) : k \in new .. old - 1}
<1>3. e = [bitmap |-> d.bitmap \ gone, data |-> d.data, inode |-> d.inode] /\ e \in Disks
  BY <1>0, <1>1 DEF Shrink, Disks, At
<1>4. \A k : At(e, k) = At(d, k)
  BY <1>3 DEF At
<1>5. /\ \A k \in 0 .. new - 1 : k \in 0 .. old - 1 /\ k \notin new .. old - 1
      /\ \A k \in new .. old - 1 : k \in 0 .. old - 1
      /\ \A k \in 0 .. old - 1 : k \in 0 .. new - 1 \/ k \in new .. old - 1
  OBVIOUS
<1>6. \A k \in 0 .. new - 1 : At(d, k) \notin gone
  BY <1>5 DEF SoundDisk
<1>7. rest \cap gone = {}
  BY <1>5 DEF SoundDisk
<1>8. Wide(old) => /\ d.inode.block_l1 \in Block /\ d.inode.block_l1 \notin rest
                       /\ d.inode.block_l1 \notin gone
                       /\ \A k \in 0 .. old - 1 : At(d, k) # d.inode.block_l1
  BY <1>5 DEF SoundDisk
<1>9. Wide(new) => Wide(old)
  BY <1>0 DEF Wide
<1>10. new \in 0 .. MaxBlocks /\ (new > Direct => Wide(new)) /\ Wide(new) \in BOOLEAN
  BY <1>0 DEF Wide
<1>11. \A k \in 0 .. new - 1 : At(e, k) \in Block \ (rest \cup leak)
  BY <1>2, <1>4, <1>5, <1>8 DEF SoundDisk
<1>12. \A k, l \in 0 .. new - 1 : At(e, k) = At(e, l) => k = l
  BY <1>4, <1>5 DEF SoundDisk
<1>13. Wide(new) => /\ e.inode.block_l1 \in Block \ (rest \cup leak)
                        /\ \A k \in 0 .. new - 1 : At(e, k) # e.inode.block_l1
  BY <1>2, <1>3, <1>4, <1>5, <1>8, <1>9
<1>14. e.bitmap = (rest \cup leak) \cup Mine(e, new, Wide(new))
  <2>1. {At(d, k) : k \in 0 .. old - 1} = {At(e, k) : k \in 0 .. new - 1} \cup gone
    BY <1>4, <1>5
  <2>2. d.bitmap = rest \cup {At(d, k) : k \in 0 .. old - 1}
                     \cup (IF Wide(old) THEN {d.inode.block_l1} ELSE {})
    BY DEF SoundDisk, Mine
  <2>3. {At(e, k) : k \in 0 .. new - 1} \cap gone = {}
    BY <1>4, <1>6
  <2>4. PICK l1 : l1 = IF Wide(old) THEN {d.inode.block_l1} ELSE {}
    OBVIOUS
  <2>5. l1 \cap gone = {} /\ l1 = leak \cup (IF Wide(new) THEN {e.inode.block_l1} ELSE {})
    BY <1>2, <1>3, <1>8, <1>9, <2>4
  <2>6. PICK p : p = {At(e, k) : k \in 0 .. new - 1}
    OBVIOUS
  <2>7. e.bitmap = (rest \cup p \cup gone \cup l1) \ gone
    BY <1>3, <2>1, <2>2, <2>4, <2>6
  <2>8. e.bitmap = rest \cup p \cup l1
    <3> HIDE DEF gone
    <3> QED BY <1>7, <2>3, <2>5, <2>6, <2>7
  <2> QED BY <2>5, <2>6, <2>8 DEF Mine
<1>15. Kept(d, e, rest)
  BY <1>3 DEF Kept
<1>16. SoundDisk(e, new, Wide(new), rest \cup leak)
  <2> HIDE DEF gone
  <2> QED BY <1>3, <1>10, <1>11, <1>12, <1>13, <1>14 DEF SoundDisk
<1> QED BY <1>1, <1>2, <1>15, <1>16

\* What becomes marked but not used when an inode with old blocks has new ones.
Leak(inode, old, new) == IF Wide(old) /\ ~ Wide(new) THEN {inode.block_l1} ELSE {}

\* resize_inode
LEMMA ResizeSound ==
  ASSUME NEW inode \in Inode, NEW size \in Nat, NEW rest, NEW old, NEW new,
         old = Blocks(inode.size), new = Blocks(size),
         SoundDisk(Disk(inode), old, Wide(old), rest), ~ Fails(inode, size)
  PROVE  LET e == Resize(inode, size)
         IN  /\ SoundDisk(e, new, Wide(new), rest \cup Leak(inode, old, new))
             /\ \A b \in rest : e.data[b] = data[b]
             /\ e.inode.size = size /\ e.inode.type = inode.type
<1>1. old \in Nat /\ new \in Nat
  BY BlocksOf DEF Inode
<1>2. PICK x : x = [inode EXCEPT !.size = size]
  OBVIOUS
<1>3. /\ x \in Inode /\ x.size = size /\ x.type = inode.type
      /\ x.block_l1 = inode.block_l1 /\ x.blocks_l0 = inode.blocks_l0
  BY <1>2 DEF Inode
<1>4. PICK d : d = Disk(x)
  OBVIOUS
<1>5. /\ d = [bitmap |-> data_bitmap, data |-> data, inode |-> x]
      /\ Disk(inode) = [bitmap |-> data_bitmap, data |-> data, inode |-> inode]
  BY <1>4 DEF Disk
<1>6. \A k : At(d, k) = At(Disk(inode), k)
  BY <1>3, <1>5 DEF At, BlockId
<1>7. SoundDisk(d, old, Wide(old), rest)
  <2>1. d \in Disks
    BY <1>3, <1>5 DEF SoundDisk, Disks
  <2>2. PICK f : f = Disk(inode)
    OBVIOUS
  <2>3. \A k : At(d, k) = At(f, k)
    BY <1>6, <2>2
  <2>4. d.bitmap = f.bitmap /\ d.inode.block_l1 = f.inode.block_l1
    BY <1>3, <1>5, <2>2
  <2>5. Mine(d, old, Wide(old)) = Mine(f, old, Wide(old))
    BY <2>3, <2>4 DEF Mine
  <2>6. SoundDisk(f, old, Wide(old), rest)
    BY <2>2
  <2> QED BY <2>1, <2>3, <2>4, <2>5, <2>6 DEF SoundDisk
<1>8. CASE old = new
  <2>1. Resize(inode, size) = d
    BY <1>1, <1>2, <1>4, <1>8 DEF Resize
  <2>2. Leak(inode, old, new) = {}
    BY <1>8 DEF Leak
  <2>3. rest \cup {} = rest
    OBVIOUS
  <2> QED BY <1>3, <1>5, <1>7, <1>8, <2>1, <2>2, <2>3
<1>9. CASE old < new
  <2>1. Resize(inode, size) = Grow(d, old, new)
    BY <1>1, <1>2, <1>4, <1>9 DEF Resize
  <2>2. PICK a : a = IF Crosses(old, new) THEN 1 ELSE 0
    OBVIOUS
  <2>3. ~ (new > MaxBlocks) /\ ~ (new - old + a > Left(d))
    BY <1>5, <1>9, <2>2 DEF Fails, Left
  <2>4. Left(d) \in Nat
    <3>1. IsFiniteSet(Block)
      BY WwfsAssumption, FS_Interval DEF Block
    <3> QED BY <3>1, FS_Subset, FS_CardinalityType DEF Left
  <2>5. MaxBlocks \in Nat
    BY WwfsAssumption DEF MaxBlocks
  <2>6. new <= MaxBlocks /\ Left(d) >= new - old + a
    BY <1>1, <2>2, <2>3, <2>4, <2>5
  <2>7. SoundDisk(Grow(d, old, new), new, Wide(new), rest) /\ Kept(d, Grow(d, old, new), rest)
    BY <1>1, <1>7, <1>9, <2>2, <2>6, GrowSound
  <2>8. Leak(inode, old, new) = {}
    BY <1>1, <1>9, WwfsAssumption DEF Leak, Wide
  <2>9. rest \cup {} = rest
    OBVIOUS
  <2> QED BY <1>3, <1>5, <2>1, <2>7, <2>8, <2>9 DEF Kept
<1>10. CASE new < old
  <2>1. Resize(inode, size) = Shrink(d, old, new)
    BY <1>1, <1>2, <1>4, <1>10 DEF Resize
  <2>2. Leak(inode, old, new) = IF Wide(old) /\ ~ Wide(new) THEN {d.inode.block_l1} ELSE {}
    BY <1>3, <1>5 DEF Leak
  <2>3. /\ SoundDisk(Shrink(d, old, new), new, Wide(new), rest \cup Leak(inode, old, new))
        /\ Kept(d, Shrink(d, old, new), rest)
    BY <1>1, <1>7, <1>10, <2>2, ShrinkSound
  <2> QED BY <1>3, <1>5, <2>1, <2>3 DEF Kept
<1> QED BY <1>1, <1>8, <1>9, <1>10

-----------------------------------------------------------------------------
(* Writing                                                                 *)

\* One block of the loop of rw_inode_data_unaligned.
WriteStep(d, index, offset, text) ==
  [d EXCEPT !.data[BlockId(d.data, d.inode, index)] =
     WriteBlock(@, index * BlockSize, offset, text)]

\* A block of cells becomes a block of cells.
LEMMA WriteBlockType ==
  ASSUME NEW block \in [0 .. BlockSize - 1 -> Cells], NEW begin \in Nat, NEW offset \in Nat,
         NEW text \in Seq(Cells)
  PROVE  WriteBlock(block, begin, offset, text) \in [0 .. BlockSize - 1 -> Cells]
<1>1. ASSUME NEW c \in 0 .. BlockSize - 1
      PROVE  (IF begin + c \in offset .. offset + Len(text) - 1
              THEN text[begin + c - offset + 1] ELSE block[c]) \in Cells
  <2>0. BlockSize \in Nat
    BY WwfsAssumption
  <2>1. CASE begin + c \in offset .. offset + Len(text) - 1
    <3>1. begin + c - offset + 1 \in 1 .. Len(text)
      BY <2>0, <2>1
    <3> QED BY <2>1, <3>1
  <2> QED BY <2>1
<1> QED BY <1>1 DEF WriteBlock

\* Of the disk d, e has changed the block at an index of the inode, and nothing else.
Touches(d, e, index) ==
  /\ e \in Disks /\ e.bitmap = d.bitmap /\ e.inode = d.inode
  /\ \A b \in Block : b # At(d, index) => e.data[b] = d.data[b]

\* The loop touches one block at a time.
LEMMA WriteStepType ==
  ASSUME NEW d \in Disks, NEW index \in Nat, NEW offset \in Nat, NEW text \in Seq(Cells)
  PROVE  Touches(d, WriteStep(d, index, offset, text), index)
<1>1. PICK l : l = At(d, index)
  OBVIOUS
<1>2. PICK begin \in Nat : begin = index * BlockSize
  BY WwfsAssumption
<1>3. PICK w : w = WriteBlock(d.data[l], begin, offset, text)
  OBVIOUS
<1>4. /\ d = [bitmap |-> d.bitmap, data |-> d.data, inode |-> d.inode]
      /\ d.bitmap \in SUBSET Block /\ d.inode \in Inode
      /\ d.data \in [Block -> [0 .. BlockSize - 1 -> Cells]]
  BY DEF Disks
<1>5. l \in Block => w \in [0 .. BlockSize - 1 -> Cells]
  BY <1>3, <1>4, WriteBlockType
<1>6. WriteStep(d, index, offset, text)
        = [bitmap |-> d.bitmap, data |-> [d.data EXCEPT ![l] = w], inode |-> d.inode]
  BY <1>1, <1>2, <1>3, <1>4, SMTT(30) DEF WriteStep, At
<1>7. [d.data EXCEPT ![l] = w] \in [Block -> [0 .. BlockSize - 1 -> Cells]]
  BY <1>4, <1>5
<1>8. \A b \in Block : b # l => [d.data EXCEPT ![l] = w][b] = d.data[b]
  BY <1>4
<1> QED BY <1>1, <1>4, <1>6, <1>7, <1>8 DEF Disks, Touches

\* The disks that Write goes through.
WriteRun(run, d, first, n, offset, text) ==
  /\ run \in [0 .. n -> Disks]
  /\ run[0] = d
  /\ \A k \in 1 .. n : run[k] = WriteStep(run[k - 1], first + k - 1, offset, text)
  /\ Write(d, offset, text) = run[n]

\* The loop that writes block after block.
LEMMA WriteLoop ==
  ASSUME NEW d \in Disks, NEW offset \in Nat, NEW text \in Seq(Cells),
         NEW first \in Nat, first = offset \div BlockSize,
         NEW n \in Nat, n = (offset + Len(text) - 1) \div BlockSize - first + 1
  PROVE  \E run : WriteRun(run, d, first, n, offset, text)
<1> DEFINE step == [p \in Disks \X (1 .. n) |-> WriteStep(p[1], first + p[2] - 1, offset, text)]
           Is(it) == it = [s \in SUBSET (1 .. n) |->
                IF s = {} THEN d
                ELSE WriteStep(it[s \ {Max(s)}], [k \in 1 .. n |-> first + k - 1][Max(s)],
                               offset, text)]
<1>1. \A k \in 1 .. n : first + k - 1 \in Nat
  OBVIOUS
<1>2. step \in [Disks \X (1 .. n) -> Disks]
  BY <1>1, WriteStepType DEF Touches
<1>3. Write(d, offset, text) = (CHOOSE it : Is(it))[1 .. n]
  BY <1>1 DEF Write, FoldLeft, MapThenFoldSet, WriteStep
<1>4. PICK g : IsFold(g, n, Disks, d, step)
  <2> HIDE DEF step
  <2> QED BY <1>2, FoldExists
<1>5. ASSUME NEW s \in SUBSET (1 .. n), s # {}
      PROVE  /\ Max(s) \in 1 .. n
             /\ step[<<g[s \ {Max(s)}], Max(s)>>]
                  = WriteStep(g[s \ {Max(s)}], first + Max(s) - 1, offset, text)
  BY <1>4, <1>5, MaxUpTo DEF IsFold
<1>6. Is(g)
  BY <1>4, <1>5 DEF IsFold
<1>7. PICK h : Is(h) /\ Write(d, offset, text) = h[1 .. n]
  BY <1>3, <1>6
<1> HIDE DEF step
<1>8. h[{}] = d
  BY <1>7
<1>9. ASSUME NEW k \in 1 .. n
      PROVE  h[1 .. k] = WriteStep(h[1 .. k - 1], first + k - 1, offset, text)
  <2>1. k \in Nat \ {0} /\ k \in 1 .. k /\ 1 .. k \in SUBSET (1 .. n)
    OBVIOUS
  <2>2. Max(1 .. k) = k /\ (1 .. k) \ {k} = 1 .. k - 1
    BY <2>1, MaxOfInterval
  <2>3. h[1 .. k] = WriteStep(h[(1 .. k) \ {Max(1 .. k)}],
                              [i \in 1 .. n |-> first + i - 1][Max(1 .. k)], offset, text)
    BY <1>7, <2>1
  <2>4. [i \in 1 .. n |-> first + i - 1][k] = first + k - 1
    OBVIOUS
  <2> QED BY <2>2, <2>3, <2>4
<1>10. Unfolds(h, n, Disks, d, step)
  BY <1>8, <1>9 DEF step, Unfolds
<1>11. PICK run : IsRun(run, h, n, Disks, d, step)
  BY <1>2, <1>10, FoldRun
<1>12. ASSUME NEW k \in 1 .. n
       PROVE  run[k] = WriteStep(run[k - 1], first + k - 1, offset, text)
  <2>1. k - 1 \in 0 .. n
    OBVIOUS
  <2>2. run[k - 1] \in Disks /\ run[k] = step[<<run[k - 1], k>>]
    BY <1>11, <2>1 DEF IsRun
  <2> QED BY <2>2 DEF step
<1> QED BY <1>7, <1>11, <1>12 DEF IsRun, WriteRun

\* The inode's blocks are written to, and no others.
Written(d, e, n, indirect, rest) ==
  /\ SoundDisk(e, n, indirect, rest)
  /\ \A b \in rest : e.data[b] = d.data[b]
  /\ e.inode = d.inode

\* A write that lies in the inode's blocks changes nothing but these.
LEMMA WriteSound ==
  ASSUME NEW d, NEW n, NEW indirect, NEW rest, SoundDisk(d, n, indirect, rest),
         n = Blocks(d.inode.size), NEW offset \in Nat, NEW text \in Seq(Cells), text # << >>,
         offset + Len(text) <= d.inode.size
  PROVE  Written(d, Write(d, offset, text), n, indirect, rest)
<1>0. d \in Disks /\ n \in Nat /\ n \in 0 .. MaxBlocks /\ rest \subseteq Block
  BY DEF SoundDisk, Disks
<1>1. PICK s \in Nat : s = d.inode.size
  BY <1>0 DEF Disks, Inode
<1>2. PICK z \in Nat : z = offset + Len(text) - 1 /\ z < s /\ offset <= z
  <2>1. Len(text) \in Nat \ {0}
    OBVIOUS
  <2>2. offset + Len(text) - 1 \in Nat /\ offset + Len(text) - 1 < s /\ offset <= offset + Len(text) - 1
    BY <1>1, <2>1
  <2> QED BY <2>2
<1>3. PICK first \in Nat : first = offset \div BlockSize
  BY WwfsAssumption, Quotient
<1>4. PICK last \in 0 .. n - 1 : last = z \div BlockSize
  BY <1>1, <1>2, BlocksOf
<1>5. first <= last
  <2>1. BlockSize \in Nat \ {0}
    BY WwfsAssumption
  <2>2. BlockSize * first <= offset
    BY <1>3, <2>1, Quotient
  <2>3. z < BlockSize * last + BlockSize
    BY <1>4, <2>1, Quotient
  <2>4. BlockSize * first < BlockSize * last + BlockSize
    <3>1. BlockSize * first \in Nat /\ BlockSize * last \in Nat
      BY <1>0, <2>1
    <3> QED BY <1>2, <2>1, <2>2, <2>3, <3>1
  <2> QED BY <1>0, <2>1, <2>4, QuotientOrder
<1>6. PICK m \in Nat : m = last - first + 1
  BY <1>0, <1>5
<1>7. PICK run : WriteRun(run, d, first, m, offset, text)
  BY <1>0, <1>2, <1>3, <1>4, <1>6, WriteLoop
<1>8. PICK mine : mine = {At(d, k) : k \in 0 .. n - 1}
  OBVIOUS
\* The blocks that are written are the inode's.
<1> DEFINE Same(e) == /\ e \in Disks /\ e.bitmap = d.bitmap /\ e.inode = d.inode
                      /\ \A b \in Block : b \notin mine => e.data[b] = d.data[b]
           Good == {k \in 0 .. m : Same(run[k])}
<1>9. ASSUME NEW e, Same(e), NEW k \in 0 .. n - 1 PROVE At(e, k) = At(d, k)
  <2>0. Direct \in Nat
    BY WwfsAssumption
  <2>1. CASE k < Direct
    BY <1>9, <2>1 DEF At, BlockId
  <2>2. CASE ~ (k < Direct)
    <3>1. indirect /\ d.inode.block_l1 \in Block /\ d.inode.block_l1 \notin mine
      <4>1. n > Direct
        BY <1>0, <2>0, <2>2
      <4> QED BY <1>8, <4>1 DEF SoundDisk
    <3>2. e.data[d.inode.block_l1] = d.data[d.inode.block_l1] /\ e.inode = d.inode
      BY <1>9, <3>1
    <3> QED BY <2>2, <3>2 DEF At, BlockId
  <2> QED BY <2>1, <2>2
<1>10. 0 \in Good
  BY <1>0, <1>7 DEF WriteRun
<1>11. ASSUME NEW k \in 0 .. m - 1, k \in Good PROVE k + 1 \in Good
  <2>1. Same(run[k]) /\ k + 1 \in 1 .. m /\ k + 1 \in 0 .. m
    BY <1>11
  <2>2. PICK index \in 0 .. n - 1 : index = first + (k + 1) - 1
    <3>1. first + (k + 1) - 1 \in 0 .. n - 1
      BY <1>0, <1>6
    <3> QED BY <3>1
  <2>3. run[k + 1] = WriteStep(run[(k + 1) - 1], first + (k + 1) - 1, offset, text)
    BY <1>7, <2>1 DEF WriteRun
  <2>4. PICK q : q = run[k] /\ Same(q)
    BY <2>1
  <2>5. run[k + 1] = WriteStep(q, index, offset, text)
    BY <2>2, <2>3, <2>4
  <2>6. At(q, index) \in mine
    <3>1. At(q, index) = At(d, index)
      BY <1>9, <2>4
    <3> QED BY <1>8, <3>1
  <2>7. q \in Disks /\ index \in Nat
    BY <1>0, <2>4
  <2>8. /\ run[k + 1] \in Disks
        /\ run[k + 1].bitmap = q.bitmap /\ run[k + 1].inode = q.inode
        /\ \A b \in Block : b # At(q, index) => run[k + 1].data[b] = q.data[b]
    <3>1. Touches(q, WriteStep(q, index, offset, text), index)
      <4> HIDE DEF Same, Good
      <4> QED BY <2>7, WriteStepType
    <3> QED BY <2>5, <3>1 DEF Touches
  <2>9. Same(run[k + 1])
    BY <2>4, <2>6, <2>8
  <2> QED BY <2>1, <2>9
<1>12. m \in Good
  <2>1. 0 .. m \subseteq Good
    <3> HIDE DEF Good
    <3> QED BY <1>10, <1>11, IntervalInduction
  <2> QED BY <2>1
<1>13. PICK e : e = Write(d, offset, text) /\ Same(e)
  BY <1>7, <1>12 DEF WriteRun
<1>14. SoundDisk(e, n, indirect, rest)
  <2>1. \A k \in 0 .. n - 1 : At(e, k) = At(d, k)
    BY <1>9, <1>13
  <2>2. Mine(e, n, indirect) = Mine(d, n, indirect)
    BY <1>13, <2>1 DEF Mine
  <2>3. e \in Disks /\ e.bitmap = d.bitmap /\ e.inode = d.inode
    BY <1>13
  <2> HIDE DEF Same
  <2> QED BY <2>1, <2>2, <2>3 DEF SoundDisk
<1>15. \A b \in rest : e.data[b] = d.data[b]
  <2>1. \A b \in rest : b \notin mine
    BY <1>8 DEF SoundDisk
  <2> QED BY <1>0, <1>13, <2>1
<1> QED BY <1>13, <1>14, <1>15 DEF Written

-----------------------------------------------------------------------------
(* The invariant                                                           *)

\* The blocks of an inode.
Count(i) == Blocks(inodes[i].size)

Place(i, k) == BlockId(data, inodes[i], k)

\* The inodes in use are in the table and have no index that is invalid; the
\* others have no blocks.
Sized ==
  /\ inode_bitmap \subseteq 0 .. InodeCount - 1
  /\ \A i \in inode_bitmap : Count(i) <= MaxBlocks
  /\ \A i \in 0 .. InodeCount - 1 : i \notin inode_bitmap => inodes[i].size = 0

\* What an inode refers to is marked.
Marked ==
  \A i \in inode_bitmap :
    /\ \A k \in 0 .. Count(i) - 1 : Place(i, k) \in data_bitmap
    /\ Wide(Count(i)) => inodes[i].block_l1 \in data_bitmap

\* Nothing that an inode refers to has another use.
Apart ==
  \A i, j \in inode_bitmap :
    /\ \A k \in 0 .. Count(i) - 1, l \in 0 .. Count(j) - 1 :
         Place(i, k) = Place(j, l) => i = j /\ k = l
    /\ Wide(Count(j)) => \A k \in 0 .. Count(i) - 1 : Place(i, k) # inodes[j].block_l1
    /\ Wide(Count(i)) /\ Wide(Count(j)) /\ inodes[i].block_l1 = inodes[j].block_l1 => i = j

IInv == TypeOK /\ Sized /\ Marked /\ Apart

-----------------------------------------------------------------------------
(* The state, as the operations on one inode see it                        *)

\* The blocks that are marked and not those of an inode.
Rest(c) == data_bitmap \ Mine(Disk(inodes[c]), Count(c), Wide(Count(c)))

\* What an operation on an inode makes of the disk.
Update(c, e) ==
  /\ SoundDisk(e, Blocks(e.inode.size), Wide(Blocks(e.inode.size)),
               Rest(c) \cup Leak(inodes[c], Count(c), Blocks(e.inode.size)))
  /\ \A b \in Rest(c) : e.data[b] = data[b]
  /\ e.inode.type = inodes[c].type

\* The invariant, as one inode sees it.
LEMMA OwnDisk ==
  ASSUME IInv, NEW c \in inode_bitmap
  PROVE  /\ Disk(inodes[c]) = [bitmap |-> data_bitmap, data |-> data, inode |-> inodes[c]]
         /\ inodes[c] \in Inode /\ Count(c) \in Nat
         /\ SoundDisk(Disk(inodes[c]), Count(c), Wide(Count(c)), Rest(c))
<1>1. PICK d : d = Disk(inodes[c])
  OBVIOUS
<1>2. d = [bitmap |-> data_bitmap, data |-> data, inode |-> inodes[c]]
  BY <1>1 DEF Disk
<1>3. inodes[c] \in Inode /\ d \in Disks
  BY <1>2 DEF IInv, TypeOK, Sized, Disks, Cells
<1>4. PICK n \in Nat : n = Count(c) /\ n <= MaxBlocks
  BY <1>3, BlocksOf DEF IInv, Sized, Count, Inode
<1>5. PICK w \in BOOLEAN : w = Wide(n) /\ (n > Direct => w)
  <2>1. Wide(n) \in BOOLEAN
    BY DEF Wide
  <2>2. n > Direct => Wide(n)
    BY <1>4, WwfsAssumption DEF Wide
  <2> QED BY <2>1, <2>2
<1>6. \A k : At(d, k) = Place(c, k)
  BY <1>2 DEF At, Place
<1>7. d.inode.block_l1 = inodes[c].block_l1
  BY <1>2
<1>8. /\ \A k \in 0 .. n - 1 : At(d, k) \in data_bitmap
      /\ w => d.inode.block_l1 \in data_bitmap
  BY <1>4, <1>5, <1>6, <1>7 DEF IInv, Marked
<1>9. /\ \A k, l \in 0 .. n - 1 : At(d, k) = At(d, l) => k = l
      /\ w => \A k \in 0 .. n - 1 : At(d, k) # d.inode.block_l1
  BY <1>4, <1>5, <1>6, <1>7 DEF IInv, Apart
<1>10. PICK rest : rest = Rest(c) /\ rest = data_bitmap \ Mine(d, n, w)
  BY <1>1, <1>4, <1>5 DEF Rest
<1>11. Mine(d, n, w) \subseteq data_bitmap
  BY <1>8 DEF Mine
<1>12. d.bitmap = rest \cup Mine(d, n, w)
  BY <1>2, <1>10, <1>11
<1>13. data_bitmap \subseteq Block
  BY DEF IInv, TypeOK
<1>14. \A k \in 0 .. n - 1 : At(d, k) \in Block \ rest
  BY <1>8, <1>10, <1>13 DEF Mine
<1>15. w => d.inode.block_l1 \in Block \ rest
  BY <1>8, <1>10, <1>13 DEF Mine
<1>16. n \in 0 .. MaxBlocks
  BY <1>4, WwfsAssumption DEF MaxBlocks
<1>17. SoundDisk(d, n, w, rest)
  BY <1>3, <1>5, <1>9, <1>12, <1>14, <1>15, <1>16 DEF SoundDisk
<1> QED BY <1>1, <1>2, <1>3, <1>4, <1>5, <1>10, <1>17

\* What the other inodes have is in the rest.
LEMMA Others ==
  ASSUME IInv, NEW c \in inode_bitmap, NEW i \in inode_bitmap, i # c
  PROVE  /\ \A k \in 0 .. Count(i) - 1 : Place(i, k) \in Rest(c)
         /\ Wide(Count(i)) => inodes[i].block_l1 \in Rest(c)
<1>1. PICK d : d = Disk(inodes[c])
  OBVIOUS
<1>2. \A k : At(d, k) = Place(c, k)
  BY <1>1 DEF Disk, At, Place
<1>3. d.inode.block_l1 = inodes[c].block_l1
  BY <1>1 DEF Disk
<1>4. \A b : b \in Mine(d, Count(c), Wide(Count(c))) =>
        \/ \E k \in 0 .. Count(c) - 1 : b = Place(c, k)
        \/ Wide(Count(c)) /\ b = inodes[c].block_l1
  BY <1>2, <1>3 DEF Mine
<1>5. ASSUME NEW k \in 0 .. Count(i) - 1 PROVE Place(i, k) \in Rest(c)
  <2>1. Place(i, k) \in data_bitmap
    BY DEF IInv, Marked
  <2>2. /\ \A l \in 0 .. Count(c) - 1 : Place(i, k) # Place(c, l)
        /\ Wide(Count(c)) => Place(i, k) # inodes[c].block_l1
    BY DEF IInv, Apart
  <2> QED BY <1>1, <1>4, <2>1, <2>2 DEF Rest
<1>6. ASSUME Wide(Count(i)) PROVE inodes[i].block_l1 \in Rest(c)
  <2>1. inodes[i].block_l1 \in data_bitmap
    BY <1>6 DEF IInv, Marked
  <2>2. /\ \A l \in 0 .. Count(c) - 1 : inodes[i].block_l1 # Place(c, l)
        /\ Wide(Count(c)) => inodes[i].block_l1 # inodes[c].block_l1
    BY <1>6 DEF IInv, Apart
  <2> QED BY <1>1, <1>4, <2>1, <2>2 DEF Rest
<1> QED BY <1>5, <1>6

\* To change nothing is an update.
LEMMA UpdateNone ==
  ASSUME IInv, NEW c \in inode_bitmap
  PROVE  Update(c, Disk(inodes[c])) /\ Disk(inodes[c]).inode = inodes[c]
<1>1. PICK d : d = Disk(inodes[c])
  OBVIOUS
<1>2. d.inode = inodes[c] /\ d.data = data
  BY <1>1 DEF Disk
<1>3. Leak(inodes[c], Count(c), Count(c)) = {} /\ Blocks(d.inode.size) = Count(c)
  BY <1>2 DEF Leak, Count
<1>4. Rest(c) \cup {} = Rest(c)
  OBVIOUS
<1>5. SoundDisk(d, Count(c), Wide(Count(c)), Rest(c))
  BY <1>1, OwnDisk
<1> QED BY <1>1, <1>2, <1>3, <1>4, <1>5 DEF Update

\* resize_inode is one, when it does not fail.
LEMMA UpdateResize ==
  ASSUME IInv, NEW c \in inode_bitmap, NEW size \in Nat, ~ Fails(inodes[c], size)
  PROVE  Update(c, Resize(inodes[c], size)) /\ Resize(inodes[c], size).inode.size = size
<1>1. PICK x \in Inode : x = inodes[c]
  BY OwnDisk
<1>2. PICK old, new, rest : old = Blocks(x.size) /\ new = Blocks(size) /\ rest = Rest(c)
  OBVIOUS
<1>3. old = Count(c)
  BY <1>1, <1>2 DEF Count
<1>4. SoundDisk(Disk(x), old, Wide(old), rest) /\ ~ Fails(x, size)
  BY <1>1, <1>2, <1>3, OwnDisk
<1>5. PICK e : e = Resize(x, size)
  OBVIOUS
<1>6. /\ SoundDisk(e, new, Wide(new), rest \cup Leak(x, old, new))
      /\ \A b \in rest : e.data[b] = data[b]
      /\ e.inode.size = size /\ e.inode.type = x.type
  BY <1>2, <1>4, <1>5, ResizeSound
<1> QED BY <1>1, <1>2, <1>3, <1>5, <1>6 DEF Update

\* It remains one when it goes on with a write into the blocks it has.
LEMMA UpdateWrite ==
  ASSUME NEW c, NEW d, Update(c, d), NEW offset \in Nat, NEW text \in Seq(Cells), text # << >>,
         offset + Len(text) <= d.inode.size
  PROVE  Update(c, Write(d, offset, text))
<1>1. PICK n, rest : n = Blocks(d.inode.size) /\ rest = Rest(c) \cup Leak(inodes[c], Count(c), n)
  OBVIOUS
<1>2. SoundDisk(d, n, Wide(n), rest)
  BY <1>1 DEF Update
<1>3. PICK e : e = Write(d, offset, text)
  OBVIOUS
<1>4. PICK w : w = Wide(n) /\ SoundDisk(d, n, w, rest)
  BY <1>2
<1>5. Written(d, Write(d, offset, text), n, w, rest)
  BY <1>1, <1>4, WriteSound
<1>6. /\ SoundDisk(e, n, Wide(n), rest)
      /\ \A b \in rest : e.data[b] = d.data[b]
      /\ e.inode = d.inode
  BY <1>3, <1>4, <1>5 DEF Written
<1> QED BY <1>1, <1>3, <1>6 DEF Update

-----------------------------------------------------------------------------
(* A step                                                                  *)

\* The disk is stored, and the inodes that are new have no blocks.
Stored(c, e) ==
  /\ inode_bitmap \subseteq inode_bitmap' /\ inode_bitmap' \subseteq 0 .. InodeCount - 1
  /\ inodes' \in [0 .. InodeCount - 1 -> Inode]
  /\ inodes'[c] = e.inode /\ data_bitmap' = e.bitmap /\ data' = e.data
  /\ \A i \in 0 .. InodeCount - 1 : i # c =>
       IF i \in inode_bitmap THEN inodes'[i] = inodes[i] ELSE inodes'[i].size = 0

\* What the inodes have after the step.
Before(c, e) ==
  /\ Count(c)' = Blocks(e.inode.size) /\ inodes'[c].block_l1 = e.inode.block_l1
  /\ \A k : Place(c, k)' = At(e, k)
  /\ \A i \in inode_bitmap' : i # c =>
       \/ /\ i \in inode_bitmap
          /\ Count(i)' = Count(i) /\ inodes'[i].block_l1 = inodes[i].block_l1
          /\ \A k \in 0 .. Count(i) - 1 : Place(i, k)' = Place(i, k)
       \/ i \notin inode_bitmap /\ Count(i)' = 0

\* The others have kept theirs: what they refer to is in the rest, and that is unchanged.
LEMMA StoredBefore ==
  ASSUME IInv, NEW c \in inode_bitmap, NEW e, Update(c, e), Stored(c, e)
  PROVE  Before(c, e)
<1>1. Count(c)' = Blocks(e.inode.size) /\ inodes'[c].block_l1 = e.inode.block_l1
  BY DEF Stored, Count
<1>2. \A k : Place(c, k)' = At(e, k)
  BY DEF Stored, Place, At
<1>3. ASSUME NEW i \in inode_bitmap', i # c, i \notin inode_bitmap PROVE Count(i)' = 0
  BY <1>3, BlocksOf DEF Stored, Count
<1>4. ASSUME NEW i \in inode_bitmap, i # c, NEW k \in 0 .. Count(i) - 1
      PROVE  Place(i, k)' = Place(i, k)
  <2>1. inodes'[i] = inodes[i] /\ data' = e.data
    BY <1>4 DEF Stored, IInv, Sized
  <2>2. CASE k < Direct
    BY <2>1, <2>2 DEF Place, BlockId
  <2>3. CASE ~ (k < Direct)
    <3>1. Wide(Count(i))
      <4>1. PICK n \in Nat : n = Count(i)
        BY OwnDisk
      <4>2. n >= Direct
        BY <2>3, <4>1, WwfsAssumption
      <4> QED BY <4>1, <4>2 DEF Wide
    <3>2. inodes[i].block_l1 \in Rest(c)
      BY <1>4, <3>1, Others
    <3>3. e.data[inodes[i].block_l1] = data[inodes[i].block_l1]
      BY <3>2 DEF Update
    <3> QED BY <2>1, <2>3, <3>3 DEF Place, BlockId
  <2> QED BY <2>2, <2>3
<1>5. ASSUME NEW i \in inode_bitmap, i # c
      PROVE  Count(i)' = Count(i) /\ inodes'[i].block_l1 = inodes[i].block_l1
  BY <1>5 DEF Stored, Count, IInv, Sized
<1> QED BY <1>1, <1>2, <1>3, <1>4, <1>5 DEF Before

\* Storing an update preserves the invariant.
LEMMA StoredInv ==
  ASSUME IInv, NEW c \in inode_bitmap, NEW e, Update(c, e), Stored(c, e), halted' \in BOOLEAN
  PROVE  IInv'
<1>0. Wide(0) = FALSE /\ \A k : k \notin 0 .. 0 - 1
  BY WwfsAssumption DEF Wide
<1>1. Before(c, e)
  BY StoredBefore
<1>2. PICK n, w, rest : /\ n = Blocks(e.inode.size) /\ w = Wide(n)
                        /\ rest = Rest(c) \cup Leak(inodes[c], Count(c), n)
  OBVIOUS
<1>3. SoundDisk(e, n, w, rest)
  BY <1>2 DEF Update
<1>4. e \in Disks
  BY <1>3 DEF SoundDisk
<1>5. TypeOK'
  <2>1. 0 .. InodeCount - 1 \subseteq 0 .. InodeBits - 1
    BY WwfsAssumption
  <2>2. data_bitmap' \subseteq Block /\ data' \in [Block -> [0 .. BlockSize - 1 -> Cell \cup Nat]]
    BY <1>4 DEF Stored, Disks, Cells
  <2> QED BY <2>1, <2>2 DEF TypeOK, Stored
<1>6. Count(c)' = n /\ n \in 0 .. MaxBlocks
  BY <1>1, <1>2, <1>3 DEF Before, SoundDisk
<1>7. Sized'
  <2>1. ASSUME NEW i \in inode_bitmap' PROVE (Count(i) <= MaxBlocks)'
    <3>1. MaxBlocks' = MaxBlocks /\ MaxBlocks \in Nat
      BY WwfsAssumption DEF MaxBlocks
    <3>2. CASE i = c
      BY <1>6, <3>1, <3>2
    <3>3. CASE i # c /\ i \in inode_bitmap
      BY <1>1, <3>1, <3>3 DEF Before, IInv, Sized
    <3>4. CASE i # c /\ i \notin inode_bitmap
      BY <1>1, <3>1, <3>4 DEF Before
    <3> QED BY <3>2, <3>3, <3>4
  <2>2. \A i \in 0 .. InodeCount - 1 : i \notin inode_bitmap' => inodes'[i].size = 0
    BY DEF Stored
  <2>3. inode_bitmap' \subseteq 0 .. InodeCount - 1
    BY DEF Stored
  <2> QED BY <2>1, <2>2, <2>3 DEF Sized
<1>8. /\ \A k \in 0 .. n - 1 : Place(c, k)' = At(e, k)
      /\ inodes'[c].block_l1 = e.inode.block_l1 /\ Wide(Count(c))' = w
  BY <1>1, <1>2, <1>6 DEF Before, Wide
<1>9. ASSUME NEW i \in inode_bitmap', i # c
      PROVE  \/ /\ i \in inode_bitmap /\ Count(i)' = Count(i) /\ Wide(Count(i))' = Wide(Count(i))
                /\ inodes'[i].block_l1 = inodes[i].block_l1
                /\ \A k \in 0 .. Count(i) - 1 : Place(i, k)' = Place(i, k) /\ Place(i, k) \in rest
                /\ Wide(Count(i)) => inodes[i].block_l1 \in rest
             \/ Count(i)' = 0 /\ ~ Wide(Count(i))'
  <2>1. CASE i \in inode_bitmap
    <3>1. /\ Count(i)' = Count(i) /\ inodes'[i].block_l1 = inodes[i].block_l1
          /\ \A k \in 0 .. Count(i) - 1 : Place(i, k)' = Place(i, k)
      BY <1>1, <1>9, <2>1 DEF Before
    <3>2. Wide(Count(i))' = Wide(Count(i))
      BY <3>1 DEF Wide
    <3>3. /\ \A k \in 0 .. Count(i) - 1 : Place(i, k) \in Rest(c)
          /\ Wide(Count(i)) => inodes[i].block_l1 \in Rest(c)
      BY <1>9, <2>1, Others
    <3> QED BY <1>2, <2>1, <3>1, <3>2, <3>3
  <2>2. CASE i \notin inode_bitmap
    <3>1. Count(i)' = 0
      BY <1>1, <1>9, <2>2 DEF Before
    <3>2. Wide(Count(i))' = Wide(0)
      BY <3>1 DEF Wide
    <3> QED BY <1>0, <3>1, <3>2
  <2> QED BY <2>1, <2>2
<1>10. data_bitmap' = rest \cup Mine(e, n, w)
  BY <1>3 DEF Stored, SoundDisk
<1>11. /\ \A k \in 0 .. n - 1 : At(e, k) \notin rest /\ At(e, k) \in data_bitmap'
       /\ w => e.inode.block_l1 \notin rest /\ e.inode.block_l1 \in data_bitmap'
       /\ rest \subseteq data_bitmap'
  BY <1>3, <1>10 DEF SoundDisk, Mine
<1>12. Marked'
  <2> SUFFICES ASSUME NEW i \in inode_bitmap'
               PROVE  /\ \A k \in 0 .. Count(i)' - 1 : Place(i, k)' \in data_bitmap'
                      /\ Wide(Count(i))' => inodes'[i].block_l1 \in data_bitmap'
    BY DEF Marked
  <2>1. CASE i = c
    BY <1>6, <1>8, <1>11, <2>1
  <2>2. CASE i # c
    BY <1>9, <1>11, <1>0, <2>2
  <2> QED BY <2>1, <2>2
<1>13. Apart'
  <2> SUFFICES ASSUME NEW i \in inode_bitmap', NEW j \in inode_bitmap'
        PROVE  /\ \A k \in 0 .. Count(i)' - 1, l \in 0 .. Count(j)' - 1 :
                    Place(i, k)' = Place(j, l)' => i = j /\ k = l
               /\ Wide(Count(j))' => \A k \in 0 .. Count(i)' - 1 : Place(i, k)' # inodes'[j].block_l1
               /\ Wide(Count(i))' /\ Wide(Count(j))' /\ inodes'[i].block_l1 = inodes'[j].block_l1
                    => i = j
    BY DEF Apart
  <2>1. CASE i = c /\ j = c
    <3>1. /\ \A k, l \in 0 .. n - 1 : At(e, k) = At(e, l) => k = l
          /\ w => \A k \in 0 .. n - 1 : At(e, k) # e.inode.block_l1
      BY <1>3 DEF SoundDisk
    <3> QED BY <1>6, <1>8, <2>1, <3>1
  <2>2. CASE i = c /\ j # c
    BY <1>6, <1>8, <1>9, <1>11, <1>0, <2>2
  <2>3. CASE i # c /\ j = c
    BY <1>6, <1>8, <1>9, <1>11, <1>0, <2>3
  <2>4. CASE i # c /\ j # c
    <3>1. CASE i \notin inode_bitmap \/ j \notin inode_bitmap
      BY <1>9, <1>0, <2>4, <3>1
    <3>2. CASE i \in inode_bitmap /\ j \in inode_bitmap
      <4>1. /\ \A k \in 0 .. Count(i) - 1, l \in 0 .. Count(j) - 1 :
                 Place(i, k) = Place(j, l) => i = j /\ k = l
            /\ Wide(Count(j)) => \A k \in 0 .. Count(i) - 1 : Place(i, k) # inodes[j].block_l1
            /\ Wide(Count(i)) /\ Wide(Count(j)) /\ inodes[i].block_l1 = inodes[j].block_l1 => i = j
        BY <3>2 DEF IInv, Apart
      <4> QED BY <1>9, <1>0, <2>4, <3>2, <4>1
    <3> QED BY <3>1, <3>2
  <2> QED BY <2>1, <2>2, <2>3, <2>4
<1> QED BY <1>5, <1>7, <1>12, <1>13 DEF IInv

-----------------------------------------------------------------------------
(* The actions                                                             *)

\* While the bound allows one more, allocate_inode finds an inode of the table that is free.
LEMMA FreeInodeFound ==
  ASSUME IInv, Cardinality(inode_bitmap) < MaxInodes
  PROVE  FreeInode \in (0 .. InodeCount - 1) \ inode_bitmap
<1>1. PICK table, free : /\ table = 0 .. InodeCount - 1
                         /\ free = (0 .. InodeBits - 1) \ inode_bitmap
  OBVIOUS
<1>2. PICK j \in table : j \notin inode_bitmap
  <2> SUFFICES ASSUME \A j \in table : j \in inode_bitmap PROVE FALSE
    OBVIOUS
  <2>1. table = inode_bitmap
    BY <1>1 DEF IInv, Sized
  <2>2. Cardinality(table) = InodeCount
    BY <1>1, WwfsAssumption, FS_Interval
  <2> QED BY <2>1, <2>2, WwfsAssumption
<1>3. free \subseteq Nat /\ j \in free
  BY <1>1, <1>2, WwfsAssumption
<1>4. Min(free) \in free /\ \A y \in free : Min(free) <= y
  BY <1>3, MinProperties
<1>5. FreeInode = CHOOSE i \in free : \A y \in free : i <= y
  BY <1>1 DEF FreeInode
<1>6. FreeInode \in free /\ FreeInode <= j
  BY <1>3, <1>4, <1>5
<1> QED BY <1>1, <1>2, <1>6, WwfsAssumption

\* A step changes the blocks of one inode.
Changes(c, e) == c \in inode_bitmap /\ Update(c, e) /\ Stored(c, e) /\ halted' \in BOOLEAN

\* Nothing is stored but the bit of an inode that is new.
LEMMA KeepsBlocks ==
  ASSUME IInv, NEW c \in inode_bitmap, UNCHANGED <<data_bitmap, inodes, data>>, halted' \in BOOLEAN,
         inode_bitmap \subseteq inode_bitmap', inode_bitmap' \subseteq 0 .. InodeCount - 1
  PROVE  Changes(c, Disk(inodes[c]))
<1>1. PICK e : e = Disk(inodes[c])
  OBVIOUS
<1>2. e.inode = inodes[c] /\ e.bitmap = data_bitmap /\ e.data = data
  BY <1>1 DEF Disk
<1>3. Update(c, e)
  BY <1>1, UpdateNone
<1>4. \A i \in 0 .. InodeCount - 1 : IF i \in inode_bitmap THEN TRUE ELSE inodes[i].size = 0
  BY DEF IInv, Sized
<1>5. inodes' \in [0 .. InodeCount - 1 -> Inode]
  BY DEF IInv, TypeOK
<1> QED BY <1>1, <1>2, <1>3, <1>4, <1>5 DEF Changes, Stored

\* An update of one inode is stored.
LEMMA StoresOne ==
  ASSUME IInv, NEW c \in inode_bitmap, NEW e, Update(c, e), halted' \in BOOLEAN,
         inode_bitmap' = inode_bitmap, inodes' = [inodes EXCEPT ![c] = e.inode],
         data_bitmap' = e.bitmap, data' = e.data
  PROVE  Changes(c, e)
<1>1. e.inode \in Inode
  BY DEF Update, SoundDisk, Disks
<1>2. PICK x \in Inode : x = e.inode
  BY <1>1
<1>3. inodes \in [0 .. InodeCount - 1 -> Inode] /\ inode_bitmap \subseteq 0 .. InodeCount - 1
  BY DEF IInv, TypeOK, Sized
<1>4. inodes' = [inodes EXCEPT ![c] = x]
  BY <1>2
<1>5. \A i \in 0 .. InodeCount - 1 : i # c => inodes'[i] = inodes[i]
  BY <1>3, <1>4
<1>6. inodes' \in [0 .. InodeCount - 1 -> Inode] /\ inodes'[c] = x
  BY <1>3, <1>4
<1>7. \A i \in 0 .. InodeCount - 1 : i \notin inode_bitmap => inodes[i].size = 0
  BY DEF IInv, Sized
<1> QED BY <1>2, <1>3, <1>5, <1>6, <1>7 DEF Changes, Stored

\* The record of an inode that is allocated.
LEMMA NewInode ==
  ASSUME NEW x \in Inode, NEW type \in {"DIRECTORY", "FILE", "FIFO"}
  PROVE  LET y == [x EXCEPT !.type = type, !.size = 0]
         IN  y \in Inode /\ y.size = 0
<1>1. PICK y : y = [x EXCEPT !.type = type]
  OBVIOUS
<1>2. y = [type |-> type, size |-> x.size, blocks_l0 |-> x.blocks_l0, block_l1 |-> x.block_l1]
  BY <1>1 DEF Inode
<1>3. [y EXCEPT !.size = 0]
        = [type |-> type, size |-> 0, blocks_l0 |-> x.blocks_l0, block_l1 |-> x.block_l1]
  BY <1>2
<1>4. [x EXCEPT !.type = type, !.size = 0] = [y EXCEPT !.size = 0]
  BY <1>1
<1>5. x.blocks_l0 \in [0 .. Direct - 1 -> Nat] /\ x.block_l1 \in Nat
  BY DEF Inode
<1> QED BY <1>3, <1>4, <1>5 DEF Inode

\* create
LEMMA CreateStep ==
  ASSUME IInv, NEW c \in inode_bitmap, NEW name \in Name, NEW type \in Type, Create(c, name, type)
  PROVE  \E e : Changes(c, e)
<1>1. PICK new \in (0 .. InodeCount - 1) \ inode_bitmap : new = FreeInode
  BY FreeInodeFound DEF Create
<1>2. c \in 0 .. InodeCount - 1 /\ inode_bitmap \subseteq 0 .. InodeCount - 1
  BY DEF IInv, Sized
<1>3. PICK size \in Nat : size = inodes[c].size
  <2>1. inodes[c] \in Inode
    BY OwnDisk
  <2> QED BY <2>1 DEF Inode
<1>4. PICK entry \in Seq(Cells) : entry = Append(name, new) /\ entry # << >>
  <2>1. name \in Seq(Cell)
    BY WwfsAssumption
  <2>2. name \in Seq(Cells) /\ new \in Cells
    BY <1>1, <2>1 DEF Cells
  <2>3. Append(name, new) \in Seq(Cells) /\ Append(name, new) # << >>
    BY <2>2
  <2> QED BY <2>3
<1>5. PICK total \in Nat : total = size + Len(entry)
  BY <1>3, <1>4
<1>6. inode_bitmap' = inode_bitmap \cup {new}
  BY <1>1 DEF Create
<1>7. inode_bitmap \subseteq inode_bitmap' /\ inode_bitmap' \subseteq 0 .. InodeCount - 1
  BY <1>1, <1>2, <1>6
<1>8. CASE Fails(inodes[c], total)
  <2>1. halted' = TRUE /\ UNCHANGED <<data_bitmap, inodes, data>>
    BY <1>1, <1>3, <1>4, <1>5, <1>8 DEF Create
  <2>2. Changes(c, Disk(inodes[c]))
    BY <1>7, <2>1, KeepsBlocks
  <2> QED BY <2>2
<1>9. CASE ~ Fails(inodes[c], total)
  <2>1. PICK d : d = Resize(inodes[c], total)
    OBVIOUS
  <2>2. Update(c, d) /\ d.inode.size = total
    BY <1>9, <2>1, UpdateResize
  <2>3. PICK e : e = Write(d, size, entry)
    OBVIOUS
  <2>4. Update(c, e)
    <3>1. size + Len(entry) <= d.inode.size
      BY <1>5, <2>2
    <3>2. Update(c, Write(d, size, entry))
      BY <1>3, <1>4, <2>2, <3>1, UpdateWrite
    <3> QED BY <2>3, <3>2
  <2>5. /\ inodes' = [inodes EXCEPT ![new].type = type, ![new].size = 0, ![c] = e.inode]
        /\ data_bitmap' = e.bitmap /\ data' = e.data /\ halted' = halted
    BY <1>1, <1>3, <1>4, <1>5, <1>9, <2>1, <2>3 DEF Create
  <2>6. PICK x \in Inode : x = e.inode
    BY <2>4 DEF Update, SoundDisk, Disks
  <2>7. inodes \in [0 .. InodeCount - 1 -> Inode] /\ halted \in BOOLEAN
    BY DEF IInv, TypeOK
  <2>8. PICK y \in Inode : y = [inodes[new] EXCEPT !.type = type, !.size = 0] /\ y.size = 0
    <3>1. inodes[new] \in Inode /\ type \in {"DIRECTORY", "FILE", "FIFO"}
      BY <1>1, <2>7, WwfsAssumption
    <3> QED BY <3>1, NewInode
  <2>9. new # c
    BY <1>1
  <2>10. inodes' = [inodes EXCEPT ![new] = y, ![c] = x]
    BY <1>1, <1>2, <2>5, <2>6, <2>7, <2>8, <2>9
  <2>11. /\ inodes' \in [0 .. InodeCount - 1 -> Inode]
         /\ inodes'[c] = e.inode /\ inodes'[new] = y
         /\ \A i \in 0 .. InodeCount - 1 : i # c /\ i # new => inodes'[i] = inodes[i]
    BY <1>1, <1>2, <2>6, <2>7, <2>9, <2>10
  <2>12. \A i \in 0 .. InodeCount - 1 : i # c =>
           IF i \in inode_bitmap THEN inodes'[i] = inodes[i] ELSE inodes'[i].size = 0
    <3>1. \A i \in 0 .. InodeCount - 1 : i \notin inode_bitmap => inodes[i].size = 0
      BY DEF IInv, Sized
    <3> QED BY <1>1, <2>8, <2>11, <3>1
  <2> QED BY <1>7, <2>4, <2>5, <2>7, <2>11, <2>12 DEF Changes, Stored
<1> QED BY <1>8, <1>9

\* write_data
LEMMA WriteDataStep ==
  ASSUME IInv, NEW c \in inode_bitmap, NEW offset \in Nat, NEW text \in Text,
         WriteData(c, offset, text)
  PROVE  \E e : Changes(c, e)
<1>1. inode_bitmap' = inode_bitmap /\ inode_bitmap \subseteq 0 .. InodeCount - 1
  BY DEF IInv, Sized, WriteData
<1>2. PICK size \in Nat : size = inodes[c].size
  <2>1. inodes[c] \in Inode
    BY OwnDisk
  <2> QED BY <2>1 DEF Inode
<1>3. text \in Seq(Cells) /\ text # << >>
  <2>1. text \in Seq(Cell) /\ text # << >>
    BY WwfsAssumption
  <2> QED BY <2>1 DEF Cells
<1>4. PICK total \in Nat : total = offset + Len(text)
  BY <1>3
<1>5. halted \in BOOLEAN
  BY DEF IInv, TypeOK
<1>6. CASE total > size /\ Fails(inodes[c], total)
  <2>1. halted' = TRUE /\ UNCHANGED <<data_bitmap, inodes, data>>
    BY <1>2, <1>4, <1>6 DEF WriteData
  <2>2. Changes(c, Disk(inodes[c]))
    BY <1>1, <2>1, KeepsBlocks
  <2> QED BY <2>2
<1>7. CASE ~ (total > size /\ Fails(inodes[c], total))
  <2>1. PICK d : d = IF total > size THEN Resize(inodes[c], total) ELSE Disk(inodes[c])
    OBVIOUS
  <2>2. Update(c, d) /\ total <= d.inode.size
    <3>1. CASE total > size
      <4>1. Update(c, d) /\ d.inode.size = total
        BY <1>7, <2>1, <3>1, UpdateResize
      <4> QED BY <4>1
    <3>2. CASE ~ (total > size)
      <4>1. Update(c, d) /\ d.inode = inodes[c]
        BY <2>1, <3>2, UpdateNone
      <4> QED BY <1>2, <3>2, <4>1
    <3> QED BY <3>1, <3>2
  <2>3. PICK e : e = Write(d, offset, text)
    OBVIOUS
  <2>4. Update(c, e)
    <3>1. offset + Len(text) <= d.inode.size
      BY <1>4, <2>2
    <3>2. Update(c, Write(d, offset, text))
      BY <1>3, <2>2, <3>1, UpdateWrite
    <3> QED BY <2>3, <3>2
  <2>5. /\ inodes' = [inodes EXCEPT ![c] = e.inode]
        /\ data_bitmap' = e.bitmap /\ data' = e.data /\ halted' = halted
    BY <1>2, <1>4, <1>7, <2>1, <2>3 DEF WriteData
  <2>6. Changes(c, e)
    BY <1>1, <1>5, <2>4, <2>5, StoresOne
  <2> QED BY <2>6
<1> QED BY <1>6, <1>7

\* resize_inode(file, 0)
LEMMA TruncateStep ==
  ASSUME IInv, NEW c \in inode_bitmap, Truncate(c)
  PROVE  \E e : Changes(c, e)
<1>1. PICK e : e = Resize(inodes[c], 0)
  OBVIOUS
<1>2. ~ Fails(inodes[c], 0)
  <2>1. PICK n \in Nat : n = Blocks(inodes[c].size)
    BY OwnDisk DEF Count
  <2>2. ~ (n < 0)
    BY <2>1
  <2> QED BY <2>1, <2>2, BlocksOf DEF Fails
<1>3. Update(c, e)
  BY <1>1, <1>2, UpdateResize
<1>4. e.data = data
  <2>1. PICK z, x : z = Blocks(0) /\ x = [inodes[c] EXCEPT !.size = 0]
    OBVIOUS
  <2>2. PICK n \in Nat : n = Blocks(inodes[c].size)
    BY OwnDisk DEF Count
  <2>3. z = 0
    BY <2>1, BlocksOf
  <2>4. e = Disk(x) \/ e = Shrink(Disk(x), n, z)
    BY <1>1, <2>1, <2>2, <2>3 DEF Resize
  <2> QED BY <2>4 DEF Shrink, Disk
<1>5. halted' \in BOOLEAN /\ inode_bitmap' = inode_bitmap
  BY DEF Truncate, IInv, TypeOK
<1>6. inodes' = [inodes EXCEPT ![c] = e.inode] /\ data_bitmap' = e.bitmap /\ data' = e.data
  BY <1>1, <1>4 DEF Truncate
<1>7. Changes(c, e)
  BY <1>3, <1>5, <1>6, StoresOne
<1> QED BY <1>7

\* Every step is such an update.
LEMMA Steps ==
  ASSUME IInv, [Next]_vars
  PROVE  UNCHANGED vars \/ \E c, e : Changes(c, e)
<1>1. ASSUME NEW c \in inode_bitmap, NEW name \in Name, NEW type \in Type, Create(c, name, type)
      PROVE  \E e : Changes(c, e)
  BY <1>1, CreateStep
<1>2. ASSUME NEW c \in inode_bitmap, NEW offset \in 0 .. inodes[c].size + 1, NEW text \in Text,
             WriteData(c, offset, text)
      PROVE  \E e : Changes(c, e)
  <2>1. offset \in Nat
    <3>1. inodes[c] \in Inode
      BY OwnDisk
    <3> QED BY <3>1 DEF Inode
  <2> QED BY <1>2, <2>1, WriteDataStep
<1>3. ASSUME NEW c \in inode_bitmap, Truncate(c)
      PROVE  \E e : Changes(c, e)
  BY <1>3, TruncateStep
<1> QED BY <1>1, <1>2, <1>3 DEF Next

-----------------------------------------------------------------------------
(* The theorem of the invariant                                            *)

(***************************************************************************)
(* The invariant: each inode has its blocks to itself, they are marked,    *)
(* and an inode that is free has none.                                     *)
(***************************************************************************)
THEOREM Invariance == Spec => []IInv
<1>1. Init => IInv
  <2> SUFFICES ASSUME Init PROVE IInv
    OBVIOUS
  <2>1. PICK x : x = [type |-> "DIRECTORY", size |-> 0,
                      blocks_l0 |-> [k \in 0 .. Direct - 1 |-> 0], block_l1 |-> 0]
    OBVIOUS
  <2>2. x \in Inode /\ x.size = 0
    BY <2>1 DEF Inode
  <2>3. inodes = [i \in 0 .. InodeCount - 1 |-> x] /\ inode_bitmap = {Root}
    BY <2>1 DEF Init
  <2>4. \A i \in 0 .. InodeCount - 1 : inodes[i] = x
    BY <2>3
  <2>5. 0 .. InodeCount - 1 \subseteq 0 .. InodeBits - 1 /\ Root \in 0 .. InodeCount - 1
    BY WwfsAssumption DEF Root
  <2>6. TypeOK
    <3>1. data \in [Block -> [0 .. BlockSize - 1 -> Cell \cup Nat]]
      BY DEF Init
    <3>2. inodes \in [0 .. InodeCount - 1 -> Inode]
      BY <2>2, <2>3
    <3> QED BY <2>3, <2>5, <3>1, <3>2 DEF TypeOK, Init
  <2>7. Count(Root) = 0 /\ ~ Wide(0)
    <3>1. inodes[Root].size = 0
      BY <2>2, <2>4, <2>5
    <3>2. ~ Wide(0)
      BY WwfsAssumption DEF Wide
    <3> QED BY <3>1, <3>2, BlocksOf DEF Count
  <2>8. Sized
    <3>1. 0 <= MaxBlocks
      BY WwfsAssumption DEF MaxBlocks
    <3> QED BY <2>2, <2>3, <2>4, <2>5, <2>7, <3>1 DEF Sized
  <2>9. \A k : k \notin 0 .. 0 - 1
    OBVIOUS
  <2>10. Marked
    BY <2>3, <2>7, <2>9 DEF Marked
  <2>11. Apart
    BY <2>3, <2>7, <2>9 DEF Apart
  <2> QED BY <2>6, <2>8, <2>10, <2>11 DEF IInv
<1>2. IInv /\ [Next]_vars => IInv'
  <2> SUFFICES ASSUME IInv, [Next]_vars PROVE IInv'
    OBVIOUS
  <2>1. CASE UNCHANGED vars
    BY <2>1 DEF vars, IInv, TypeOK, Sized, Marked, Apart, Count, Place
  <2>2. ASSUME NEW c, NEW e, Changes(c, e) PROVE IInv'
    BY <2>2, StoredInv DEF Changes
  <2> QED BY <2>1, <2>2, Steps
<1> QED BY <1>1, <1>2, PTL DEF Spec

-----------------------------------------------------------------------------
(* The properties                                                          *)

\* What the set of blocks in use holds.
LEMMA Owners ==
  ASSUME IInv, NEW b
  PROVE  b \in Owned <=> \E i \in inode_bitmap :
           \/ \E k \in 0 .. Count(i) - 1 : b = Place(i, k)
           \/ Wide(Count(i)) /\ b = inodes[i].block_l1
<1>1. \A i \in inode_bitmap : Count(i) \in Nat /\ Count(i) <= MaxBlocks
  BY OwnDisk DEF IInv, Sized
<1>2. \A i \in inode_bitmap : Wide(Count(i)) <=> i \in L1Uses
  BY DEF Wide, L1Uses, Count
<1>3. \A i \in inode_bitmap : \A k \in 0 .. Count(i) - 1 :
        <<i, k>> \in Uses /\ BlockOf(<<i, k>>) = Place(i, k)
  <2> TAKE i \in inode_bitmap
  <2> TAKE k \in 0 .. Count(i) - 1
  <2>1. k \in 0 .. MaxBlocks /\ k < Count(i)
    BY <1>1, WwfsAssumption DEF MaxBlocks
  <2> QED BY <2>1 DEF Uses, Count, BlockOf, Place
<1>4. \A use \in Uses : /\ use[1] \in inode_bitmap /\ use[2] \in 0 .. Count(use[1]) - 1
                        /\ BlockOf(use) = Place(use[1], use[2])
  <2> TAKE use \in Uses
  <2>1. use[1] \in inode_bitmap /\ use[2] \in 0 .. MaxBlocks /\ use[2] < Count(use[1])
    BY DEF Uses, Count
  <2>2. use[2] \in 0 .. Count(use[1]) - 1
    BY <1>1, <2>1
  <2> QED BY <2>1, <2>2 DEF BlockOf, Place
<1>5. L1Uses \subseteq inode_bitmap
  BY DEF L1Uses
<1>6. b \in Owned <=> \/ \E use \in Uses : b = BlockOf(use)
                      \/ \E i \in L1Uses : b = inodes[i].block_l1
  BY DEF Owned
<1> QED BY <1>2, <1>3, <1>4, <1>5, <1>6, ZenonT(30)

\* An image of a set under a function that tells its elements apart is as large.
LEMMA SameSize ==
  ASSUME NEW S, IsFiniteSet(S), NEW f, f = [x \in S |-> f[x]],
         \A x, y \in S : f[x] = f[y] => x = y
  PROVE  /\ IsFiniteSet({f[x] : x \in S})
         /\ Cardinality({f[x] : x \in S}) = Cardinality(S)
<1>1. PICK T : T = {f[x] : x \in S}
  OBVIOUS
<1>2. f \in [S -> T]
  BY <1>1
<1>3. f \in Surjection(S, T) /\ f \in Injection(S, T)
  BY <1>1, <1>2 DEF Surjection, Injection, IsInjective
<1> QED BY <1>1, <1>3, FS_Surjection

(***************************************************************************)
(* No block has two uses, whatever the sizes of the disk and of its parts, *)
(* and whatever is created, written and truncated: the blocks of the       *)
(* inodes, direct, indirect and block_l1 themselves, are as many as their  *)
(* uses, and are marked in the bitmap.                                     *)
(***************************************************************************)
THEOREM BlocksApartHolds == Spec => []BlocksApart
<1>1. IInv => BlocksApart
  <2> SUFFICES ASSUME IInv PROVE BlocksApart
    OBVIOUS
  <2>1. Owned \subseteq data_bitmap
    BY Owners DEF IInv, Marked
  <2>2. IsFiniteSet(inode_bitmap)
    <3>1. IsFiniteSet(0 .. InodeCount - 1)
      BY WwfsAssumption, FS_Interval
    <3> QED BY <3>1, FS_Subset DEF IInv, Sized
  <2>3. IsFiniteSet(L1Uses) /\ L1Uses \subseteq inode_bitmap
    BY <2>2, FS_Subset DEF L1Uses
  <2>4. IsFiniteSet(Uses)
    <3>1. IsFiniteSet(0 .. MaxBlocks)
      BY WwfsAssumption, FS_Interval DEF MaxBlocks
    <3>2. IsFiniteSet(inode_bitmap \X (0 .. MaxBlocks))
      BY <2>2, <3>1, FS_Product
    <3> QED BY <3>2, FS_Subset DEF Uses
  <2>5. \A use \in Uses : /\ use[1] \in inode_bitmap /\ use[2] \in 0 .. Count(use[1]) - 1
                          /\ BlockOf(use) = Place(use[1], use[2]) /\ use = <<use[1], use[2]>>
    <3> TAKE use \in Uses
    <3>1. /\ use[1] \in inode_bitmap /\ use[2] \in 0 .. MaxBlocks /\ use[2] < Count(use[1])
          /\ use = <<use[1], use[2]>>
      BY DEF Uses, Count
    <3>2. Count(use[1]) \in Nat
      BY <3>1, OwnDisk
    <3>3. use[2] \in 0 .. Count(use[1]) - 1
      BY <3>1, <3>2
    <3> QED BY <3>1, <3>3 DEF BlockOf, Place
  <2>6. \A i \in L1Uses : Wide(Count(i))
    BY DEF L1Uses, Wide, Count
  <2>7. PICK f, g : f = [use \in Uses |-> BlockOf(use)] /\ g = [i \in L1Uses |-> inodes[i].block_l1]
    OBVIOUS
  <2>8. PICK P, Q : P = {f[use] : use \in Uses} /\ Q = {g[i] : i \in L1Uses}
    OBVIOUS
  <2>9. Owned = P \cup Q
    BY <2>7, <2>8 DEF Owned
  <2>10. IsFiniteSet(P) /\ Cardinality(P) = Cardinality(Uses)
    <3>1. ASSUME NEW u \in Uses, NEW v \in Uses, f[u] = f[v] PROVE u = v
      <4>1. Place(u[1], u[2]) = Place(v[1], v[2])
        BY <2>5, <2>7, <3>1
      <4>2. u[1] = v[1] /\ u[2] = v[2]
        BY <2>5, <4>1 DEF IInv, Apart
      <4> QED BY <2>5, <4>2
    <3>2. f = [use \in Uses |-> f[use]]
      BY <2>7
    <3> QED BY <2>4, <2>8, <3>1, <3>2, SameSize
  <2>11. IsFiniteSet(Q) /\ Cardinality(Q) = Cardinality(L1Uses)
    <3>1. ASSUME NEW i \in L1Uses, NEW j \in L1Uses, g[i] = g[j] PROVE i = j
      BY <2>3, <2>6, <2>7, <3>1 DEF IInv, Apart
    <3>2. g = [i \in L1Uses |-> g[i]]
      BY <2>7
    <3> QED BY <2>3, <2>8, <3>1, <3>2, SameSize
  <2>12. P \cap Q = {}
    <3>1. ASSUME NEW use \in Uses, NEW i \in L1Uses PROVE f[use] # g[i]
      <4>1. Place(use[1], use[2]) # inodes[i].block_l1
        BY <2>3, <2>5, <2>6 DEF IInv, Apart
      <4> QED BY <2>5, <2>7, <4>1
    <3> QED BY <2>8, <3>1
  <2>13. Cardinality(P \cup Q) = Cardinality(Uses) + Cardinality(L1Uses)
    <3>1. /\ Cardinality(P \cup Q) = Cardinality(P) + Cardinality(Q) - Cardinality(P \cap Q)
          /\ Cardinality(P \cap Q) = 0
      BY <2>10, <2>11, <2>12, FS_Union, FS_EmptySet
    <3>2. Cardinality(P) \in Nat /\ Cardinality(Q) \in Nat
      BY <2>10, <2>11, FS_CardinalityType
    <3> QED BY <2>10, <2>11, <3>1, <3>2
  <2> QED BY <2>1, <2>9, <2>13 DEF BlocksApart, IInv
<1> QED BY <1>1, Invariance, PTL

(***************************************************************************)
(* No step of resize_inode or of a write takes a block out of use and      *)
(* leaves it marked, but for the block_l1 of an inode that shrinks below   *)
(* Direct blocks.                                                          *)
(***************************************************************************)
THEOREM OnlyIndirectLeaksHolds == Spec => OnlyIndirectLeaks
<1> DEFINE Given == data_bitmap' \ Owned'
                      \subseteq (data_bitmap \ Owned)
                                  \cup {inodes[i].block_l1 : i \in L1Uses \ L1Uses'}
<1>1. ASSUME IInv, IInv', [Next]_vars PROVE [Given]_vars
  <2>1. ASSUME NEW c, NEW e, Changes(c, e) PROVE Given
    <3>1. c \in inode_bitmap /\ Update(c, e) /\ Stored(c, e) /\ Before(c, e)
      BY <1>1, <2>1, StoredBefore DEF Changes
    <3>2. PICK n : n = Blocks(e.inode.size)
      OBVIOUS
    <3>3. e.bitmap = Rest(c) \cup Leak(inodes[c], Count(c), n) \cup Mine(e, n, Wide(n))
      BY <3>1, <3>2 DEF Update, SoundDisk
    <3>4. \A i \in inode_bitmap' : Count(i)' \in Nat /\ Count(i)' <= MaxBlocks
      <4>1. \A s \in Nat : Blocks(s) \in Nat
        BY BlocksOf
      <4> QED BY <1>1, <4>1 DEF IInv, TypeOK, Sized, Count, Inode
    <3>5. ASSUME NEW i \in inode_bitmap', NEW k \in 0 .. Count(i)' - 1 PROVE Place(i, k)' \in Owned'
      <4>1. k \in 0 .. MaxBlocks /\ k < Count(i)'
        BY <3>4, WwfsAssumption DEF MaxBlocks
      <4>2. <<i, k>> \in Uses'
        BY <4>1 DEF Uses, Count
      <4>3. BlockOf(<<i, k>>)' = Place(i, k)'
        BY DEF BlockOf, Place
      <4> QED BY <4>2, <4>3 DEF Owned
    <3>6. ASSUME NEW i \in inode_bitmap', Wide(Count(i)') PROVE inodes'[i].block_l1 \in Owned'
      BY <3>6 DEF Owned, L1Uses, Wide, Count
    <3>7. c \in inode_bitmap' /\ inode_bitmap \subseteq inode_bitmap'
      BY <3>1 DEF Stored
    <3>8. Mine(e, n, Wide(n)) \subseteq Owned'
      <4>1. /\ \A k \in 0 .. n - 1 : At(e, k) \in Owned'
            /\ Wide(n) => e.inode.block_l1 \in Owned'
        BY <3>1, <3>2, <3>5, <3>6, <3>7 DEF Before
      <4> QED BY <4>1 DEF Mine
    <3>9. Leak(inodes[c], Count(c), n) \subseteq {inodes[i].block_l1 : i \in L1Uses \ L1Uses'}
      <4>1. Wide(Count(c)) /\ ~ Wide(n) => c \in L1Uses /\ c \notin L1Uses'
        BY <3>1, <3>2 DEF Before, Wide, L1Uses, Count
      <4> QED BY <4>1 DEF Leak
    <3>10. ASSUME NEW b \in Rest(c), b \in Owned PROVE b \in Owned'
      <4>1. PICK i \in inode_bitmap : \/ \E k \in 0 .. Count(i) - 1 : b = Place(i, k)
                                      \/ Wide(Count(i)) /\ b = inodes[i].block_l1
        BY <1>1, <3>10, Owners
      <4>2. i # c
        <5>1. PICK d : d = Disk(inodes[c])
          OBVIOUS
        <5>2. \A k : At(d, k) = Place(c, k) /\ d.inode.block_l1 = inodes[c].block_l1
          BY <5>1 DEF Disk, At, Place
        <5>3. b \notin Mine(d, Count(c), Wide(Count(c)))
          BY <5>1 DEF Rest
        <5> QED BY <4>1, <5>2, <5>3 DEF Mine
      <4>3. /\ Count(i)' = Count(i) /\ inodes'[i].block_l1 = inodes[i].block_l1
            /\ \A k \in 0 .. Count(i) - 1 : Place(i, k)' = Place(i, k)
        BY <3>1, <3>7, <4>1, <4>2 DEF Before
      <4> QED BY <3>5, <3>6, <3>7, <4>1, <4>3
    <3>11. data_bitmap' = e.bitmap /\ Rest(c) \subseteq data_bitmap
      BY <3>1 DEF Stored, Rest
    <3> QED BY <3>3, <3>8, <3>9, <3>10, <3>11
  <2> QED BY <1>1, <2>1, Steps
<1>2. ASSUME IInv, IInv', [Next]_vars
      PROVE  [data_bitmap' \ Owned'
                \subseteq (data_bitmap \ Owned)
                            \cup {inodes[i].block_l1 : i \in L1Uses \ L1Uses'}]_vars
  BY <1>1, <1>2
<1> QED BY <1>2, Invariance, PTL DEF Spec, OnlyIndirectLeaks
=============================================================================
