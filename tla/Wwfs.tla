-------------------------------- MODULE Wwfs --------------------------------
(***************************************************************************)
(* The file system in memory, libwwos/wwfs.cc: two bitmaps, a table of     *)
(* inodes, and data blocks, some of which hold the numbers of others.      *)
(* The kernel calls it with interrupts off, so an operation is one step.   *)
(*                                                                         *)
(* Data is counted in cells of 8 bytes: the unit to which create rounds    *)
(* names, and the size of a block number.  A name is a sequence of cells   *)
(* of which the last, and only that one, holds the 0 that ends it.         *)
(***************************************************************************)
EXTENDS Integers, FiniteSets, SequencesExt

CONSTANTS
  BlockSize,     \* cells in a block
  BlockCount,    \* meta.block_count
  InodeCount,    \* meta.inode_count
  InodeBits,     \* bits in the blocks of the inode bitmap
  Direct,        \* length of inode::blocks_l0
  Cell,          \* what a cell of a name or a text can hold
  Final,         \* the cells that end a name
  Name,
  Text,          \* what is written at once
  Type,          \* types of inodes that are created
  MaxInodes      \* bound: how many inodes are allocated, none beyond the table

ASSUME WwfsAssumption ==
  /\ BlockSize \in Nat \ {0} /\ BlockCount \in Nat /\ Direct \in Nat \ {0}
  /\ InodeCount \in Nat \ {0} /\ InodeBits \in Nat /\ InodeBits > InodeCount
  /\ Final \subseteq Cell /\ Name \cup Text \subseteq Seq(Cell)
  /\ \A name \in Name : \A k \in DOMAIN name : name[k] \in Final <=> k = Len(name)
  /\ \A text \in Text : text # << >>
  /\ Type \subseteq {"DIRECTORY", "FILE", "FIFO"}
  /\ MaxInodes \in 1 .. InodeCount

Block == 0 .. BlockCount - 1

Root == 0

VARIABLES
  inode_bitmap,  \* the inodes whose bit is set
  data_bitmap,   \* the blocks whose bit is set
  inodes,
  data,          \* the data blocks
  halted         \* an assertion has failed, and the system has stopped

vars == <<inode_bitmap, data_bitmap, inodes, data, halted>>

Inode == [type : {"DIRECTORY", "FILE", "FIFO"}, size : Nat,
          blocks_l0 : [0 .. Direct - 1 -> Nat], block_l1 : Nat]

TypeOK ==
  /\ inode_bitmap \subseteq 0 .. InodeBits - 1
  /\ data_bitmap \subseteq Block
  /\ inodes \in [0 .. InodeCount - 1 -> Inode]
  /\ data \in [Block -> [0 .. BlockSize - 1 -> Cell \cup Nat]]
  /\ halted \in BOOLEAN

-----------------------------------------------------------------------------
(* The blocks of an inode.                                                 *)

Blocks(size) == (size + BlockSize - 1) \div BlockSize

\* How many blocks an inode can have before "Invalid index".
MaxBlocks == Direct + BlockSize

\* get_blockid_of_inode
BlockId(blocks, inode, index) ==
  IF index < Direct THEN inode.blocks_l0[index]
                    ELSE blocks[inode.block_l1][index - Direct]

(***************************************************************************)
(* What resize_inode works on: the bitmap, the data and its copy of the    *)
(* inode.                                                                  *)
(***************************************************************************)
Disk(inode) == [bitmap |-> data_bitmap, data |-> data, inode |-> inode]

\* allocate_block
FreeBlock(disk) == CHOOSE b \in Block \ disk.bitmap :
                     \A c \in Block \ disk.bitmap : b <= c

\* Mutant: the bitmap is not written back.
AddBlockUnmarked(disk, index) ==
  IF index < Direct
  THEN [disk EXCEPT !.inode.blocks_l0[index] = FreeBlock(disk)]
  ELSE [disk EXCEPT !.data[disk.inode.block_l1][index - Direct] = FreeBlock(disk)]

\* set_blockid_of_inode, with a block allocated for it
AddBlock(disk, index) ==
  LET block == FreeBlock(disk)
      marked == [disk EXCEPT !.bitmap = @ \cup {block}]
  IN  IF index < Direct
      THEN [marked EXCEPT !.inode.blocks_l0[index] = block]
      ELSE [marked EXCEPT !.data[disk.inode.block_l1][index - Direct] = block]

AddIndirect(disk) ==
  LET block == FreeBlock(disk)
  IN  [disk EXCEPT !.bitmap = @ \cup {block}, !.inode.block_l1 = block]

\* Mutant: an inode that has all its direct blocks gets a second block_l1.
CrossesTwice(old, new) == old <= Direct /\ new >= Direct

Crosses(old, new) == old < Direct /\ new >= Direct

Grow(disk, old, new) ==
  FoldLeft(AddBlock, IF Crosses(old, new) THEN AddIndirect(disk) ELSE disk,
           [k \in 1 .. new - old |-> old + k - 1])

\* The blocks are given back, but not block_l1.
Shrink(disk, old, new) ==
  [disk EXCEPT !.bitmap =
     @ \ {BlockId(disk.data, disk.inode, i) : i \in new .. old - 1}]

\* Mutant: the inode is not stored when it keeps its number of blocks.
ResizeWithoutStore(inode, size) ==
  LET old == Blocks(inode.size)
      new == Blocks(size)
      disk == Disk([inode EXCEPT !.size = size])
  IN  CASE old = new -> Disk(inode)
        [] old < new -> Grow(disk, old, new)
        [] old > new -> Shrink(disk, old, new)

Resize(inode, size) ==
  LET old == Blocks(inode.size)
      new == Blocks(size)
      disk == Disk([inode EXCEPT !.size = size])
  IN  CASE old = new -> disk
        [] old < new -> Grow(disk, old, new)
        [] old > new -> Shrink(disk, old, new)

(***************************************************************************)
(* Growing fails beyond MaxBlocks ("Invalid index") and for want of blocks.*)
(* The latter is not noticed by resize_inode, for the number that allocate *)
(* returns is unsigned and the bitmap has bits for blocks that the disk    *)
(* does not have; but the last one is then such a block, and it is written *)
(* to in the same operation ("Invalid block").                             *)
(***************************************************************************)
Fails(inode, size) ==
  LET old == Blocks(inode.size)
      new == Blocks(size)
      wanted == new - old + (IF Crosses(old, new) THEN 1 ELSE 0)
  IN  old < new /\ (new > MaxBlocks \/ wanted > Cardinality(Block \ data_bitmap))

-----------------------------------------------------------------------------
(* Reading and writing: rw_inode_data_unaligned                            *)

Read(blocks, inode, offset, size) ==
  [k \in 1 .. size |->
     LET at == offset + k - 1
     IN  blocks[BlockId(blocks, inode, at \div BlockSize)][at % BlockSize]]

\* The part of the text that falls into the block that begins at `begin'.
WriteBlock(block, begin, offset, text) ==
  [c \in 0 .. BlockSize - 1 |->
     IF begin + c \in offset .. offset + Len(text) - 1
     THEN text[begin + c - offset + 1]
     ELSE block[c]]

Write(disk, offset, text) ==
  LET first == offset \div BlockSize
      last == (offset + Len(text) - 1) \div BlockSize
      step(d, index) ==
        [d EXCEPT !.data[BlockId(d.data, d.inode, index)] =
                    WriteBlock(@, index * BlockSize, offset, text)]
  IN  FoldLeft(step, disk, [k \in 1 .. last - first + 1 |-> first + k - 1])

(***************************************************************************)
(* get_children: a name runs to the first 0, and is followed by the number *)
(* of its inode.                                                           *)
(***************************************************************************)
Entries(cells) ==
  LET NameEnd(i) == CHOOSE j \in i .. Len(cells) :
                      /\ cells[j] \in Final
                      /\ \A k \in i .. j - 1 : cells[k] \notin Final
      from[i \in 1 .. Len(cells) + 1] ==
        IF i > Len(cells) THEN << >>
        ELSE LET e == NameEnd(i)
             IN  <<[name |-> SubSeq(cells, i, e), inode |-> cells[e + 1]]>>
                   \o from[e + 2]
  IN  from[1]

Content(i) == Read(data, inodes[i], 0, inodes[i].size)

Children(dir) == Entries(Content(dir))
-----------------------------------------------------------------------------
(* format, and what tools/wwfs writes into a new image                     *)
Init ==
  /\ inode_bitmap = {Root}
  /\ data_bitmap = {}
  /\ inodes = [i \in 0 .. InodeCount - 1 |->
                 [type |-> "DIRECTORY", size |-> 0,
                  blocks_l0 |-> [k \in 0 .. Direct - 1 |-> 0], block_l1 |-> 0]]
  /\ data = [b \in Block |-> [c \in 0 .. BlockSize - 1 |-> 0]]
  /\ halted = FALSE

(***************************************************************************)
(* allocate_inode.  It scans all the bits, also those that no inode has:   *)
(* after InodeCount calls it returns a number beyond the table, whose      *)
(* record would be written over a data block.  MaxInodes excludes that.    *)
(***************************************************************************)
FreeInode == CHOOSE i \in 0 .. InodeBits - 1 \ inode_bitmap :
               \A j \in 0 .. InodeBits - 1 \ inode_bitmap : i <= j

(***************************************************************************)
(* create.  The entry is written behind the others, after the inode.  A    *)
(* name that exists already is refused, and nothing changes.               *)
(***************************************************************************)
Create(dir, name, type) ==
  LET new == FreeInode
      size == inodes[dir].size
      entry == Append(name, new)
      disk == Write(Resize(inodes[dir], size + Len(entry)), size, entry)
  IN  /\ ~halted
      /\ inodes[dir].type = "DIRECTORY"
      /\ name \notin {Children(dir)[e].name : e \in DOMAIN Children(dir)}
      /\ Cardinality(inode_bitmap) < MaxInodes
      /\ inode_bitmap' = inode_bitmap \cup {new}
      /\ IF Fails(inodes[dir], size + Len(entry))
         THEN halted' = TRUE /\ UNCHANGED <<data_bitmap, inodes, data>>
         ELSE /\ inodes' = [inodes EXCEPT ![new].type = type, ![new].size = 0,
                                          ![dir] = disk.inode]
              /\ data_bitmap' = disk.bitmap
              /\ data' = disk.data
              /\ UNCHANGED halted

\* write_data, at an offset that may lie beyond the end
WriteData(file, offset, text) ==
  LET grown == offset + Len(text) > inodes[file].size
      resized == IF grown THEN Resize(inodes[file], offset + Len(text))
                          ELSE Disk(inodes[file])
      disk == Write(resized, offset, text)
  IN  /\ ~halted
      /\ inodes[file].type = "FILE"
      /\ IF grown /\ Fails(inodes[file], offset + Len(text))
         THEN halted' = TRUE /\ UNCHANGED <<data_bitmap, inodes, data>>
         ELSE /\ inodes' = [inodes EXCEPT ![file] = disk.inode]
              /\ data_bitmap' = disk.bitmap
              /\ data' = disk.data
              /\ UNCHANGED halted
      /\ UNCHANGED inode_bitmap

\* resize_inode(file, 0), when the kernel opens a file for writing
Truncate(file) ==
  LET disk == Resize(inodes[file], 0)
  IN  /\ ~halted
      /\ inodes[file].type = "FILE"
      /\ inodes' = [inodes EXCEPT ![file] = disk.inode]
      /\ data_bitmap' = disk.bitmap
      /\ UNCHANGED <<inode_bitmap, data, halted>>

MaxSize == MaxBlocks * BlockSize

\* A write may begin one cell beyond the end, which leaves a gap.
Next ==
  \E i \in inode_bitmap :
    \/ \E name \in Name, type \in Type : Create(i, name, type)
    \/ \E offset \in 0 .. inodes[i].size + 1, text \in Text :
         WriteData(i, offset, text)
    \/ Truncate(i)

Spec == Init /\ [][Next]_vars

-----------------------------------------------------------------------------
(* Properties                                                              *)

\* Where the inodes in use keep a block: <<inode, index>>, and "l1" for block_l1.
Uses == {use \in inode_bitmap \X (0 .. MaxBlocks) :
           use[2] < Blocks(inodes[use[1]].size)}

L1Uses == {i \in inode_bitmap : Blocks(inodes[i].size) >= Direct}

BlockOf(use) == BlockId(data, inodes[use[1]], use[2])

Owned == {BlockOf(use) : use \in Uses} \cup {inodes[i].block_l1 : i \in L1Uses}

(***************************************************************************)
(* No block has two uses.  The blocks that the inodes refer to, directly   *)
(* or by way of block_l1, and the blocks block_l1 themselves, are          *)
(* different from each other, exist, and are marked in the bitmap.         *)
(***************************************************************************)
BlocksApart ==
  /\ TypeOK
  /\ Owned \subseteq data_bitmap
  /\ Cardinality(Owned) = Cardinality(Uses) + Cardinality(L1Uses)

(***************************************************************************)
(* Blocks leak in one way only: the block_l1 of a file that shrinks below  *)
(* Direct blocks stays marked.  Every other block that is marked is in     *)
(* use, and a block that is given back can be allocated again.             *)
(***************************************************************************)
OnlyIndirectLeaks ==
  [][data_bitmap' \ Owned'
       \subseteq (data_bitmap \ Owned)
                   \cup {inodes[i].block_l1 : i \in L1Uses \ L1Uses'}]_vars

(***************************************************************************)
(* The blocks, with all their sharing of one bitmap and their leftover     *)
(* contents, implement a tree of files.                                    *)
(***************************************************************************)
Directories == {i \in inode_bitmap : inodes[i].type = "DIRECTORY"}

Named == {Root} \cup UNION {{Children(dir)[e].inode : e \in DOMAIN Children(dir)} :
                               dir \in Directories}

Tree == INSTANCE Files WITH
  Id <- 0 .. InodeCount - 1,
  files <- [i \in Named |->
              [type |-> inodes[i].type,
               content |-> IF i \in Directories THEN Children(i) ELSE Content(i)]]

ImplementsFiles == Tree!Spec
=============================================================================
