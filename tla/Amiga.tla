-------------------------------- MODULE Amiga --------------------------------
(***************************************************************************)
(* The Amiga rigid disk block (libparted/labels/rdb.c): the partitions are *)
(* a linked list of blocks, one each, in the reserved area at the start of *)
(* the disk, which bad-block, boot and file-system lists share.  Numbers   *)
(* are not stored: read numbers the list.                                  *)
(***************************************************************************)
EXTENDS LabelBase

CONSTANT MaxRdbBlock   \* MAX_RDB_BLOCK: the last sector of the reserved area

LinkEnd == -1

Alloc == EmptyDisk("amiga", NULL)

New(part) == [part EXCEPT !.sys = "LNX0", !.name = "dhx"]

Duplicate(d) == {[Alloc EXCEPT !.spec = d.spec]}

\* The number is not copied.
PartitionDuplicate(part) == [part EXCEPT !.num = NoNumber]

SetSystem(part, fs) ==
  [part EXCEPT !.fs = fs,
     !.sys = CASE fs \in {NULL, "ext2"} -> "LNX0"
               [] IsSwap(fs) -> "SWP0"
               [] fs = "fat16" -> "FAT0"
               [] fs = "fat32" -> "FAT1"
               [] fs \in {"ext3", "hfs", "jfs", "ntfs", "reiserfs", "sun-ufs", "hp-ufs", "xfs"} -> fs
               [] OTHER -> "unknown"]

Flags(d, part) == {"boot", "hidden", "raid", "lvm"}

SetFlag(d, part, flag, state) ==
  Replace(d, part, [part EXCEPT !.flags = IF state THEN @ \cup {flag} ELSE @ \ {flag}])

GetFlag(d, part, flag) == flag \in part.flags

SetName(d, part, name) == Replace(d, part, [part EXCEPT !.name = name])

Internal(d, part) ==
  <<OnGrid(AlignmentInit(0, CylSize), AlignmentInit(-1, CylSize),
           GeometryInit(MaxRdbBlock + 1, DevLength - MaxRdbBlock - 1))>>

Enumerate(d, part) == Did(d, KeepOrLowest(d, part, 1 .. TableSlots))

MaxPrimary(d) == TableSlots

Metadata(d) == {[start |-> 0, end |-> MaxRdbBlock]}

\* The last block of the cylinder the reserved area ends in (amiga_alloc).
HighestBlock == (1 + MaxRdbBlock \div CylSize) * CylSize - 1

\* An RDB with no lists, at the block a new one is written to.
FreshRdb == [at |-> 2, list |-> LinkEnd, high |-> 0, taken |-> {}]

\* _amiga_find_rdb: a label that is not on the disk yet is a fresh one.
FindRdb(raw) == IF raw = NULL \/ raw.label # "amiga" THEN FreshRdb ELSE raw.rdb

OldBlocks(raw) ==
  IF raw = NULL \/ raw.label # "amiga"
  THEN [b \in 0 .. HighestBlock + 1 |-> NULL] ELSE raw.blocks

\* The blocks of a partition list, by their numbers.
BlocksOf(rdb, blocks) ==
  LET chain[k \in 0 .. TableSlots] ==
        IF k = 0 THEN <<>>
        ELSE LET sofar == chain[k - 1]
                 next  == IF sofar = <<>> THEN rdb.list ELSE blocks[sofar[Len(sofar)]].next
             IN  IF next = LinkEnd \/ Len(sofar) < k - 1 THEN sofar ELSE Append(sofar, next)
  IN  chain[TableSlots]

(***************************************************************************)
(* _amiga_find_free_blocks over the four lists: after the RDB, every block *)
(* no other list holds may hold a partition.                               *)
(***************************************************************************)
FreeBlocks(rdb) == {b \in rdb.at + 1 .. HighestBlock + 1 : b \notin rdb.taken}

NextFreeBlock(free, from) == LeastOr({b \in free : b >= from}, HighestBlock + 2)

\* The blocks of n partitions and of one more, which no partition uses.
Chosen(free, n) ==
  LET chosen[k \in 0 .. n] ==
        IF k = 0 THEN <<NextFreeBlock(free, 0)>>
        ELSE Append(chosen[k - 1], NextFreeBlock(free, chosen[k - 1][k] + 1))
  IN  chosen[n]

Block(part, next) ==
  [low |-> part.start \div CylSize, high |-> (part.end + 1) \div CylSize - 1,
   dos |-> part.sys, flags |-> part.flags, name |-> part.name, next |-> next]

(***************************************************************************)
(* amiga_write: a block for each partition in the order of the disk, then  *)
(* the RDB.                                                                *)
(***************************************************************************)
WriteBlocks(parts, rdb, blocks, at) ==
  LET n == Len(parts)
  IN  [label |-> "amiga",
       blocks |-> [b \in DOMAIN blocks |->
         IF \E i \in 1 .. n : at[i] = b
         THEN LET i == CHOOSE j \in 1 .. n : at[j] = b
              IN  Block(parts[i], IF i = n THEN LinkEnd ELSE at[i + 1])
         ELSE blocks[b]],
       rdb |-> [rdb EXCEPT !.list = IF n = 0 THEN LinkEnd ELSE at[1],
                           !.high = IF at[n + 1] > @ THEN at[n + 1] ELSE @]]

WriteFound(d, rdb, blocks) ==
  WriteBlocks(d.prim, rdb, blocks, Chosen(FreeBlocks(rdb), Len(d.prim)))

Write(d, raw) == WriteFound(d, FindRdb(raw), OldBlocks(raw))

Load(i, block) ==
  [New(PartitionAlloc("normal", i, block.low * CylSize, (block.high + 1) * CylSize - 1))
     EXCEPT !.sys = block.dos, !.flags = block.flags, !.name = block.name]

(***************************************************************************)
(* amiga_read: the list in order, numbered from 1 and read up to number    *)
(* AMIGA_MAX_PARTITIONS - 1.                                               *)
(***************************************************************************)
Entries(raw) ==
  LET list == BlocksOf(raw.rdb, raw.blocks)
      n    == PedMin(Len(list), TableSlots - 1)
  IN  ReadOK(NULL, Under("exact", [i \in 1 .. n |-> Load(i, raw.blocks[list[i]])]))
=============================================================================
