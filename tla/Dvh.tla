--------------------------------- MODULE Dvh ---------------------------------
(***************************************************************************)
(* The SGI volume header (libparted/labels/dvh.c).  The extended partition *)
(* is the volume header itself, its logical partitions are the boot files. *)
(* root, swap and boot are numbers kept with the disk, 0 when no partition *)
(* has the flag; a boot file is stored with the size it was asked for.     *)
(***************************************************************************)
EXTENDS LabelBase

CONSTANTS
  VolHdrSize,   \* PTYPE_VOLHDR_DFLTSZ, in sectors
  VolHdrNum,    \* PNUM_VOLHDR + 1
  VolumeNum,    \* PNUM_VOLUME + 1, the slot of the whole disk
  NVDir         \* NVDIR, the boot files the directory has room for

BootNumbers == TableSlots + 1 .. TableSlots + NVDir

New(part) ==
  [part EXCEPT !.sys = IF part.type = "extended" THEN "volhdr" ELSE "raw", !.aux = Length(part)]

VolumeHeader == New(PartitionAlloc("extended", VolHdrNum, 0, VolHdrSize - 1))

Alloc == RawAdd(EmptyDisk("dvh", [root |-> 0, swap |-> 0, boot |-> 0]), VolumeHeader)

\* The flags kept with the copy are what the memory held.
Duplicate(d) ==
  {[Alloc EXCEPT !.spec = spec] : spec \in [DOMAIN d.spec -> {0} \cup {p.num : p \in Parts(d)}]}

PartitionDuplicate(part) == part

SetSystem(part, fs) ==
  [part EXCEPT !.fs = fs,
     !.sys = CASE part.type = "extended" -> "volhdr"
               [] part.type = "logical" -> @
               [] OTHER -> IF fs = "xfs" THEN "xfs" ELSE "raw"]

Flags(d, part) == {"root", "swap", "boot"}

\* root and swap are for primary partitions, boot for boot files.
MayHold(part, flag) == IF flag = "boot" THEN part.type = "logical" ELSE part.type = "normal"

\* A flag that is cleared is cleared for whichever partition has it.
SetFlag(d, part, flag, state) ==
  IF state /\ ~MayHold(part, flag) THEN d
  ELSE [d EXCEPT !.spec[flag] = IF state THEN part.num ELSE 0]

GetFlag(d, part, flag) == d.spec[flag] = part.num

\* Only boot files have a name.
SetName(d, part, name) ==
  IF part.type = "logical" THEN Replace(d, part, [part EXCEPT !.name = name]) ELSE d

Internal(d, part) ==
  IF part.type = "extended" THEN <<NewFromMin([start |-> 0, end |-> 0])>>
  ELSE <<NewFromMax(GeometryInit(1, DevLength - 1))>>

\* Mutant: the flags of removed partitions stay behind.
KeepStaleFlags(d) == d

(***************************************************************************)
(* _flush_stale_flags: a flag whose partition is gone goes as well.        *)
(***************************************************************************)
FlushStaleFlags(d) ==
  [d EXCEPT !.spec = [flag \in DOMAIN @ |-> IF GetPartition(d, @[flag]) = NULL THEN 0 ELSE @[flag]]]

(***************************************************************************)
(* dvh_partition_enumerate.  A new volume header gets its number, but the  *)
(* call returns 0; a boot file the directory has no room for fails an      *)
(* assertion.                                                              *)
(***************************************************************************)
FreshNumber(d, part) ==
  CASE part.type = "logical"  -> LeastOr(UnusedNumbers(d, BootNumbers), AssertFails)
    [] part.type = "extended" -> NoNumber
    [] OTHER -> LeastOr(UnusedNumbers(d, (1 .. TableSlots) \ {VolumeNum}), NoNumber)

Enumerate(d, part) ==
  IF part.num # -1 THEN Did(d, part.num)
  ELSE Did(FlushStaleFlags(d), FreshNumber(d, part))

MaxPrimary(d) == TableSlots

Metadata(d) == {[start |-> 0, end |-> 0]}

Generate(part) == [type |-> part.sys, first |-> part.start, blocks |-> Length(part)]

GenerateBootFile(part) == [name |-> part.name, first |-> part.start, size |-> part.aux]

WholeDisk == [type |-> "volume", first |-> 0, blocks |-> DevLength]

NameOf(part) == IF part = NULL THEN "" ELSE part.name

VolumeHeaderOf(d) ==
  [label |-> "dvh", rootpt |-> d.spec.root - 1, swappt |-> d.spec.swap - 1,
   bootfile |-> IF d.spec.boot = 0 THEN "" ELSE NameOf(GetPartition(d, d.spec.boot)),
   slots |-> [SlotTable(d, TableSlots, Generate, NULL) EXCEPT ![VolumeNum] = WholeDisk],
   dir |-> [i \in 1 .. NVDir |-> LET part == GetPartition(d, TableSlots + i)
                                 IN  IF part = NULL THEN NULL ELSE GenerateBootFile(part)]]

Write(d, raw) == VolumeHeaderOf(FlushStaleFlags(d))

\* A slot of type 0 is the volume header.
Parse(i, slot) ==
  [New(PartitionAlloc(IF slot.type = "volhdr" THEN "extended" ELSE "normal", i,
                      slot.first, slot.first + slot.blocks - 1)) EXCEPT !.sys = slot.type]

ParseBootFile(i, file) ==
  [New(PartitionAlloc("logical", TableSlots + i, file.first, file.first + file.size - 1))
     EXCEPT !.aux = file.size, !.name = file.name]

\* Of several boot files with the name the last one is marked.
BootOf(raw) ==
  LET named == {i \in 1 .. NVDir : raw.dir[i] # NULL /\ raw.dir[i].size # 0
                                   /\ raw.dir[i].name = raw.bootfile}
  IN  IF named = {} THEN 0
      ELSE TableSlots + (CHOOSE i \in named : \A j \in named : j <= i)

IsPartition(slot) == slot # NULL /\ slot.type # "volume"

\* vh_rootpt and vh_swappt are slot indices from 0.
HolderOf(raw, index) ==
  IF /\ index + 1 \in 1 .. TableSlots
     /\ IsPartition(raw.slots[index + 1]) /\ raw.slots[index + 1].type # "volhdr"
  THEN index + 1 ELSE 0

(***************************************************************************)
(* dvh_read.  A missing volume header is made and the table written back,  *)
(* unless the user cancels; fix is the answer.                             *)
(***************************************************************************)
HasHeader(raw) == \E i \in 1 .. TableSlots : raw.slots[i] # NULL /\ raw.slots[i].type = "volhdr"

Entries(raw, fix) ==
  LET spec  == [root |-> HolderOf(raw, raw.rootpt), swap |-> HolderOf(raw, raw.swappt),
                boot |-> BootOf(raw)]
      parts == LoadSlots(raw.slots, IsPartition, LAMBDA i : Parse(i, raw.slots[i]))
      files == LoadSlots(raw.dir, LAMBDA f : f # NULL /\ f.size # 0,
                         LAMBDA i : ParseBootFile(i, raw.dir[i]))
  IN  IF HasHeader(raw) THEN ReadOK(spec, Under("exact", parts \o files))
      ELSE IF ~fix THEN ReadFails
      ELSE ReadOK(spec, Under("exact", parts) \o Under("any", <<VolumeHeader>>)
                        \o Under("exact", files))

WritesBack(raw) == ~HasHeader(raw)
=============================================================================
