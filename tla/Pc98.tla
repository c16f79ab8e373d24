-------------------------------- MODULE Pc98 --------------------------------
(***************************************************************************)
(* The PC-98 label (libparted/labels/pc98.c): sixteen slots that hold the  *)
(* ends of a partition as cylinder, head and sector; partitions are whole  *)
(* cylinders and the first cylinder belongs to the label.  The type is     *)
(* kept without its boot and hidden bits, which are the flags.             *)
(***************************************************************************)
EXTENDS LabelBase

CONSTANT BigFat16   \* sectors from which fat16 has a type of its own (32 MiB)

Alloc == EmptyDisk("pc98", NULL)

\* The type is left uninitialised; every caller sets the system next.
New(part) == part

\* A copy keeps the data of the disk and of each partition.
Duplicate(d) == {[Alloc EXCEPT !.spec = d.spec]}

PartitionDuplicate(part) == part

SystemOf(part, fs) ==
  CASE fs = "fat16" -> IF Length(part) >= BigFat16 THEN "0x2021" ELSE "0x2011"
    [] fs = "fat32" -> "0x2061"
    [] fs = "ntfs"  -> "0x2031"
    [] fs = "ufs"   -> "0x2044"
    [] OTHER        -> "0x2062"

\* Any other file system must be marked boot.
MarkedBoot(fs) == fs \notin {NULL, "fat16", "fat32", "ntfs", "ufs"}

SetSystem(part, fs) ==
  [part EXCEPT !.fs = fs, !.sys = SystemOf(part, fs),
               !.flags = IF MarkedBoot(fs) THEN @ \cup {"boot"} ELSE @]

Flags(d, part) == {"hidden", "boot"}

SetFlag(d, part, flag, state) ==
  LET flags == IF state THEN part.flags \cup {flag} ELSE part.flags \ {flag}
  IN  Replace(d, part, SetSystem([part EXCEPT !.flags = flags], part.fs))

GetFlag(d, part, flag) == flag \in part.flags

\* strncpy and the trailing blanks cut off.
SetName(d, part, name) == Replace(d, part, [part EXCEPT !.name = name])

Internal(d, part) ==
  <<OnGrid(AlignmentInit(0, CylSize), AlignmentInit(-1, CylSize),
           GeometryInit(CylSize, DevLength - CylSize))>>

Enumerate(d, part) == Did(d, KeepOrLowest(d, part, 1 .. TableSlots))

MaxPrimary(d) == TableSlots

Metadata(d) == {[start |-> 0, end |-> CylSize - 1]}

Chs(sector) ==
  [c |-> sector \div CylSize, h |-> (sector % CylSize) \div SecsPerTrack,
   s |-> (sector % CylSize) % SecsPerTrack]

ChsToSector(chs) == (chs.c * Heads + chs.h) * SecsPerTrack + chs.s

LastOfCylinder(c) == [c |-> c, h |-> Heads - 1, s |-> SecsPerTrack - 1]

\* fill_raw_part: the end is stored as a cylinder with head and sector 0.
Store(part) ==
  [sys |-> part.sys, boot |-> "boot" \in part.flags, hidden |-> "hidden" \in part.flags,
   name |-> IF part.name = "" /\ part.fs # NULL THEN part.fs ELSE part.name,
   start |-> Chs(part.start),
   ipl |-> IF part.aux # 0 THEN Chs(part.aux) ELSE Chs(part.start),
   end |-> [c |-> Chs(part.end).c, h |-> 0, s |-> 0]]

EndsCylinder(part) == Chs(part.end) = LastOfCylinder(Chs(part.end).c)

Write(d, raw) ==
  IF \A part \in Elements(d.prim) : EndsCylinder(part)
  THEN [label |-> "pc98", slots |-> SlotTable(d, TableSlots, Store, NULL)]
  ELSE NULL

LegacyEnd(end) == ChsToSector(IF end.h = 0 /\ end.s = 0 THEN LastOfCylinder(end.c) ELSE end)

BootSector(slot) ==
  IF slot.ipl = slot.start THEN 0 ELSE ChsToSector(slot.ipl)

Load(i, slot) ==
  [PartitionAlloc("normal", i, ChsToSector(slot.start), LegacyEnd(slot.end))
     EXCEPT !.sys = slot.sys, !.name = slot.name, !.aux = BootSector(slot),
            !.flags = (IF slot.boot THEN {"boot"} ELSE {})
                      \cup (IF slot.hidden THEN {"hidden"} ELSE {})]

\* Any constraint, but a partition that had to move is an error.
Entries(raw) ==
  ReadOK(NULL, Under("unmoved",
    LoadSlots(raw.slots, LAMBDA s : s # NULL, LAMBDA i : Load(i, raw.slots[i]))))
=============================================================================
