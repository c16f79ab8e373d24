-------------------------------- MODULE Dasd --------------------------------
(***************************************************************************)
(* The labels of IBM DASD volumes (libparted/labels/dasd.c and fdasd.c).   *)
(* A volume in the compatible layout (CDL) has a table of contents with up *)
(* to three data sets, partitions of whole tracks, which are numbered by   *)
(* their place when it is read.  A volume in the Linux layout (LDL) has    *)
(* one implicit partition and is never written.                            *)
(***************************************************************************)
EXTENDS Vtoc

CONSTANTS
  UsablePartitions,   \* USABLE_PARTITIONS
  BigVolume           \* whether the volume has more than BIG_DISK_SIZE tracks

FirstUsableTrk == 2   \* FIRST_USABLE_TRK

Alloc == EmptyDisk("dasd", [format |-> "cdl"])

New(part) == [part EXCEPT !.sys = "linux"]

\* A copy keeps the data of the disk and of each partition.
Duplicate(d) == {[Alloc EXCEPT !.spec = d.spec]}

PartitionDuplicate(part) == part

Flags(d, part) == IF d.spec.format = "ldl" THEN {} ELSE {"raid", "lvm", "swap"}

\* A swap file system is a system of its own.
SetSystem(part, fs) == [part EXCEPT !.fs = fs, !.sys = IF IsSwap(fs) THEN "swap" ELSE "linux"]

\* Clearing a flag leaves it set when the file system asks for it.
SetFlag(d, part, flag, state) ==
  Replace(d, part, IF state THEN [part EXCEPT !.sys = flag]
                   ELSE IF part.sys = flag THEN SetSystem(part, part.fs) ELSE part)

GetFlag(d, part, flag) == part.sys = flag

\* The range starts after the table of contents; its length is the device's.
Internal(d, part) ==
  IF d.spec.format = "ldl" THEN <<ConstraintAny>>
  ELSE <<OnGrid(AlignmentInit(0, SecsPerTrack), AlignmentInit(-1, SecsPerTrack),
                GeometryInit(FirstUsableTrk * SecsPerTrack, DevLength))>>

Enumerate(d, part) == Did(d, KeepOrLowest(d, part, 1 .. UsablePartitions))

MaxPrimary(d) == IF d.spec.format = "ldl" THEN 1 ELSE UsablePartitions

\* On an LDL volume: what is before and what is after the partition.
Metadata(d) ==
  IF d.spec.format = "cdl" THEN {[start |-> 0, end |-> FirstUsableTrk * SecsPerTrack - 1]}
  ELSE UNION {{[start |-> 0, end |-> p.start - 1]}
              \cup (IF p.end < DevLength - 1 THEN {[start |-> p.end + 1, end |-> DevLength - 1]} ELSE {})
              : p \in {q \in Elements(d.prim) : q.num = 1}}

(***************************************************************************)
(* dasd_write: a new table of contents to which the partitions are added   *)
(* in the order of their numbers.  fdasd_enqueue_new_partition keeps the   *)
(* data sets in the order of their tracks, and each new one is taken out   *)
(* of the free space; the data set names are given out in that order.      *)
(***************************************************************************)
DataSet(part) ==
  [start |-> part.start \div SecsPerTrack, stop |-> (part.end + 1) \div SecsPerTrack - 1,
   type |-> part.sys]

LastTrack == Cylinders * Heads - 1

\* fdasd_recreate_vtoc.
RecreateVtoc == [sets |-> <<>>, free |-> FreeAll(BigVolume, FirstUsableTrk, LastTrack)]

\* fdasd_get_partition_data: a start inside a data set moves behind it.
PlaceOf(sets, new) ==
  LET moved[i \in 0 .. Len(sets)] ==
        IF i = 0 THEN new.start
        ELSE IF moved[i - 1] \in sets[i].start .. sets[i].stop THEN sets[i].stop + 1
        ELSE moved[i - 1]
  IN  [new EXCEPT !.start = moved[Len(sets)]]

Enqueue(sets, new) ==
  LET k == FirstIndex(sets, LAMBDA s : new.start < s.start)
  IN  SubSeq(sets, 1, k - 1) \o <<new>> \o SubSeq(sets, k, Len(sets))

AddPlaced(vtoc, new) ==
  [sets |-> Enqueue(vtoc.sets, new), free |-> Use(BigVolume, vtoc.free, new.start, new.stop)]

\* fdasd_add_partition.
AddPartition(vtoc, part) == AddPlaced(vtoc, PlaceOf(vtoc.sets, DataSet(part)))

NewVtoc(d) ==
  LET vtoc[n \in 0 .. UsablePartitions] ==
        IF n = 0 THEN RecreateVtoc
        ELSE LET part == GetPartition(d, n)
             IN  IF part = NULL THEN vtoc[n - 1] ELSE AddPartition(vtoc[n - 1], part)
  IN  vtoc[UsablePartitions]

WriteVtoc(vtoc) ==
  IF vtoc.free = NULL THEN NULL
  ELSE [label |-> "dasd", format |-> "cdl", sets |-> vtoc.sets, free |-> vtoc.free]

\* An LDL volume is left as it is, and the write counts as done.
Write(d, raw) == IF d.spec.format = "ldl" THEN raw ELSE WriteVtoc(NewVtoc(d))

(***************************************************************************)
(* dasd_read.  The data sets are numbered in order; only the types raid,   *)
(* lvm and swap are told apart.  The free space after each is added as a   *)
(* placeholder, which the next update drops.                               *)
(***************************************************************************)
Load(i, set) ==
  [PartitionAlloc("normal", i, set.start * SecsPerTrack, (set.stop + 1) * SecsPerTrack - 1)
     EXCEPT !.sys = IF set.type \in {"raid", "lvm", "swap"} THEN set.type ELSE NULL]

\* The implicit partition of an LDL volume, placed without a constraint.
Implicit(raw) == PartitionAlloc("normal", 1, raw.start, raw.end)

Entries(raw) ==
  IF raw.format = "ldl" THEN ReadOK([format |-> "ldl"], Under("exact", <<Implicit(raw)>>))
  ELSE ReadOK([format |-> "cdl"],
              Under("exact", [i \in 1 .. Len(raw.sets) |-> Load(i, raw.sets[i])]))

\* The tracks no data set holds.
UnusedTracks(raw) ==
  {t \in FirstUsableTrk .. LastTrack :
     \A i \in 1 .. Len(raw.sets) : t \notin raw.sets[i].start .. raw.sets[i].stop}
=============================================================================
