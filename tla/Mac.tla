--------------------------------- MODULE Mac ---------------------------------
(***************************************************************************)
(* The Apple partition map (libparted/labels/mac.c).  The map is itself a  *)
(* partition; it holds an entry for every partition and for every stretch  *)
(* of free space.  Flags are names and types of entries, and the drivers   *)
(* listed in block 0 are matched to partitions by their place.             *)
(***************************************************************************)
EXTENDS LabelBase

CONSTANT MapSize   \* the map's size is a multiple of this: 64

GhostSize == 1     \* ghost_size of a map written with 512-byte blocks

(***************************************************************************)
(* The disk data: the number of the map's own partition (0 for none), the  *)
(* entries the map has room for, the entries that free space takes, the    *)
(* last entry number, and the drivers block 0 named.                       *)
(***************************************************************************)
FreshSpec == [map |-> 0, count |-> 0, free |-> 1, last |-> 1, drivers |-> {}]

New(part) == [part EXCEPT !.sys = "", !.name = "untitled"]

\* _disk_add_part_map_entry: the partition it adds, anywhere there is room.
MapEntry(spec) ==
  [New(PartitionAlloc("normal", -1, 1, PedMax(RoundUpTo(spec.last, MapSize), MapSize) - 1))
     EXCEPT !.sys = "Apple_partition_map", !.name = "Apple"]

NoteMap(d, part) ==
  [d EXCEPT !.spec.map = part.num, !.spec.count = part.end - GhostSize]

\* The map's own partition has been read; its room is one entry more.
Loaded(d, part) ==
  IF part.sys = "Apple_partition_map"
  THEN [d EXCEPT !.spec.map = part.num, !.spec.count = part.end - GhostSize + 1] ELSE d

IsDriver(part) == part.sys = "Apple_Driver"

\* The type a file system and the flags kept so far ask for.
SystemName(part, fs) ==
  CASE "boot" \in part.flags -> "Apple_Bootstrap"
    [] fs \in {"hfs", "hfs+"} -> "Apple_HFS"
    [] fs = "hfsx" -> "Apple_HFSX"
    [] OTHER -> "Apple_UNIX_SVR2"

MarkSwap(part) ==
  [part EXCEPT !.name = "swap", !.flags = (@ \ {"root"}) \cup {"swap"}]

SetSystem(part, fs) ==
  LET marked == [(IF IsSwap(fs) THEN MarkSwap(part) ELSE part) EXCEPT !.fs = fs]
  IN  [marked EXCEPT !.sys = SystemName(marked, fs)]

Flags(d, part) == {"boot", "root", "swap", "lvm", "raid"}

SetBoot(part, state) ==
  LET flagged == [part EXCEPT !.flags = IF state THEN @ \cup {"boot"} ELSE @ \ {"boot"}]
  IN  IF part.fs # NULL THEN SetSystem(flagged, part.fs)
      ELSE IF state THEN [flagged EXCEPT !.sys = "Apple_Bootstrap"]
      ELSE flagged

\* root and swap are the name of the partition and exclude each other.
SetNamed(part, flag, other, state) ==
  IF state THEN [part EXCEPT !.name = flag, !.flags = (@ \ {other}) \cup {flag}]
  ELSE [part EXCEPT !.name = IF flag \in part.flags THEN "untitled" ELSE @, !.flags = @ \ {flag}]

\* lvm and raid are types; clearing one sets the type but not the flag.
SetTyped(part, flag, type, state) ==
  IF state THEN [part EXCEPT !.sys = type, !.flags = @ \cup {flag}]
  ELSE IF flag \in part.flags THEN SetSystem(part, part.fs) ELSE part

SetFlag(d, part, flag, state) ==
  Replace(d, part,
    CASE flag = "boot" -> SetBoot(part, state)
      [] flag = "root" -> SetNamed(part, "root", "swap", state)
      [] flag = "swap" -> SetNamed(part, "swap", "root", state)
      [] flag = "lvm"  -> SetTyped(part, "lvm", "Linux_LVM", state)
      [] flag = "raid" -> SetTyped(part, "raid", "Linux_RAID", state))

GetFlag(d, part, flag) == flag \in part.flags

\* Naming a root or swap partition is warned about and ends its being one.
SetName(d, part, name, ignored) ==
  IF {"root", "swap"} \cap part.flags # {} /\ "root or swap" \notin ignored THEN d
  ELSE Replace(d, part, [part EXCEPT !.name = name, !.flags = @ \ {"root", "swap"}])

Internal(d, part) ==
  <<OnGrid(AlignmentInit(0, 1), AlignmentInit(-1, 1), GeometryInit(1, DevLength - 1))>>

\* mac_get_max_primary_partition_count forgets a map that is gone.
MapKnown(d) == GetPartition(d, d.spec.map) # NULL

ForgetMap(d) == IF MapKnown(d) THEN d ELSE [d EXCEPT !.spec.map = 0]

NoLimit == 65536

MaxPrimary(d) == IF MapKnown(d) THEN d.spec.count \div GhostSize - d.spec.free + 1 ELSE NoLimit

Enumerate(d, part) ==
  Did(ForgetMap(d),
      IF part.num \in 1 .. d.spec.count THEN part.num
      ELSE LeastOr(UnusedNumbers(d, 1 .. PedMin(MaxPrimary(d), PrimaryCount(d) + 1)), NoNumber))

Metadata(d) == {[start |-> 0, end |-> 0]}

(***************************************************************************)
(* _disk_count_partitions, at the end of every update: only the free space *)
(* after the first partition counts.                                       *)
(***************************************************************************)
Gaps(list) ==
  {i \in 1 .. Len(list) :
     list[i].end + 1 < (IF i = Len(list) THEN DevLength ELSE list[i + 1].start)}

CountPartitions(d) ==
  LET free == Cardinality(Gaps(d.prim))
      top  == {p.num : p \in Elements(d.prim)} \cup {Len(d.prim) + free}
  IN  [d EXCEPT !.spec.free = free, !.spec.last = CHOOSE n \in top : \A m \in top : m <= n]

\* mac_alloc.
Alloc ==
  LET map == [MapEntry(FreshSpec) EXCEPT !.num = 1]
  IN  CountPartitions(NoteMap(RawAdd(EmptyDisk("mac", FreshSpec), map), map))

\* Mutant: the fresh map stays beside the duplicated one.
DuplicateBesideMap(d) == {[Alloc EXCEPT !.spec = d.spec]}

\* mac_duplicate: the fresh label's map is removed.
Duplicate(d) == {[RawRemove(Alloc, GetPartition(Alloc, 1)) EXCEPT !.spec = d.spec]}

PartitionDuplicate(part) == part

DriverOf(part) == [block |-> part.start, size |-> Length(part)]

\* _generate_raw_part: the data region of a driver is left as it was.
Store(d, part) ==
  [start |-> part.start, count |-> Length(part), name |-> part.name, type |-> part.sys,
   data |-> IF IsDriver(part) THEN part.aux ELSE Length(part), last |-> d.spec.last]

Filler(d, name, type) ==
  [start |-> 0, count |-> 0, name |-> name, type |-> type, data |-> 0, last |-> d.spec.last]

\* Every free-space placeholder, the one before the first partition as well.
FreeRegions(d) == Cardinality(Gaps(d.prim)) + (IF d.prim[1].start > 1 THEN 1 ELSE 0)

\* No entry is left for a stretch of free space: an assertion fails.
WriteAborts(d) == Len(d.prim) + FreeRegions(d) > d.spec.last

\* Entries are written past the end of the buffer that holds the map.
Overruns(d) == d.spec.last > d.spec.count

(***************************************************************************)
(* mac_write, for a disk that has its map: the partitions at their         *)
(* numbers, free space in the first entries left over, the rest void, over *)
(* the sectors after block 0; then block 0 with the drivers whose          *)
(* partitions are still there.                                             *)
(***************************************************************************)
EntryAt(d, i, empty, free) ==
  IF i \in free THEN Filler(d, "Extra", "Apple_Free")
  ELSE IF i \in empty THEN Filler(d, "", "Apple_Void")
  ELSE Store(d, GetPartition(d, i))

WriteMap(d, old, empty, free) ==
  [i \in 1 .. DevLength - 1 |-> IF i <= d.spec.count THEN EntryAt(d, i, empty, free) ELSE old[i]]

FirstOnes(set, n) == {i \in set : Cardinality({j \in set : j < i}) < n}

Write(d, raw) ==
  LET empty == UnusedNumbers(d, 1 .. d.spec.last)
  IN  [label |-> "mac",
       drivers |-> d.spec.drivers \cap {DriverOf(p) : p \in {q \in Elements(d.prim) :
                                           IsDriver(q) /\ "driver" \in q.flags}},
       slots |-> WriteMap(d, IF raw # NULL /\ raw.label = "mac" THEN raw.slots
                             ELSE [i \in 1 .. DevLength - 1 |-> NULL],
                          empty \cup (d.spec.last + 1 .. d.spec.count),
                          FirstOnes(empty, FreeRegions(d)))]

IsActiveEntry(slot) ==
  /\ slot # NULL
  /\ ~(slot.type = "Apple_Free" /\ slot.name \in {"Extra", ""})
  /\ slot.type \notin {"Apple_Void", "Apple_Scratch", "Apple_Extra"}

NameFlags(slot) ==
  IF slot.type = "Apple_UNIX_SVR2" /\ slot.name \in {"root", "swap"} THEN {slot.name} ELSE {}

TypeFlags(raw, slot) ==
  CASE slot.type = "Apple_Bootstrap" -> {"boot"}
    [] slot.type = "Linux_LVM" -> {"lvm"}
    [] slot.type = "Linux_RAID" -> {"raid"}
    [] slot.type = "Apple_Driver" ->
         IF [block |-> slot.start, size |-> slot.count] \in raw.drivers THEN {"driver"} ELSE {}
    [] OTHER -> {}

\* _rawpart_analyse; the data region of a driver is kept.
Analyse(raw, i, slot) ==
  [PartitionAlloc("normal", i, slot.start, slot.start + slot.count - 1)
     EXCEPT !.sys = slot.type, !.name = slot.name,
            !.flags = NameFlags(slot) \cup TypeFlags(raw, slot),
            !.aux = IF slot.type = "Apple_Driver" THEN slot.data ELSE 0]

\* What a user is asked about: a data region smaller than its partition,
\* and entries that disagree on the size of the map.
Complaint(raw, slot) ==
  /\ slot # NULL
  /\ \/ slot.last # raw.slots[1].last
     \/ /\ IsActiveEntry(slot) /\ slot.type # "Apple_Bootstrap"
        /\ slot.data < slot.count

(***************************************************************************)
(* mac_read, as far as the partitions it adds.  Sector 1 must hold an      *)
(* entry that is not void; it says how many entries there are.             *)
(***************************************************************************)
ReadEntries(raw, slots, ignored) ==
  IF "map" \notin ignored /\ \E i \in 1 .. Len(slots) : Complaint(raw, slots[i]) THEN ReadFails
  ELSE ReadOK([Alloc.spec EXCEPT !.map = 0, !.drivers = raw.drivers],
              Under("exact", LoadSlots(slots, IsActiveEntry,
                                       LAMBDA i : Analyse(raw, i, slots[i]))))

Entries(raw, ignored) ==
  IF raw.slots[1] = NULL \/ raw.slots[1].type = "Apple_Void" THEN ReadFails
  ELSE ReadEntries(raw, SubSeq(raw.slots, 1, PedMin(raw.slots[1].last, DevLength - 1)), ignored)
=============================================================================
