------------------------------- MODULE Labels -------------------------------
(***************************************************************************)
(* The calls of libparted/disk.c over the labels other than msdos and gpt: *)
(* a table in memory that is edited, written to the device and read back   *)
(* by whoever opens the device next.  An action is one outermost call of   *)
(* the interface on a label that was written once, as parted does before   *)
(* it edits one.                                                           *)
(***************************************************************************)
EXTENDS LabelBase

CONSTANTS
  MaxRdbBlock, MapSize, VolHdrSize, VolHdrNum, VolumeNum, NVDir, BigFat16,
  NAhdi, NIcd, MaximumParts, GemMax, FmtSlots, UsablePartitions, BigVolume,
  LabelNames,   \* the labels to explore
  Foreign,      \* bound: media that other programs wrote
  MaxEdits,     \* bound: edits of the table between two commits
  Calls         \* bound, by label: the geometries partitions are added and moved to,
                \* whether there or anywhere near, the file systems, flags and names
                \* given, the number of partitions

Sun   == INSTANCE Sun
Bsd   == INSTANCE Bsd
Pc98  == INSTANCE Pc98
Dvh   == INSTANCE Dvh
Amiga == INSTANCE Amiga
Mac   == INSTANCE Mac
Atari == INSTANCE Atari
Dasd  == INSTANCE Dasd
Loop  == INSTANCE Loop

VARIABLES
  disk,     \* the PedDisk
  medium,   \* the sectors of the device that the label uses
  last      \* the call that produced them: its name and result, and how many
            \* edits there were since the last commit or open

vars == <<disk, medium, last>>

(***************************************************************************)
(* disk->type->ops.                                                        *)
(***************************************************************************)
LabelAlloc(label) ==
  CASE label = "sun"   -> Sun!Alloc   [] label = "bsd"  -> Bsd!Alloc
    [] label = "pc98"  -> Pc98!Alloc  [] label = "dvh"  -> Dvh!Alloc
    [] label = "amiga" -> Amiga!Alloc [] label = "mac"  -> Mac!Alloc
    [] label = "atari" -> Atari!Alloc [] label = "dasd" -> Dasd!Alloc
    [] label = "loop"  -> Loop!Alloc

LabelNew(label, part) ==
  CASE label = "sun"   -> Sun!New(part)   [] label = "bsd"  -> Bsd!New(part)
    [] label = "pc98"  -> Pc98!New(part)  [] label = "dvh"  -> Dvh!New(part)
    [] label = "amiga" -> Amiga!New(part) [] label = "mac"  -> Mac!New(part)
    [] label = "atari" -> Atari!New(part) [] label = "dasd" -> Dasd!New(part)
    [] label = "loop"  -> Loop!New(part)

LabelSetSystem(label, part, fs) ==
  CASE label = "sun"   -> Sun!SetSystem(part, fs)   [] label = "bsd"  -> Bsd!SetSystem(part, fs)
    [] label = "pc98"  -> Pc98!SetSystem(part, fs)  [] label = "dvh"  -> Dvh!SetSystem(part, fs)
    [] label = "amiga" -> Amiga!SetSystem(part, fs) [] label = "mac"  -> Mac!SetSystem(part, fs)
    [] label = "atari" -> Atari!SetSystem(part, fs) [] label = "dasd" -> Dasd!SetSystem(part, fs)
    [] label = "loop"  -> Loop!SetSystem(part, fs)

LabelSetFlag(d, part, flag, state) ==
  CASE d.label = "sun"   -> Sun!SetFlag(d, part, flag, state)
    [] d.label = "bsd"   -> Bsd!SetFlag(d, part, flag, state)
    [] d.label = "pc98"  -> Pc98!SetFlag(d, part, flag, state)
    [] d.label = "dvh"   -> Dvh!SetFlag(d, part, flag, state)
    [] d.label = "amiga" -> Amiga!SetFlag(d, part, flag, state)
    [] d.label = "mac"   -> Mac!SetFlag(d, part, flag, state)
    [] d.label = "atari" -> Atari!SetFlag(d, part, flag, state)
    [] d.label = "dasd"  -> Dasd!SetFlag(d, part, flag, state)

LabelFlags(d, part) ==
  CASE d.label = "sun"   -> Sun!Flags(d, part)   [] d.label = "bsd"  -> Bsd!Flags(d, part)
    [] d.label = "pc98"  -> Pc98!Flags(d, part)  [] d.label = "dvh"  -> Dvh!Flags(d, part)
    [] d.label = "amiga" -> Amiga!Flags(d, part) [] d.label = "mac"  -> Mac!Flags(d, part)
    [] d.label = "atari" -> Atari!Flags(d, part) [] d.label = "dasd" -> Dasd!Flags(d, part)
    [] d.label = "loop"  -> Loop!Flags(d, part)

LabelGetFlag(d, part, flag) ==
  CASE d.label = "dvh"  -> Dvh!GetFlag(d, part, flag)
    [] d.label = "dasd" -> Dasd!GetFlag(d, part, flag)
    [] OTHER            -> flag \in part.flags

LabelSetName(d, part, name, ignored) ==
  CASE d.label = "pc98"  -> Pc98!SetName(d, part, name)
    [] d.label = "dvh"   -> Dvh!SetName(d, part, name)
    [] d.label = "amiga" -> Amiga!SetName(d, part, name)
    [] d.label = "mac"   -> Mac!SetName(d, part, name, ignored)

LabelInternal(d, part) ==
  CASE d.label = "sun"   -> Sun!Internal(d, part)   [] d.label = "bsd"  -> Bsd!Internal(d, part)
    [] d.label = "pc98"  -> Pc98!Internal(d, part)  [] d.label = "dvh"  -> Dvh!Internal(d, part)
    [] d.label = "amiga" -> Amiga!Internal(d, part) [] d.label = "mac"  -> Mac!Internal(d, part)
    [] d.label = "atari" -> Atari!Internal(d, part) [] d.label = "dasd" -> Dasd!Internal(d, part)
    [] d.label = "loop"  -> Loop!Internal(d, part)

LabelEnumerate(d, part, ignored) ==
  CASE d.label = "sun"   -> Sun!Enumerate(d, part, ignored)
    [] d.label = "bsd"   -> Bsd!Enumerate(d, part)
    [] d.label = "pc98"  -> Pc98!Enumerate(d, part)
    [] d.label = "dvh"   -> Dvh!Enumerate(d, part)
    [] d.label = "amiga" -> Amiga!Enumerate(d, part)
    [] d.label = "mac"   -> Mac!Enumerate(d, part)
    [] d.label = "atari" -> Atari!Enumerate(d, part)
    [] d.label = "dasd"  -> Dasd!Enumerate(d, part)
    [] d.label = "loop"  -> Loop!Enumerate(d, part)

LabelMaxPrimary(d) ==
  CASE d.label = "sun"   -> Sun!MaxPrimary(d)   [] d.label = "bsd"  -> Bsd!MaxPrimary(d)
    [] d.label = "pc98"  -> Pc98!MaxPrimary(d)  [] d.label = "dvh"  -> Dvh!MaxPrimary(d)
    [] d.label = "amiga" -> Amiga!MaxPrimary(d) [] d.label = "mac"  -> Mac!MaxPrimary(d)
    [] d.label = "atari" -> Atari!MaxPrimary(d) [] d.label = "dasd" -> Dasd!MaxPrimary(d)
    [] d.label = "loop"  -> Loop!MaxPrimary(d)

LabelMetadata(d) ==
  CASE d.label = "sun"   -> Sun!Metadata(d)   [] d.label = "bsd"  -> Bsd!Metadata(d)
    [] d.label = "pc98"  -> Pc98!Metadata(d)  [] d.label = "dvh"  -> Dvh!Metadata(d)
    [] d.label = "amiga" -> Amiga!Metadata(d) [] d.label = "mac"  -> Mac!Metadata(d)
    [] d.label = "atari" -> Atari!Metadata(d) [] d.label = "dasd" -> Dasd!Metadata(d)
    [] d.label = "loop"  -> Loop!Metadata(d)

LabelWrite(d, raw, ignored) ==
  CASE d.label = "sun"   -> Sun!Write(d, raw)   [] d.label = "bsd"  -> Bsd!Write(d, raw)
    [] d.label = "pc98"  -> Pc98!Write(d, raw)  [] d.label = "dvh"  -> Dvh!Write(d, raw)
    [] d.label = "amiga" -> Amiga!Write(d, raw) [] d.label = "mac"  -> Mac!Write(d, raw)
    [] d.label = "atari" -> Atari!Write(d, raw, ignored)
    [] d.label = "dasd"  -> Dasd!Write(d, raw)  [] d.label = "loop" -> Loop!Write(d, raw)

LabelEntries(raw, ignored) ==
  CASE raw.label = "sun"   -> Sun!Entries(raw)   [] raw.label = "bsd"  -> Bsd!Entries(raw)
    [] raw.label = "pc98"  -> Pc98!Entries(raw)
    [] raw.label = "dvh"   -> Dvh!Entries(raw, "fix" \in ignored)
    [] raw.label = "amiga" -> Amiga!Entries(raw)
    [] raw.label = "mac"   -> Mac!Entries(raw, ignored)
    [] raw.label = "atari" -> Atari!Entries(raw) [] raw.label = "dasd" -> Dasd!Entries(raw)
    [] raw.label = "loop"  -> Loop!Entries(raw)

LabelDuplicate(d) ==
  CASE d.label = "sun" -> Sun!Duplicate(d)
    [] d.label = "bsd" -> Bsd!Duplicate(d)
    [] d.label = "pc98" -> Pc98!Duplicate(d)
    [] d.label = "dvh" -> Dvh!Duplicate(d)
    [] d.label = "amiga" -> Amiga!Duplicate(d)
    [] d.label = "mac" -> Mac!Duplicate(d)
    [] d.label = "atari" -> Atari!Duplicate(d)
    [] d.label = "dasd" -> Dasd!Duplicate(d)
    [] d.label = "loop" -> Loop!Duplicate(d)

LabelPartitionDuplicate(label, part) ==
  CASE label = "sun" -> Sun!PartitionDuplicate(part)
    [] label = "bsd" -> Bsd!PartitionDuplicate(part)
    [] label = "pc98" -> Pc98!PartitionDuplicate(part)
    [] label = "dvh" -> Dvh!PartitionDuplicate(part)
    [] label = "amiga" -> Amiga!PartitionDuplicate(part)
    [] label = "mac" -> Mac!PartitionDuplicate(part)
    [] label = "atari" -> Atari!PartitionDuplicate(part)
    [] label = "dasd" -> Dasd!PartitionDuplicate(part)
    [] label = "loop" -> Loop!PartitionDuplicate(part)

HasExtended(label) == label \in {"dvh", "atari"}
HasNames(label)    == label \in {"pc98", "dvh", "amiga", "mac"}

(***************************************************************************)
(* Update mode.  Entering it removes the metadata placeholders, and every  *)
(* removal renumbers the partitions; only on atari and mac can that change *)
(* a number.  Leaving it counts the entries of a mac map.                  *)
(***************************************************************************)
Done(d, num) == [disk |-> d, ok |-> TRUE, num |-> num, aborted |-> FALSE]
Refused(d)   == [disk |-> d, ok |-> FALSE, num |-> NoNumber, aborted |-> FALSE]
Aborted(d)   == [disk |-> d, ok |-> FALSE, num |-> NoNumber, aborted |-> TRUE]

RenumberOne(r, part) ==
  IF r.num < 0 THEN r
  ELSE [r EXCEPT !.disk = Replace(@, part, [part EXCEPT !.num = r.num])]

Highest(d) == LET nums == {p.num : p \in Parts(d)} \cup {0}
              IN  CHOOSE n \in nums : \A m \in nums : m <= n

\* ped_disk_enumerate_partitions; num is AssertFails if one failed.
EnumerateAll(d) ==
  LET walk[n \in 0 .. Highest(d)] ==
        IF n = 0 THEN Did(d, 0)
        ELSE LET r    == walk[n - 1]
                 part == GetPartition(r.disk, n)
             IN  IF part = NULL \/ r.num < 0 THEN r
                 ELSE RenumberOne(LabelEnumerate(r.disk, part, {}), part)
  IN  IF d.label \in {"atari", "mac"} THEN walk[Highest(d)] ELSE Did(d, 0)

PopUpdateMode(d) == IF d.label = "mac" /\ d.prim # <<>> THEN Mac!CountPartitions(d) ELSE d

PopRefused(d) == Refused(PopUpdateMode(d))

(***************************************************************************)
(* _partition_align.  Each label tries its constraints in turn; only atari *)
(* takes the longest solution.                                             *)
(***************************************************************************)
Longest(solutions) ==
  CHOOSE i \in 1 .. Len(solutions) :
    \A j \in 1 .. Len(solutions) :
      \/ Length(solutions[j]) < Length(solutions[i])
      \/ Length(solutions[j]) = Length(solutions[i]) /\ i <= j

Pick(label, found) ==
  IF found = <<>> THEN NULL
  ELSE IF label = "atari" THEN found[Longest(found)] ELSE found[1]

Align(d, part, c) ==
  Pick(d.label, SelectSeq(Solutions(part, c, LabelInternal(d, part)), LAMBDA g : g # NULL))

(***************************************************************************)
(* ped_disk_add_partition.  fresh says that the label is being read: no    *)
(* partition is aligned then.                                              *)
(***************************************************************************)
BasicSanity(d, part) ==
  /\ part.type # "normal" => HasExtended(d.label)
  /\ ~IsLogical(part) => PrimaryCount(d) + 1 <= LabelMaxPrimary(d)
  /\ IsLogical(part) => ExtendedPartition(d) # NULL

\* The first half of _check_extended_partition: a new one is never the old one.
SecondExtended(d, part) == part.type = "extended" /\ ExtendedPartition(d) # NULL

AddPlaced(d, part, geom, ignored) ==
  IF geom = NULL \/ SecondExtended(d, part) \/ ~CheckPartition(d, SetGeometry(part, geom), ignored) THEN PopRefused(d)
  ELSE Done(PopUpdateMode(RawAdd(d, SetGeometry(part, geom))), part.num)

AddNumbered(r, part, c, fresh, ignored) ==
  IF r.num = AssertFails THEN Aborted(r.disk)
  ELSE IF r.num = NoNumber THEN PopRefused(r.disk)
  ELSE LET numbered == [part EXCEPT !.num = r.num]
       IN  AddPlaced(r.disk, numbered, IF fresh THEN part ELSE Align(r.disk, numbered, c), ignored)

AddWithin(open, part, c, both, fresh, ignored) ==
  IF both = NULL /\ "overlap" \notin ignored THEN PopRefused(open)
  ELSE AddNumbered(LabelEnumerate(open, part, ignored), part,
                   IF both = NULL THEN c ELSE both, fresh, ignored)

\* Mutant: the constraint that keeps partitions apart is left out.
AddUnbound(r, part, c, fresh, ignored) ==
  IF r.num = AssertFails THEN Aborted(r.disk) ELSE AddWithin(r.disk, part, c, c, fresh, ignored)

AddOpened(r, part, c, fresh, ignored) ==
  IF r.num = AssertFails THEN Aborted(r.disk)
  ELSE AddWithin(r.disk, part, c,
                 ConstraintIntersect(OverlapConstraint(r.disk, part, part), c), fresh, ignored)

AddPartition(d, part, c, fresh, ignored) ==
  IF BasicSanity(d, part) THEN AddOpened(EnumerateAll(d), part, c, fresh, ignored) ELSE Refused(d)

\* ped_partition_new: with a file system, or when extended, it has a system.
PartitionNew(label, type, g, fs) ==
  LET part == LabelNew(label, PartitionAlloc(type, NoNumber, g.start, g.end))
  IN  IF fs # NULL \/ type = "extended" THEN LabelSetSystem(label, part, fs) ELSE part

\* A new partition as do_mkpart makes it: the system is set once more when
\* the partition has its place.
SetSystemOf(r, fs) ==
  IF ~r.ok THEN r
  ELSE LET part == GetPartition(r.disk, r.num)
       IN  [r EXCEPT !.disk = Replace(@, part, LabelSetSystem(r.disk.label, part, fs))]

MakePartition(d, type, g, fs, c, ignored) ==
  LET part == PartitionNew(d.label, type, g, fs)
  IN  IF d.label = "atari" /\ ~Atari!MayMake(d, part) THEN Refused(d)
      ELSE SetSystemOf(AddPartition(d, part, c, FALSE, ignored), fs)

(***************************************************************************)
(* ped_disk_delete_partition: an extended partition goes with its logical  *)
(* ones, and the rest is renumbered.                                       *)
(***************************************************************************)
Enumerated(r) == IF r.num = AssertFails THEN Aborted(r.disk) ELSE Done(r.disk, NoNumber)

\* The partition a caller holds, which may have another number by now.
Current(d, part) == CHOOSE p \in Parts(d) : p = [part EXCEPT !.num = p.num]

DeleteFound(d, part) ==
  Enumerated(EnumerateAll(PopUpdateMode(
    RawRemove(IF part.type = "extended" THEN [d EXCEPT !.log = <<>>] ELSE d, part))))

DeleteOpened(r, part) ==
  IF r.num = AssertFails THEN Aborted(r.disk) ELSE DeleteFound(r.disk, Current(r.disk, part))

DeletePartition(d, part) == DeleteOpened(EnumerateAll(d), part)

(***************************************************************************)
(* ped_disk_set_partition_geom; a refused geometry is put back.            *)
(***************************************************************************)
SetChecked(d, part, geom, ignored) ==
  IF geom = NULL \/ ~CheckPartition(d, SetGeometry(part, geom), ignored) THEN PopRefused(d)
  ELSE Done(PopUpdateMode(RawAdd(RawRemove(d, part), SetGeometry(part, geom))), part.num)

\* Mutant: a geometry that cannot be aligned is not put back.
SetUnrestored(d, part, new, both, ignored) ==
  IF both = NULL THEN PopRefused(RawSetGeometry(d, part, new))
  ELSE SetChecked(d, part, Align(RawSetGeometry(d, part, new), SetGeometry(part, new), both), ignored)

SetWithin(d, part, new, both, ignored) ==
  IF both = NULL THEN PopRefused(d)
  ELSE SetChecked(d, part, Align(RawSetGeometry(d, part, new), SetGeometry(part, new), both), ignored)

SetFound(d, part, new, c, ignored) ==
  SetWithin(d, part, new, ConstraintIntersect(OverlapConstraint(d, part, new), c), ignored)

SetOpened(r, part, new, c, ignored) ==
  IF r.num = AssertFails THEN Aborted(r.disk)
  ELSE SetFound(r.disk, Current(r.disk, part), new, c, ignored)

SetPartitionGeom(d, part, new, c, ignored) == SetOpened(EnumerateAll(d), part, new, c, ignored)

(***************************************************************************)
(* ped_disk_new: the partitions of the table are added one by one to a new *)
(* label.  NULL is a table that cannot be read.                            *)
(***************************************************************************)
ReadConstraint(entry) == IF entry.how = "exact" THEN ConstraintExact(entry.part) ELSE ConstraintAny

LoadedInto(r, part) ==
  IF ~r.ok THEN NULL ELSE IF r.disk.label = "mac" THEN Mac!Loaded(r.disk, part) ELSE r.disk

ReadAll(d, entries, ignored) ==
  LET read[i \in 0 .. Len(entries)] ==
        IF i = 0 THEN d
        ELSE IF read[i - 1] = NULL THEN NULL
        ELSE LoadedInto(AddPartition(read[i - 1], entries[i].part, ReadConstraint(entries[i]),
                                     TRUE, ignored), entries[i].part)
  IN  read[Len(entries)]

ReadTable(raw, e, ignored) ==
  IF e.ok THEN ReadAll(EmptyDisk(raw.label, e.spec), e.entries, ignored) ELSE NULL

\* _disk_add_part_map_entry, when the user wants it fixed.
NoteNewMap(r) == IF r.ok THEN [r EXCEPT !.disk = Mac!NoteMap(@, GetPartition(@, r.num))] ELSE r

AddMap(d, fresh, ignored) ==
  IF "fix" \notin ignored THEN Refused(d)
  ELSE NoteNewMap(AddPartition(d, Mac!MapEntry(d.spec), ConstraintAny, fresh, ignored))

LacksMap(d) == d.label = "mac" /\ GetPartition(d, d.spec.map) = NULL

Opened(d, ignored) ==
  IF d = NULL \/ ~LacksMap(d) THEN d
  ELSE LET r == AddMap(d, TRUE, ignored) IN IF r.ok THEN r.disk ELSE NULL

ReadDisk(raw, ignored) == Opened(ReadTable(raw, LabelEntries(raw, ignored), ignored), ignored)

\* dvh and mac write a table they had to complete, to a device just clobbered.
WritesBack(raw, d) ==
  /\ d # NULL
  /\ \/ d.label = "dvh" /\ Dvh!WritesBack(raw)
     \/ d.label = "mac" /\ \A i \in DOMAIN raw.slots :
          raw.slots[i] # NULL => raw.slots[i].type # "Apple_partition_map"

(***************************************************************************)
(* ped_disk_commit_to_dev.                                                 *)
(***************************************************************************)
WriteAborts(d) ==
  \/ d.label = "mac" /\ (Mac!WriteAborts(d) \/ Mac!Overruns(d))
  \/ d.label = "atari" /\ Atari!WriteAborts(d)

\* What writing leaves in memory.
Wrote(d) ==
  CASE d.label = "atari" -> Atari!Wrote(d)
    [] d.label = "dvh" -> Dvh!FlushStaleFlags(d)
    [] OTHER -> d

Mapped(d, ignored) == IF LacksMap(d) THEN AddMap(d, FALSE, ignored) ELSE Done(d, NoNumber)

Kept(d, raw, aborted) == [disk |-> d, medium |-> raw, ok |-> FALSE, aborted |-> aborted]

Written(d, raw, new) ==
  IF new = NULL THEN Kept(Wrote(d), raw, FALSE)
  ELSE [disk |-> Wrote(d), medium |-> new, ok |-> TRUE, aborted |-> FALSE]

CommitMapped(r, raw, ignored) ==
  IF ~r.ok \/ WriteAborts(r.disk) THEN Kept(r.disk, raw, r.ok)
  ELSE Written(r.disk, raw, LabelWrite(r.disk, raw, ignored))

CommitToDev(d, raw, ignored) == CommitMapped(Mapped(d, ignored), raw, ignored)

(***************************************************************************)
(* ped_disk_duplicate: the partitions are duplicated and added one by one  *)
(* to the new disk the label makes.                                        *)
(***************************************************************************)
WithDuplicates(new, d) ==
  LET parts == d.prim \o d.log
      added[i \in 0 .. Len(parts)] ==
        IF i = 0 THEN new ELSE RawAdd(added[i - 1], LabelPartitionDuplicate(d.label, parts[i]))
  IN  PopUpdateMode(added[Len(parts)])

Duplicates(d) == {WithDuplicates(new, d) : new \in LabelDuplicate(d)}

(***************************************************************************)
(* The calls.  An answer is the set of questions a user says yes to.       *)
(***************************************************************************)
EditAnswers ==
  CASE medium.label = "sun" -> {{}, {"whole disk"}}
    [] medium.label = "mac" -> {{}, {"root or swap"}}
    [] OTHER -> {{}}

TableAnswers ==
  CASE medium.label = "mac" -> {{}, {"map", "fix"}}
    [] medium.label = "dvh" -> {{}, {"fix"}}
    [] medium.label = "atari" -> {{}, {"invalidate"}, {"cancel"}}
    [] OTHER -> {{}}

Open == disk # NULL /\ last.op # "aborted"

Note(op, ok, edits) == [op |-> op, ok |-> ok, edits |-> edits]

Return(op, r) ==
  /\ disk' = r.disk
  /\ last' = Note(IF r.aborted THEN "aborted" ELSE op, r.ok, last.edits + 1)

Within(g) ==
  {IF how = "any" THEN ConstraintAny ELSE ConstraintExact(g) : how \in Calls[disk.label].within}

Count == Cardinality(Parts(disk))

Add(type, g) ==
  /\ Open /\ Count < Calls[disk.label].parts
  /\ \E fs \in Calls[disk.label].fs, c \in Within(g), a \in EditAnswers :
       Return("add", MakePartition(disk, type, g, fs, c, a))
  /\ UNCHANGED medium

Delete(part) == Open /\ Return("delete", DeletePartition(disk, part)) /\ UNCHANGED medium

SetGeom(part, g) ==
  /\ Open
  /\ \E c \in Within(g), a \in EditAnswers :
       Return("set geom", SetPartitionGeom(disk, part, g, c, a))
  /\ UNCHANGED medium

SetFlag(part, flag, state) ==
  /\ Open /\ flag \in LabelFlags(disk, part)
  /\ Return("set flag", Done(LabelSetFlag(disk, part, flag, state), part.num))
  /\ UNCHANGED medium

SetName(part, name) ==
  /\ Open /\ HasNames(disk.label)
  /\ \E a \in EditAnswers : Return("set name", Done(LabelSetName(disk, part, name, a), part.num))
  /\ UNCHANGED medium

Commit(a) ==
  LET r == CommitToDev(disk, medium, a)
  IN  /\ Open
      /\ disk' = r.disk /\ medium' = r.medium
      /\ last' = Note(IF r.aborted THEN "aborted" ELSE "commit", r.ok, IF r.ok THEN 0 ELSE last.edits)

\* Another program, or the next run of this one, opens the device.
Reopen(a) ==
  LET d == ReadDisk(medium, a)
  IN  /\ last.op # "aborted"
      /\ disk' = d /\ last' = Note("open", d # NULL, 0)
      /\ medium' = IF WritesBack(medium, d) THEN CommitToDev(d, NULL, a).medium ELSE medium

\* mklabel: the old signatures are clobbered and the empty label is written.
Mklabel(label) ==
  /\ last.op # "aborted"
  /\ disk' = LabelAlloc(label) /\ medium' = LabelWrite(LabelAlloc(label), NULL, {})
  /\ last' = Note("commit", TRUE, 0)

Init ==
  /\ \/ \E label \in LabelNames :
          disk = LabelAlloc(label) /\ medium = LabelWrite(LabelAlloc(label), NULL, {})
     \/ \E raw \in Foreign : raw.label \in LabelNames /\ disk = NULL /\ medium = raw
  /\ last = Note("open", TRUE, 0)

Edit(calls) ==
  \/ \E type \in DOMAIN calls.add : \E g \in calls.add[type] : Add(type, g)
  \/ \E part \in Parts(disk) :
       \/ Delete(part)
       \/ \E g \in calls.move : SetGeom(part, g)
       \/ \E flag \in calls.flags, state \in BOOLEAN : SetFlag(part, flag, state)
       \/ \E name \in calls.names : SetName(part, name)

\* A new label leaves nothing of the old one: it is made of opened disks only.
Next ==
  \/ Open /\ last.edits < MaxEdits /\ Edit(Calls[disk.label])
  \/ \E a \in TableAnswers : (Open /\ Commit(a)) \/ Reopen(a)
  \/ last.op = "open" /\ \E label \in LabelNames : Mklabel(label)

Spec == Init /\ [][Next]_vars
=============================================================================
