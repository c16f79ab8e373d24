-------------------------------- MODULE Disk --------------------------------
(***************************************************************************)
(* The PedDisk interface (libparted/disk.c) over the msdos label: every    *)
(* call that edits the partition table in memory.  An action is one        *)
(* outermost call of the interface; the calls it makes itself are          *)
(* operators on the disk record.                                           *)
(***************************************************************************)
EXTENDS Msdos

CONSTANTS
  CommitFirst,   \* a new label is written before it is edited, as parted does
  CylinderModes, \* settings of the cylinder-alignment flag a caller edits under
  Answers,       \* sets of warnings a caller's exception handler may ignore
  AddGeoms,      \* bound: the geometries asked for, by partition type
  MoveGeoms,     \* bound: the geometries partitions are moved to
  Leftovers,     \* bound: what an uninitialised range may hold
  MaxParts       \* bound: active partitions on the disk

ASSUME AnswersAssumption == \A a \in Answers : a \subseteq Warnings

VARIABLES
  disk,   \* the PedDisk
  last    \* the call that produced it: operation and result

vars == <<disk, last>>

(***************************************************************************)
(* Update mode.  Deleting the metadata placeholders one by one renumbers   *)
(* the partitions each time; leaving the outermost update ignores the      *)
(* result of the metadata allocation.                                      *)
(***************************************************************************)
RemoveMetadata(d) ==
  LET keep(list) == SelectSeq(list, LAMBDA p : p.role # "metadata")
  IN  IF \E p \in Parts(d) : p.role = "metadata"
      THEN EnumeratePartitions([d EXCEPT !.prim = keep(d.prim), !.log = keep(d.log)])
      ELSE d

PushUpdateMode(d) ==
  IF d.mode = 0
  THEN RemoveMetadata([RemoveFreespace(d) EXCEPT !.mode = 1])
  ELSE [d EXCEPT !.mode = @ + 1]

PopUpdateMode(d, ignored) ==
  IF d.mode = 1
  THEN AllocFreespace([AllocMetadata(d, ignored).disk EXCEPT !.mode = 0, !.stale = "no"])
  ELSE [d EXCEPT !.mode = @ - 1]

Abort(d) == Failed([d EXCEPT !.aborted = TRUE])

\* _partition_align: nothing is aligned while a label awaits its first write.
Align(d, part, c, junk) == IF d.fresh THEN part ELSE PartitionAlign(d, part, c, junk)

AlignAborts(d, part) == ~d.fresh /\ PartitionAlignAborts(d, part)

ReadsJunk(d, part, c) == ~d.fresh /\ c # NULL /\ PartitionAlignReadsJunk(d, part, c)

(***************************************************************************)
(* ped_disk_add_partition.  A first extended partition has no minimum, and *)
(* a second one is refused, so no uninitialised range matters here.        *)
(***************************************************************************)
BasicSanity(d, part) ==
  /\ IsLogical(part) => ExtendedPartition(d) # NULL
  /\ ~IsLogical(part) => Cardinality({p \in Active(d) : ~IsLogical(p)}) < NPrimary

PopFailed(d, ignored) == Failed(PopUpdateMode(d, ignored))

\* Once part has its number and geom is where it was aligned to.
AddPlaced(open, part, geom, ignored) ==
  IF geom = NULL \/ ~CheckPartition(open, SetGeometry(part, geom), ignored)
  THEN PopFailed(open, ignored)
  ELSE Fine(PopUpdateMode(RawAdd(open, SetGeometry(part, geom)), ignored))

AddNumbered(open, part, c, ignored) ==
  IF part.num = -1 THEN PopFailed(open, ignored)
  ELSE IF AlignAborts(open, part) THEN Abort(open)
  ELSE AddPlaced(open, part, Align(open, part, c, NULL), ignored)

\* both is c without the space of other partitions.
AddWithin(open, part, c, both, ignored) ==
  IF both = NULL /\ "overlap" \notin ignored THEN PopFailed(open, ignored)
  ELSE AddNumbered(open, [part EXCEPT !.num = PartitionEnumerate(open, part)],
                   IF both = NULL THEN c ELSE both, ignored)

AddOpened(open, part, c, ignored) ==
  AddWithin(open, part, c, ConstraintIntersect(OverlapConstraint(open, part, part), c), ignored)

AddPartition(d, part, c, ignored) ==
  IF BasicSanity(d, part) THEN AddOpened(PushUpdateMode(d), part, c, ignored) ELSE Failed(d)

(***************************************************************************)
(* ped_disk_remove_partition: the placeholders are rebuilt before the      *)
(* partitions are renumbered.                                              *)
(***************************************************************************)
Marked(d, before, mark) == [d EXCEPT !.stale = IF d = before THEN @ ELSE mark]

Renumbered(d) == Marked(EnumeratePartitions(d), d, "renumbered")

RemoveOpened(open, part, ignored) ==
  IF part.type = "extended" /\ open.log # <<>> THEN Abort(open)
  ELSE Fine(Renumbered(PopUpdateMode(RawRemove(open, part), ignored)))

RemoveNumber(open, num, ignored) == RemoveOpened(open, GetPartition(open, num), ignored)

RemovePartition(d, num, ignored) == RemoveNumber(PushUpdateMode(d), num, ignored)

(***************************************************************************)
(* ped_disk_delete_partition, with ped_disk_delete_all_logical.            *)
(***************************************************************************)
DeleteAllLogical(open, num) ==
  IF GetPartition(open, num).type = "extended" THEN [open EXCEPT !.log = <<>>] ELSE open

DeletePartition(d, num, ignored) ==
  Fine(PopUpdateMode(
    RemovePartition(DeleteAllLogical(PushUpdateMode(d), num), num, ignored).disk, ignored))

DeleteAll(d, ignored) ==
  Fine(PopUpdateMode([PushUpdateMode(d) EXCEPT !.prim = <<>>, !.log = <<>>], ignored))

\* Mutant: the partition keeps the geometry that was refused.
UndoKeepsGeom(d, part, ignored) == PopFailed(d, ignored)

PutBack(closed, part) ==
  Marked(RawSetGeometry(closed, GetPartition(closed, part.num), part), closed, "moved")

\* Its error path; part is the partition as it was.
UndoSetGeom(d, part, ignored) == Failed(PutBack(PopUpdateMode(d, ignored), part))

(***************************************************************************)
(* ped_disk_set_partition_geom.  On an error the update is closed, and the *)
(* placeholders rebuilt, before the old geometry is put back.              *)
(***************************************************************************)
\* part is at its aligned geometry in d.
SetChecked(d, old, part, ignored) ==
  IF CheckPartition(d, part, ignored)
  THEN Fine(PopUpdateMode(RawAdd(RawRemove(d, part), part), ignored))
  ELSE UndoSetGeom(d, old, ignored)

SetAligned(d, old, part, geom, ignored) ==
  IF geom = NULL THEN UndoSetGeom(d, old, ignored)
  ELSE SetChecked(RawSetGeometry(d, part, geom), old, SetGeometry(part, geom), ignored)

NoteJunk(d, part, c) == [d EXCEPT !.junk = @ \/ ReadsJunk(d, part, c)]

\* part is at the geometry that was asked for.
SetMoved(d, old, part, both, ignored, junk) ==
  IF AlignAborts(d, part) THEN Abort(d)
  ELSE SetAligned(NoteJunk(d, part, both), old, part, Align(d, part, both, junk), ignored)

SetWithin(open, part, new, both, ignored, junk) ==
  IF both = NULL THEN UndoSetGeom(open, part, ignored)
  ELSE SetMoved(RawSetGeometry(open, part, new), part, SetGeometry(part, new), both, ignored, junk)

SetOpened(open, part, new, c, ignored, junk) ==
  SetWithin(open, part, new,
            ConstraintIntersect(OverlapConstraint(open, part, new), c), ignored, junk)

SetNumber(open, num, new, c, ignored, junk) ==
  SetOpened(open, GetPartition(open, num), new, c, ignored, junk)

SetPartitionGeom(d, num, c, start, end, ignored, junk) ==
  IF end < start THEN Failed(d)
  ELSE SetNumber(PushUpdateMode(d), num, [start |-> start, end |-> end], c, ignored, junk)

(***************************************************************************)
(* ped_disk_maximize_partition.                                            *)
(***************************************************************************)
\* The space around partition i of its list, within bounds.
Around(list, i, bounds) ==
  [start |-> IF i > 1 THEN list[i - 1].end + 1 ELSE bounds.start,
   end   |-> IF i < Len(list) THEN list[i + 1].start - 1 ELSE bounds.end]

SpaceAround(open, part) ==
  Around(ListOf(open, part), FirstIndex(ListOf(open, part), LAMBDA p : p = part),
         IF IsLogical(part) THEN ExtendedPartition(open) ELSE FullDev)

Restored(d, part, c, ignored, junk) ==
  SetPartitionGeom(d, part.num, c, part.start, part.end, ignored, junk).disk

MaximizeGrown(grown, part, ignored, junk) ==
  IF grown.disk.aborted THEN grown
  ELSE IF grown.ok THEN Fine(PopUpdateMode(grown.disk, ignored))
  ELSE PopFailed(Restored(grown.disk, part, ConstraintAny, ignored, junk), ignored)

MaximizeInto(open, part, space, c, ignored, junk) ==
  MaximizeGrown(SetPartitionGeom(open, part.num, c, space.start, space.end, ignored, junk),
                part, ignored, junk)

MaximizeOpened(open, part, c, ignored, junk) ==
  MaximizeInto(open, part, SpaceAround(open, part), c, ignored, junk)

MaximizeNumber(open, num, c, ignored, junk) ==
  MaximizeOpened(open, GetPartition(open, num), c, ignored, junk)

MaximizePartition(d, num, c, ignored, junk) ==
  MaximizeNumber(PushUpdateMode(d), num, c, ignored, junk)

\* Mutant: the partition is left grown.
GetMaxStaysGrown(d, num, c, ignored, junk) == MaximizePartition(d, num, c, ignored, junk)

(***************************************************************************)
(* ped_disk_get_max_partition_geometry: maximize, then go back; the        *)
(* program ends if the partition is not what it was.                       *)
(***************************************************************************)
SameGeometry(a, b) == a.start = b.start /\ a.end = b.end

AssertSame(d, part) ==
  IF SameGeometry(GetPartition(d, part.num), part) THEN Fine(d) ELSE Abort(d)

GoBack(grown, part, ignored, junk) ==
  IF grown.ok
  THEN AssertSame(Restored(grown.disk, part, ConstraintExact(part), ignored, junk), part)
  ELSE grown

GetMaxPartitionGeometry(d, num, c, ignored, junk) ==
  GoBack(MaximizePartition(d, num, c, ignored, junk), GetPartition(d, num), ignored, junk)

(***************************************************************************)
(* ped_disk_minimize_extended_partition.                                   *)
(***************************************************************************)
PopResult(r, ignored) == [r EXCEPT !.disk = PopUpdateMode(@, ignored)]

MinimizeOpened(open, ext, ignored, junk) ==
  IF open.log = <<>> THEN DeletePartition(PopUpdateMode(open, ignored), ext.num, ignored)
  ELSE PopResult(SetPartitionGeom(open, ext.num, ConstraintAny, open.log[1].start,
                                  open.log[Len(open.log)].end, ignored, junk), ignored)

MinimizeExtendedPartition(d, ignored, junk) ==
  IF ExtendedPartition(d) = NULL THEN Fine(d)
  ELSE MinimizeOpened(PushUpdateMode(d), ExtendedPartition(d), ignored, junk)

\* ped_disk_set_flag with PED_DISK_CYLINDER_ALIGNMENT.
SetFlag(d, state, ignored) ==
  Fine(PopUpdateMode([PushUpdateMode(d) EXCEPT !.cyl = state], ignored))

\* ped_disk_new_fresh: _ped_disk_alloc starts in update mode.
NewFresh ==
  LET d == [prim |-> <<>>, log |-> <<>>, mode |-> 1, fresh |-> FALSE,
            cyl |-> TRUE, aborted |-> FALSE, stale |-> "no", junk |-> FALSE]
  IN  [PopUpdateMode(d, {}) EXCEPT !.fresh = TRUE]

(***************************************************************************)
(* ped_disk_duplicate: the active partitions are added to a new label in   *)
(* list order and the placeholders computed anew.                          *)
(***************************************************************************)
DuplicateOf(d, ignored) ==
  LET empty == [PushUpdateMode(NewFresh) EXCEPT !.cyl = d.cyl]
      add(x, list) ==
        LET out[i \in 0 .. Len(list)] ==
              IF i = 0 THEN x
              ELSE IF IsActive(list[i]) THEN RawAdd(out[i - 1], list[i]) ELSE out[i - 1]
        IN  out[Len(list)]
  IN  [PopUpdateMode(add(add(empty, d.prim), d.log), ignored) EXCEPT !.fresh = d.fresh]

(***************************************************************************)
(* The calls.                                                              *)
(***************************************************************************)
Ready == ~disk.aborted /\ ~disk.junk /\ (CommitFirst => ~disk.fresh)

\* parted sets the flag before every edit (do_mkpart, do_resizepart, do_rescue).
Editable == Ready /\ disk.cyl \in CylinderModes

\* What an uninitialised range can hold, when moving partition n reads one.
Junk(n) ==
  LET open == PushUpdateMode(disk)
      part == GetPartition(open, n)
  IN  IF ReadsJunk(open, part, ConstraintAny) THEN Leftovers ELSE {NULL}

Requests(g) == {ConstraintAny, ConstraintExact(g)}

Numbers == {p.num : p \in Active(disk)}

Return(op, r) == disk' = r.disk /\ last' = [op |-> op, ok |-> r.ok]

Add(type, g) ==
  /\ Editable /\ Cardinality(Active(disk)) < MaxParts
  /\ \E c \in Requests(g), a \in Answers :
       Return("add", AddPartition(disk, Part(type, "active", -1, g.start, g.end), c, a))

Remove(n) ==
  /\ Editable
  /\ GetPartition(disk, n).type = "extended" => {p \in Active(disk) : IsLogical(p)} = {}
  /\ \E a \in Answers : Return("remove", RemovePartition(disk, n, a))

Delete(n) == Editable /\ \E a \in Answers : Return("delete", DeletePartition(disk, n, a))

Clear == Editable /\ \E a \in Answers : Return("delete all", DeleteAll(disk, a))

SetGeom(n, g) ==
  /\ Editable
  /\ \E c \in Requests(g), a \in Answers, j \in Junk(n) :
       Return("set geom", SetPartitionGeom(disk, n, c, g.start, g.end, a, j))

Maximize(n) ==
  /\ Editable
  /\ \E a \in Answers, j \in Junk(n) :
       Return("maximize", MaximizePartition(disk, n, ConstraintAny, a, j))

GetMax(n) ==
  /\ Editable
  /\ \E a \in Answers, j \in Junk(n) :
       Return("get max", GetMaxPartitionGeometry(disk, n, ConstraintAny, a, j))

MinimizeExtended ==
  /\ Editable
  /\ LET ext == ExtendedPartition(disk)
     IN  \E a \in Answers, j \in IF ext = NULL THEN {NULL} ELSE Junk(ext.num) :
           Return("minimize", MinimizeExtendedPartition(disk, a, j))

SetCylinderAlignment(state) ==
  Ready /\ \E a \in Answers : Return("set flag", SetFlag(disk, state, a))

Duplicate == Editable /\ \E a \in Answers : Return("duplicate", Fine(DuplicateOf(disk, a)))

Mklabel == ~disk.aborted /\ Return("mklabel", Fine(NewFresh))

\* ped_disk_commit_to_dev, as far as the disk in memory goes: a failed
\* clobber keeps needs_clobber, a failed write does not.
CommitToDev(clobbered, written) ==
  /\ ~disk.aborted
  /\ disk' = IF clobbered THEN [disk EXCEPT !.fresh = FALSE] ELSE disk
  /\ last' = [op |-> "commit", ok |-> clobbered /\ written]

Init == disk = NewFresh /\ last = [op |-> "mklabel", ok |-> TRUE]

Next ==
  \/ \E type \in {"normal", "extended", "logical"} : \E g \in AddGeoms[type] : Add(type, g)
  \/ \E n \in Numbers : Remove(n) \/ Delete(n) \/ Maximize(n) \/ GetMax(n)
  \/ \E n \in Numbers, g \in MoveGeoms : SetGeom(n, g)
  \/ Clear \/ MinimizeExtended \/ Duplicate \/ Mklabel
  \/ \E state \in CylinderModes : SetCylinderAlignment(state)
  \/ \E clobbered, written \in BOOLEAN : CommitToDev(clobbered, written)

Spec == Init /\ [][Next]_vars
=============================================================================
