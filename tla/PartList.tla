------------------------------ MODULE PartList ------------------------------
(***************************************************************************)
(* The partition lists of a PedDisk (libparted/disk.c): what the raw list  *)
(* primitives do, and the geometry checks shared by adding and moving.     *)
(*                                                                         *)
(* A disk is a record                                                      *)
(*   prim    disk->part_list, in list order                                *)
(*   log     the extended partition's part_list, in list order             *)
(*   mode    disk->update_mode                                             *)
(*   fresh   disk->needs_clobber                                           *)
(*   cyl     the label's cylinder_alignment flag                           *)
(*   aborted a PED_ASSERT failed: the program has ended                    *)
(*   stale   history: "moved" when the placeholders were last rebuilt for  *)
(*           a geometry that was then put back, "renumbered" when they     *)
(*           were rebuilt for numbers that then changed, else "no"         *)
(*   junk    history: an uninitialised geometry was read                   *)
(* and a partition is a record with its type, its role (active, or one of  *)
(* the metadata and free-space placeholders), its number, start and end;   *)
(* being a record with start and end it is also a geometry.                *)
(***************************************************************************)
EXTENDS Constraint, Sequences, FiniteSets

CONSTANTS
  MaxPartStart,   \* largest start sector the label can store (pt-limit.gperf)
  MaxPartLength   \* largest partition length the label can store

Part(type, role, num, start, end) ==
  [type |-> type, role |-> role, num |-> num, start |-> start, end |-> end]

SetGeometry(part, geom) == [part EXCEPT !.start = geom.start, !.end = geom.end]

Elements(list) == {list[i] : i \in 1 .. Len(list)}

\* The first index of list that satisfies Test, or one past its end.
FirstIndex(list, Test(_)) ==
  CHOOSE i \in 1 .. Len(list) + 1 :
    /\ i <= Len(list) => Test(list[i])
    /\ \A j \in 1 .. i - 1 : ~Test(list[j])

IsActive(p)  == p.role = "active"
IsLogical(p) == p.type = "logical"

Parts(d)  == Elements(d.prim) \cup Elements(d.log)
Active(d) == {p \in Parts(d) : IsActive(p)}

FirstOf(list) == IF list = <<>> THEN NULL ELSE list[1]

ExtendedPartition(d) == FirstOf(SelectSeq(d.prim, LAMBDA p : p.type = "extended"))

GetPartition(d, num) ==
  FirstOf(SelectSeq(d.prim \o d.log, LAMBDA p : p.num = num /\ IsActive(p)))

ListOf(d, part) == IF IsLogical(part) THEN d.log ELSE d.prim

WithList(d, part, list) ==
  IF IsLogical(part) THEN [d EXCEPT !.log = list] ELSE [d EXCEPT !.prim = list]

(***************************************************************************)
(* _disk_raw_add: before the first partition that starts after part ends.  *)
(***************************************************************************)
RawAdd(d, part) ==
  LET list == ListOf(d, part)
      i    == FirstIndex(list, LAMBDA p : p.start > part.end)
  IN  WithList(d, part, SubSeq(list, 1, i - 1) \o <<part>> \o SubSeq(list, i, Len(list)))

RawRemove(d, part) == WithList(d, part, SelectSeq(ListOf(d, part), LAMBDA p : p # part))

\* part->geom = geom for a partition in the list: its place does not change.
RawSetGeometry(d, part, geom) ==
  LET list == ListOf(d, part)
  IN  WithList(d, part,
        [i \in 1 .. Len(list) |-> IF list[i] = part THEN SetGeometry(part, geom) ELSE list[i]])

(***************************************************************************)
(* The walk shared by _partition_get_overlap_constraint and its adapted    *)
(* copy _log_meta_overlap_constraint: pass over the partitions that start  *)
(* before geom or that the free region found so far has already reached;   *)
(* the region ends where the next partition (other than part) starts.      *)
(* Gap(p) sectors are kept before p for its partition table.               *)
(***************************************************************************)
FreeRegion(list, part, geom, bounds, Gap(_)) ==
  LET n          == Len(list)
      low[i \in 0 .. n] ==
        IF i = 0 THEN bounds.start
        ELSE IF list[i].num = part.num THEN low[i - 1] ELSE list[i].end + 1 + Gap(part)
      first(i)   == list[i].start - Gap(list[i])
      passed(i)  == first(i) < geom.start - Gap(part) \/ low[i - 1] >= first(i)
      stop       == CHOOSE i \in 1 .. n + 1 :
                      (i <= n => ~passed(i)) /\ \A j \in 1 .. i - 1 : passed(j)
      rest       == {j \in stop .. n : list[j].num # part.num}
      next       == CHOOSE j \in rest : \A k \in rest : j <= k
  IN  [min |-> low[stop - 1], max |-> IF rest = {} THEN bounds.end ELSE first(next) - 1]

\* What may fill a free region of more than slack sectors.
RegionConstraint(region, slack) ==
  IF region.min + slack > region.max THEN NULL
  ELSE NewFromMax([start |-> region.min, end |-> region.max])

\* LLONG_MAX - 1 for the end of the region after the last primary.
Unlimited == 2 * DevLength

OverlapConstraint(d, part, geom) ==
  RegionConstraint(
    FreeRegion(ListOf(d, part), part, geom,
      IF IsLogical(part) THEN ExtendedPartition(d) ELSE [start |-> 0, end |-> Unlimited],
      LAMBDA p : 0), 0)

(***************************************************************************)
(* _disk_remove_freespace.                                                 *)
(***************************************************************************)
RemoveFreespace(d) ==
  LET keep(list) == SelectSeq(list, LAMBDA p : p.role # "free")
  IN  [d EXCEPT !.prim = keep(d.prim), !.log = keep(d.log)]

\* Mutant: nothing is put into a gap of one sector.
FillWideGaps(list, type, lastEnd, end) ==
  LET free(s, e) == IF s >= e THEN <<>> ELSE <<Part(type, "free", -1, s, e)>>
      n == Len(list)
      filled[i \in 0 .. n] ==
        IF i = 0 THEN <<>>
        ELSE LET last == IF i = 1 THEN lastEnd ELSE list[i - 1].end
             IN  filled[i - 1] \o free(last + 1, list[i].start - 1) \o <<list[i]>>
  IN  filled[n] \o free((IF n = 0 THEN lastEnd ELSE list[n].end) + 1, end)

\* The loops of _disk_alloc_freespace and _alloc_extended_freespace: a
\* placeholder wherever a partition starts past the end of the one before.
FillGaps(list, type, lastEnd, end) ==
  LET free(s, e) == IF s > e THEN <<>> ELSE <<Part(type, "free", -1, s, e)>>
      n == Len(list)
      filled[i \in 0 .. n] ==
        IF i = 0 THEN <<>>
        ELSE LET last == IF i = 1 THEN lastEnd ELSE list[i - 1].end
             IN  filled[i - 1] \o free(last + 1, list[i].start - 1) \o <<list[i]>>
  IN  filled[n] \o free((IF n = 0 THEN lastEnd ELSE list[n].end) + 1, end)

FillDisk(d, ext) ==
  [d EXCEPT !.log  = IF ext = NULL THEN @ ELSE FillGaps(@, "logical", ext.start, ext.end),
            !.prim = FillGaps(@, "normal", -1, DevLength - 1)]

AllocFreespace(d) == FillDisk(RemoveFreespace(d), ExtendedPartition(d))

(***************************************************************************)
(* _check_partition.  ignored is the set of warnings the caller's          *)
(* exception handler answers with Ignore; the others are cancelled.        *)
(***************************************************************************)
Warnings == {"overlap", "logical outside", "primary inside", "outside disk"}

CheckExtendedPartition(d, ext, part) ==
  \/ ext = NULL
  \/ /\ ext.num = part.num
     /\ \A p \in Elements(d.log) : TestInside(part, p)

\* ptt_partition_check: the limits of the on-disk fields.
PartitionCheck(part) == Length(part) <= MaxPartLength /\ part.start <= MaxPartStart

CheckBeside(d, ext, part, ignored) ==
  /\ part.type = "extended" => CheckExtendedPartition(d, ext, part)
  /\ IsLogical(part) /\ ~TestInside(ext, part) => "logical outside" \in ignored
  /\ ~IsLogical(part) /\ ext # NULL /\ TestInside(ext, part)
       => ext.num = part.num \/ "primary inside" \in ignored
  /\ part.end >= DevLength => "outside disk" \in ignored
  /\ part.role = "metadata" \/ PartitionCheck(part)

CheckPartition(d, part, ignored) == CheckBeside(d, ExtendedPartition(d), part, ignored)
=============================================================================
