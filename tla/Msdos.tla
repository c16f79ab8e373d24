-------------------------------- MODULE Msdos --------------------------------
(***************************************************************************)
(* The partition-layout operations of the msdos label                      *)
(* (libparted/labels/dos.c): how a partition is aligned, numbered, and     *)
(* which placeholders cover the partition tables.  BIOS geometry is the    *)
(* device's for every partition (partition_probe_bios_geometry for         *)
(* partitions that carry no CHS addresses of their own).                   *)
(***************************************************************************)
EXTENDS PartList

CONSTANTS
  BiosHeads, BiosSectors,   \* dev->bios_geom
  VistaStart,               \* the start kept as it is by cylinder alignment (2048)
  MaxTotalPart              \* MAX_TOTAL_PART

ASSUME BiosAssumption == BiosHeads \in Nat \ {0} /\ BiosSectors \in Nat \ {0}

NPrimary == 4   \* DOS_N_PRI_PARTITIONS

CylSize == BiosHeads * BiosSectors

(***************************************************************************)
(* Alignment without cylinders.                                            *)
(***************************************************************************)
TryConstraint(part, external, internal) ==
  SolveNearest(ConstraintIntersect(external, internal), part)

(***************************************************************************)
(* _get_min_extended_part_geom: what an extended partition must contain,   *)
(* from partition 5 and then the other logical partitions in list order.   *)
(* members is part->part_list.                                             *)
(***************************************************************************)
Include(min, p, headSize) ==
  IF p.num = 5 THEN min
  ELSE [start |-> IF p.start < min.start THEN p.start - 2 * headSize ELSE min.start,
        end   |-> PedMax(p.end, min.end)]

MinAround(five, members, headSize) ==
  LET min[i \in 0 .. Len(members)] ==
        IF i = 0 THEN [start |-> five.start - PedMax(headSize, 2), end |-> five.end]
                 ELSE Include(min[i - 1], members[i], headSize)
  IN  IF five = NULL THEN NULL ELSE min[Len(members)]

Members(d, part) ==
  IF GetPartition(d, part.num) = NULL THEN <<>> ELSE d.log

MinExtendedPartGeom(d, part, headSize) ==
  MinAround(GetPartition(d, 5), Members(d, part), headSize)

(***************************************************************************)
(* _no_geom_extended_constraint.  When the minimum starts at sector 0 the  *)
(* start range has no sector, ped_geometry_init refuses it and the stack   *)
(* variable keeps what it held: junk.                                      *)
(***************************************************************************)
NoGeomExtendedConstraint(min, junk) ==
  IF min = NULL
  THEN ConstraintNew(AlignmentAny, AlignmentAny, GeometryInit(1, DevLength - 1),
                     GeometryInit(1, DevLength - 1), 1, DevLength)
  ELSE ConstraintNew(AlignmentAny, AlignmentAny,
         IF min.start < 1 THEN junk ELSE GeometryInit(1, min.start),
         GeometryInit(min.end, DevLength - min.end), 1, DevLength)

Gap5(p) == IF p.num # 5 THEN 1 ELSE 0

\* Mutant: no sector is kept for the extended partition's own table.
LogMetaNoTable(d, part) ==
  RegionConstraint(
    FreeRegion(d.log, part, part, [ExtendedPartition(d) EXCEPT !.start = @ + Gap5(part)], Gap5), 0)

\* Mutant: no sector is kept before the other logical partitions.
LogMetaNoGap(d, part) ==
  RegionConstraint(
    FreeRegion(d.log, part, part, [ExtendedPartition(d) EXCEPT !.start = @ + 1], LAMBDA p : 0), 0)

(***************************************************************************)
(* _log_meta_overlap_constraint: one sector for the extended partition's   *)
(* table and one before every logical partition other than number 5.       *)
(***************************************************************************)
LogMetaOverlapConstraint(d, part) ==
  RegionConstraint(
    FreeRegion(d.log, part, part,
      [ExtendedPartition(d) EXCEPT !.start = @ + 1 + Gap5(part)], Gap5), 1)

AlignNoGeom(d, part, c, junk) ==
  TryConstraint(part, c,
    CASE part.type = "logical"  -> LogMetaOverlapConstraint(d, part)
      [] part.type = "extended" -> NoGeomExtendedConstraint(MinExtendedPartGeom(d, part, 1), junk)
      [] OTHER                  -> NewFromMax(GeometryInit(1, DevLength - 1)))

(***************************************************************************)
(* Alignment to cylinders.                                                 *)
(***************************************************************************)
BestSolution(part, a, b) ==
  LET head(g) == (g.start \div BiosSectors) % BiosHeads
  IN  IF a = NULL THEN b
      ELSE IF b = NULL THEN a
      ELSE IF a.start \div CylSize = b.start \div CylSize
           THEN IF head(a) < head(b) THEN a ELSE b
           ELSE IF Distance(part.start, a.start) < Distance(part.start, b.start) THEN a ELSE b

\* The ranges may be empty, in which case there is no constraint.
CylinderConstraint(startAlign, startRange, endRange) ==
  IF startRange = NULL \/ endRange = NULL THEN NULL
  ELSE ConstraintNew(startAlign, AlignmentInit(-1, CylSize), startRange, endRange, 1, DevLength)

PrimaryConstraint(min) ==
  LET start == IF CylSize < DevLength THEN CylSize ELSE 1
  IN  IF min = NULL
      THEN CylinderConstraint(AlignmentInit(0, CylSize),
                              GeometryInit(start, DevLength - start), FullDev)
      ELSE CylinderConstraint(AlignmentInit(0, CylSize),
                              GeometryInit(CylSize, min.start + 1 - CylSize),
                              GeometryInit(min.end, DevLength - min.end))

PrimaryStartConstraint(part, min) ==
  LET pos == IF part.start = VistaStart THEN VistaStart ELSE BiosSectors
  IN  IF min = NULL
      THEN CylinderConstraint(AlignmentInit(pos, 0), GeometryInit(pos, DevLength - pos), FullDev)
      ELSE CylinderConstraint(AlignmentInit(pos, 0), GeometryInit(pos, 1),
                              GeometryInit(min.end, DevLength - min.end))

AlignAround(part, c, min) ==
  BestSolution(part, TryConstraint(part, c, PrimaryStartConstraint(part, min)),
                     TryConstraint(part, c, PrimaryConstraint(min)))

AlignPrimary(d, part, c) ==
  AlignAround(part, c,
    IF part.type = "extended" THEN MinExtendedPartGeom(d, part, BiosSectors) ELSE NULL)

LogicalMinStartHead(ext, part, isStart) ==
  (IF isStart THEN 1 + (ext.start % CylSize) \div BiosSectors ELSE 0) + Gap5(part)

LogicalRange(ext, minStart, isStart) ==
  IF isStart THEN [start |-> ext.start, end |-> ext.end]
  ELSE IF minStart >= ext.end THEN NULL
  ELSE [start |-> minStart, end |-> ext.end]

LogicalIn(startOffset, max) == CylinderConstraint(AlignmentInit(startOffset, CylSize), max, max)

LogicalConstraint(ext, startOffset, isStart) ==
  LogicalIn(startOffset, LogicalRange(ext, RoundUpTo(ext.start + 1, CylSize), isStart))

\* The best solution over the heads on which the partition may start.
AlignToHeads(part, room, ext, first, last) ==
  LET best[head \in first - 1 .. last] ==
        IF head < first THEN NULL
        ELSE BestSolution(part, best[head - 1],
               TryConstraint(part, room,
                 LogicalConstraint(ext, RoundDownTo(part.start, CylSize) + head * BiosSectors,
                                   head >= LogicalMinStartHead(ext, part, TRUE))))
  IN  IF room = NULL \/ first > last THEN NULL ELSE best[last]

AlignLogical(d, part, c) ==
  AlignToHeads(part, ConstraintIntersect(c, LogMetaOverlapConstraint(d, part)),
               ExtendedPartition(d), LogicalMinStartHead(NULL, part, FALSE), PedMin(5, BiosHeads) - 1)

(***************************************************************************)
(* msdos_partition_align: the geometry part gets, or NULL.                 *)
(***************************************************************************)
AlignToCylinder(d, part, c) ==
  IF ~d.cyl THEN NULL
  ELSE IF IsLogical(part) THEN AlignLogical(d, part, c) ELSE AlignPrimary(d, part, c)

FirstSolution(a, b) == IF a # NULL THEN a ELSE b

PartitionAlign(d, part, c, junk) ==
  FirstSolution(AlignToCylinder(d, part, c), AlignNoGeom(d, part, c, junk))

\* ped_geometry_set_start asserts that the minimum geometry of an extended
\* partition does not start before the disk.
StartsBefore(geom, sector) == geom # NULL /\ geom.start < sector

PartitionAlignAborts(d, part) ==
  /\ part.type = "extended"
  /\ StartsBefore(MinExtendedPartGeom(d, part, IF d.cyl THEN BiosSectors ELSE 1), 0)

\* The start range of NoGeomExtendedConstraint is read uninitialised.
PartitionAlignReadsJunk(d, part, c) ==
  /\ part.type = "extended" /\ StartsBefore(MinExtendedPartGeom(d, part, 1), 1)
  /\ d.cyl => AlignPrimary(d, part, c) = NULL

(***************************************************************************)
(* Numbers.  msdos_partition_enumerate keeps a primary's number and gives  *)
(* any other partition the first free one; -1 when there is none.          *)
(***************************************************************************)
LeastOrNone(free) == IF free = {} THEN -1 ELSE CHOOSE n \in free : \A m \in free : n <= m

FirstFree(d, from, to) == LeastOrNone({n \in from .. to : GetPartition(d, n) = NULL})

PartitionEnumerate(d, part) ==
  IF part.num # -1 /\ part.num <= NPrimary THEN part.num
  ELSE IF IsLogical(part) THEN FirstFree(d, 5, MaxTotalPart)
  ELSE FirstFree(d, 1, NPrimary)

\* Mutant: the logical partitions keep their numbers.
KeepNumbers(d) == d

(***************************************************************************)
(* ped_disk_enumerate_partitions on this label: in the order of their old  *)
(* numbers the logical partitions move down to the first free number.      *)
(***************************************************************************)
EnumeratePartitions(d) ==
  LET below(p)   == Cardinality({q \in Elements(d.log) : IsActive(q) /\ q.num < p.num})
      renumber(p) == IF IsActive(p) THEN [p EXCEPT !.num = 5 + below(p)] ELSE p
  IN  [d EXCEPT !.log = [i \in 1 .. Len(d.log) |-> renumber(d.log[i])]]

(***************************************************************************)
(* Placeholders.  A step of msdos_alloc_metadata takes and returns the     *)
(* disk and whether all is well so far; after a failure the rest is        *)
(* skipped.                                                                *)
(***************************************************************************)
Fine(d) == [disk |-> d, ok |-> TRUE]
Failed(d) == [disk |-> d, ok |-> FALSE]

AddChecked(d, part, ignored) ==
  IF part.start > part.end \/ ~CheckPartition(d, part, ignored) THEN Failed(d)
  ELSE Fine(RawAdd(d, part))

AddMetadataPart(r, type, start, end, ignored) ==
  IF r.ok THEN AddChecked(r.disk, Part(type, "metadata", -1, start, end), ignored) ELSE r

(***************************************************************************)
(* add_logical_part_metadata; its assertion ends the program.              *)
(***************************************************************************)
\* The end of what comes before part in the list of logical partitions.
EndBefore(d, i) == IF i > 1 THEN d.log[i - 1].end ELSE ExtendedPartition(d).start

AddTableOf(r, part, start, ignored) ==
  IF ~r.ok \/ (part.num = 5 /\ part.start - start < BiosSectors) THEN r
  ELSE IF start >= part.start THEN Failed([r.disk EXCEPT !.aborted = TRUE])
  ELSE AddMetadataPart(r, "logical", start, part.start - 1, ignored)

AddLogicalPartMetadata(r, part, ignored) ==
  AddTableOf(r, part,
    PedMax(RoundDownTo(part.start - 1, CylSize),
           EndBefore(r.disk, FirstIndex(r.disk.log, LAMBDA p : p = part)) + 1), ignored)

\* Up to the first logical number that is not in use.
NextTable(sofar, num, ignored) ==
  LET part == GetPartition(sofar.r.disk, num)
  IN  IF ~sofar.more \/ part = NULL THEN [sofar EXCEPT !.more = FALSE]
      ELSE [r |-> AddLogicalPartMetadata(sofar.r, part, ignored), more |-> TRUE]

LogicalMetadata(r, ignored) ==
  LET after[n \in 4 .. MaxTotalPart + 1] ==
        IF n = 4 THEN [r |-> r, more |-> TRUE]
        ELSE NextTable(after[n - 1], n, ignored)
  IN  after[MaxTotalPart + 1].r

\* used holds the active primaries in list order.
InitEnd(used) ==
  IF used = <<>> THEN BiosSectors - 1 ELSE PedMin(BiosSectors - 1, used[1].start - 1)

FinalStart(d, used) ==
  IF ~d.cyl THEN DevLength - 1
  ELSE PedMax(IF used = <<>> THEN 0 ELSE used[Len(used)].end + 1, RoundDownTo(DevLength, CylSize))

AddInit(d, end, ignored) ==
  IF 0 < end /\ end <= DevLength
  THEN AddMetadataPart(Fine(d), "normal", 0, end, ignored) ELSE Fine(d)

AddFinal(r, initEnd, start, ignored) ==
  IF start < DevLength - 1 /\ initEnd < start
  THEN AddMetadataPart(r, "normal", start, DevLength - 1, ignored) ELSE r

StartEndMetadata(d, ignored) ==
  LET used == SelectSeq(d.prim, IsActive)
  IN  AddFinal(AddInit(d, InitEnd(used), ignored), InitEnd(used), FinalStart(d, used), ignored)

\* The extended partition's own table, up to the first of its members.
AddExtendedTable(r, ext, ignored) ==
  LET end == ext.start + BiosSectors - 1
  IN  AddMetadataPart(r, "logical", ext.start,
        IF r.disk.log = <<>> THEN end ELSE PedMin(end, r.disk.log[1].start - 1), ignored)

AllocMetadata(d, ignored) ==
  IF ExtendedPartition(d) = NULL THEN StartEndMetadata(d, ignored)
  ELSE AddExtendedTable(LogicalMetadata(StartEndMetadata(d, ignored), ignored),
                        ExtendedPartition(d), ignored)
=============================================================================
