------------------------------- MODULE MCDisk -------------------------------
(***************************************************************************)
(* The properties of the partition table in memory, and the request sets   *)
(* TLC explores.                                                           *)
(***************************************************************************)
EXTENDS Disk

Types == {"normal", "extended", "logical"}

G(s, e) == [start |-> s, end |-> e]

\* Every request.
AllAdds == [type \in Types |-> Geometries]

\* Every request but those for extended partitions too short to hold a logical
\* one, and for the longest primary and logical partitions.
SmallAdds ==
  [type \in Types |->
     CASE type = "normal"   -> {g \in Geometries : Length(g) <= 3}
       [] type = "extended" -> {g \in Geometries : Length(g) >= 3}
       [] type = "logical"  -> {g \in Geometries : Length(g) <= 2}]

\* Moves on a device of six sectors: growing, shrinking, sliding, onto the
\* partition table and onto neighbours.
SmallMoves == {G(0, 2), G(1, 5), G(2, 3), G(3, 5)}

\* A chain of logical partitions on a device of ten sectors.
LogicalAdds ==
  [type \in Types |->
     CASE type = "normal"   -> {}
       [] type = "extended" -> {G(2, 9)}
       [] type = "logical"  -> {G(3, 3), G(4, 4), G(6, 6), G(7, 9)}]
LogicalMoves == {G(2, 9), G(3, 9), G(2, 5), G(7, 7)}

\* Requests around cylinder boundaries (every fourth sector) on a device of nine.
CylinderAdds ==
  [type \in Types |->
     CASE type = "normal"   -> {G(1, 2), G(3, 7)}
       [] type = "extended" -> {G(1, 7), G(3, 8)}
       [] type = "logical"  -> {G(2, 3), G(4, 7), G(6, 7)}]
CylinderMoves == {G(2, 3), G(2, 7), G(4, 7)}

\* Overlapping, misplaced and legal requests for a caller that ignores warnings.
LaxAdds ==
  [type \in Types |->
     CASE type = "normal"   -> {G(0, 1)}
       [] type = "extended" -> {G(1, 3)}
       [] type = "logical"  -> {G(1, 1), G(3, 3)}]
LaxMoves == {G(2, 2)}

NormalAdds == [type \in Types |-> IF type = "normal" THEN Geometries ELSE {}]
TinyExtended == [type \in Types |-> IF type = "extended" THEN {G(1, 1), G(2, 5)} ELSE {}]
NoMoves == {}

\* What an uninitialised range holds: anything, or a few cases of it.
AnyLeftover == Geometries \cup {NULL}
FewLeftovers == {NULL, G(0, 0), G(2, 3)}

\* `last` only labels the step that led to a disk: no property of a state
\* mentions it.
View == disk

\* No assertion has failed and no uninitialised value was read.
Defined == ~disk.aborted /\ ~disk.junk

Logicals == {p \in Active(disk) : IsLogical(p)}

(***************************************************************************)
(* Well-formed records; update mode is left by every call that returns.    *)
(***************************************************************************)
TypeOK ==
  /\ disk.mode = 0 \/ disk.aborted
  /\ disk.fresh \in BOOLEAN /\ disk.cyl \in BOOLEAN /\ disk.aborted \in BOOLEAN
  /\ disk.stale \in {"no", "moved", "renumbered"} /\ disk.junk \in BOOLEAN
  /\ \A p \in Parts(disk) :
       /\ p.type \in Types /\ p.role \in {"active", "metadata", "free"}
       /\ p.num \in {-1} \cup 1 .. MaxTotalPart
       /\ p.start \in Nat /\ p.end \in Nat

\* The list covers lo .. hi, each sector once and in order.
Tiles(list, lo, hi) ==
  /\ list # <<>> /\ list[1].start = lo /\ list[Len(list)].end = hi
  /\ \A i \in 1 .. Len(list) : list[i].start <= list[i].end
  /\ \A i \in 1 .. Len(list) - 1 : list[i + 1].start = list[i].end + 1

(***************************************************************************)
(* What callers of ped_disk_get_partition_by_sector and                    *)
(* ped_disk_next_partition rely on: outside update mode partitions and     *)
(* placeholders together cover the device exactly once and in order, and   *)
(* the logical list does the same for the extended partition (when that is *)
(* at least a track long, or not empty).  Excepted is the state after a    *)
(* failed ped_disk_set_partition_geom.                                     *)
(***************************************************************************)
ListsTileTheDisk ==
  Defined /\ disk.stale # "moved" =>
    LET ext == ExtendedPartition(disk)
    IN  /\ Tiles(disk.prim, 0, DevLength - 1)
        /\ ext = NULL => disk.log = <<>>
        /\ ext # NULL /\ (Length(ext) >= BiosSectors \/ Logicals # {}) =>
             Tiles(disk.log, ext.start, ext.end)

(***************************************************************************)
(* Partition numbers name partitions: they are unique, primaries have 1 to *)
(* 4, and the logical ones are 5, 6, ... without a hole, whatever was      *)
(* added, deleted or removed in between (ped_disk_enumerate_partitions).   *)
(***************************************************************************)
NumbersAreDense ==
  /\ \A p, q \in Active(disk) : p.num = q.num => p = q
  /\ {p.num : p \in Logicals} = 5 .. 4 + Cardinality(Logicals)
  /\ \A p \in Active(disk) \ Logicals : p.num \in 1 .. NPrimary

(***************************************************************************)
(* Every table msdos_write has to store keeps a sector of its own: sector  *)
(* 0 for the MBR, the first sector of the extended partition for the       *)
(* table of partition 5, and one sector inside the extended partition      *)
(* before each other logical partition.                                    *)
(***************************************************************************)
TablesHaveRoom ==
  Defined =>
    /\ \A p \in Active(disk) : ~TestSectorInside(p, 0)
    /\ \A p \in Logicals :
         LET ext   == ExtendedPartition(disk)
             table == IF p.num = 5 THEN ext.start ELSE p.start - 1
         IN  /\ table >= ext.start + Gap5(p)
             /\ \A q \in Logicals : ~TestSectorInside(q, table)

(***************************************************************************)
(* disk.c:236, "Deep copy of old_disk": ped_disk_duplicate recomputes the  *)
(* placeholders from the active partitions alone and arrives at the same   *)
(* lists, so these hold no history of the calls that built them.           *)
(***************************************************************************)
DuplicateIsDeepCopy ==
  Defined /\ disk.stale = "no" => DuplicateOf(disk, {}) = disk

(***************************************************************************)
(* disk.c:2281, "If it does fail, part will remain unchanged": a call that *)
(* returns 0 leaves every partition with its number and geometry.  The     *)
(* error path of ped_disk_maximize_partition (also reached from            *)
(* get_max_partition_geometry) goes back under the "any" constraint, which *)
(* alignment to cylinders may satisfy elsewhere.                           *)
(***************************************************************************)
FailedCallsKeepPartitions ==
  [][~last'.ok /\ Defined' /\ ~(last'.op \in {"maximize", "get max"} /\ disk.cyl) =>
       Active(disk') = Active(disk)]_vars

(***************************************************************************)
(* ped_disk_get_max_partition_geometry grows the partition to ask how far  *)
(* it can grow; afterwards the disk, placeholders included, is as before.  *)
(***************************************************************************)
GetMaxLeavesNoTrace ==
  [][last'.op = "get max" /\ last'.ok /\ Defined' /\ disk.stale = "no" => disk' = disk]_vars

(***************************************************************************)
(* No call fails one of the code's assertions but the three that put an    *)
(* earlier geometry back (GetMaxNeverAborts below is about one of them):   *)
(* adding, deleting, duplicating and maximizing never abort.               *)
(***************************************************************************)
AssertionsHold ==
  [][disk'.aborted => last'.op \in {"set geom", "get max", "minimize"}]_vars

(***************************************************************************)
(* Statements of the repository that the code does not keep.               *)
(***************************************************************************)

\* disk.c:1797, a sector without a partition is "should never get here,
\* unless sect is outside of disk's useable part, or we're in update mode".
EverySectorIsFound ==
  Defined => \A s \in Sectors : \E p \in Parts(disk) :
               TestSectorInside(p, s) /\ ~(p.type = "extended")

\* dos.c:2057-2058, _log_meta_overlap_constraint "should get rid of the infamous
\* Assertion (metadata_length > 0) failed bug".
MovesNeverAbort == [][last'.op = "set geom" => ~disk'.aborted]_vars

\* disk.c:2439, "this assertion should never fail, because the old geometry
\* was valid".
GetMaxNeverAborts == [][last'.op = "get max" => ~disk'.aborted]_vars

\* disk.c:2141, "Can't have overlapping partitions.": adding is refused, or
\* the new partition moved, when it would overlap an existing one.
NoOverlap ==
  \A p, q \in Active(disk) :
    p # q /\ IsLogical(p) = IsLogical(q) => ~TestOverlap(p, q)

\* dos.c:1813, "you can't start a partition at the beginning of the 1st
\* cylinder, because that's where the partition table is!"
MbrIsKept == ~disk.aborted => \A p \in Active(disk) : ~TestSectorInside(p, 0)

\* disk.c:2448, "Reduce the size of the extended partition to a minimum while
\* still wrapping its logical partitions."
MinimizeReduces ==
  [][last'.op = "minimize" /\ last'.ok /\ Defined' /\ ExtendedPartition(disk') # NULL =>
       TestInside(ExtendedPartition(disk), ExtendedPartition(disk'))]_vars

\* dos.c:1962, the "extended partition must contain [...] all partition tables
\* for all logical partitions (except the first)".
MinimizeNeverAborts == [][last'.op = "minimize" => ~disk'.aborted]_vars

\* disk.c:2351, "The new geometry will be a superset of the old geometry."
MaximizeGrows ==
  [][last'.op = "maximize" /\ last'.ok /\ Defined' =>
       \A p \in Active(disk) : \E q \in Active(disk') : q.num = p.num /\ TestInside(q, p)]_vars
=============================================================================
