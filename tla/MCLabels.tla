------------------------------ MODULE MCLabels ------------------------------
(***************************************************************************)
(* The properties of the labels other than msdos and gpt, and the calls    *)
(* TLC explores for each.                                                  *)
(***************************************************************************)
EXTENDS Labels

G(s, e) == [start |-> s, end |-> e]

Requests(adds, move, within, flags, names, parts) ==
  [add |-> adds, move |-> move, fs |-> {"linux-swap"}, within |-> within,
   flags |-> flags, names |-> names, parts |-> parts]

Normal(geoms) == [normal |-> geoms]

AnyOrExact == {"any", "exact"}

MCCalls ==
  [sun   |-> Requests(Normal({G(0, 3), G(5, 9)}), {G(4, 12)}, AnyOrExact, {"boot", "raid"}, {}, 2),
   bsd   |-> Requests(Normal({G(0, 3), G(5, 9)}), {G(4, 12)}, AnyOrExact, {"raid"}, {}, 2),
   pc98  |-> Requests(Normal({G(4, 7), G(9, 12)}), {G(4, 12)}, AnyOrExact, {"boot"}, {"a"}, 2),
   dvh   |-> Requests([normal |-> {G(4, 7)}, logical |-> {G(1, 1), G(2, 2)}], {}, AnyOrExact,
                      {"root", "boot"}, {"a"}, 3),
   amiga |-> Requests(Normal({G(8, 11), G(12, 15)}), {G(8, 15)}, AnyOrExact, {"boot"}, {"a"}, 2),
   mac   |-> Requests(Normal({G(12, 13)}), {}, {"exact"}, {}, {}, 3),
   atari |-> Requests([normal |-> {G(2, 3), G(14, 15), G(16, 16)}, extended |-> {G(4, 13)},
                       logical |-> {G(5, 6), G(8, 9)}], {}, {"exact"}, {}, {}, 4),
   dasd  |-> Requests(Normal({G(4, 7), G(10, 15)}), {G(6, 9)}, AnyOrExact, {"lvm"}, {}, 2),
   loop  |-> Requests(Normal({G(0, 17)}), {G(2, 7)}, AnyOrExact, {}, {}, 1)]

\* The flags of a mac label that are types of partitions.
MCTypeFlags == [MCCalls EXCEPT !.mac.flags = {"lvm", "raid"}]

(***************************************************************************)
(* Media other programs wrote: an RDB whose bad-block list holds block 4,  *)
(* a map with a driver, a map without an entry of its own, a bad sector    *)
(* list in the middle, and a volume of the linux disk layout.              *)
(***************************************************************************)
MacSlots(entries) == entries \o [i \in 1 .. DevLength - 1 - Len(entries) |-> NULL]

MacEntry(start, end, type, n) ==
  [start |-> start, count |-> end - start + 1, data |-> end - start + 1, name |-> "x",
   type |-> type, last |-> n]

MCForeign ==
  {[label |-> "amiga", rdb |-> [at |-> 2, list |-> -1, high |-> 0, taken |-> {4}],
    blocks |-> [b \in 0 .. Amiga!HighestBlock + 1 |-> NULL]],
   [label |-> "mac", drivers |-> {[block |-> 8, size |-> 1]},
    slots |-> MacSlots(<<MacEntry(1, 7, "Apple_partition_map", 2),
                         MacEntry(8, 8, "Apple_Driver", 2)>>)],
   [label |-> "mac", drivers |-> {}, slots |-> MacSlots(<<MacEntry(9, 10, "Apple_HFS", 1)>>)],
   [label |-> "atari", bsl |-> [start |-> 7, count |-> 1], ahdi |-> <<NULL, NULL>>,
    icd |-> <<NULL, NULL>>, ars |-> [s \in 1 .. DevLength - 1 |-> NULL]],
   [label |-> "dasd", format |-> "ldl", start |-> 2, end |-> 15]}

(***************************************************************************)
(* What a table means.                                                     *)
(***************************************************************************)
\* Numbers that are positions on the medium are not stored.
ByPosition(label) == label \in {"amiga", "dasd", "atari"}

Place(d, i, p) ==
  [num |-> IF ByPosition(d.label) THEN i ELSE p.num, type |-> p.type, start |-> p.start, end |-> p.end]

Places(d) ==
  {Place(d, i, d.prim[i]) : i \in 1 .. Len(d.prim)} \cup {Place(d, 0, p) : p \in Elements(d.log)}

FlagsOf(d, p) == {f \in LabelFlags(d, p) : LabelGetFlag(d, p, f)}

\* root and swap are the names of mac partitions of one type.
StoredFlags(d, p) ==
  IF d.label = "mac" /\ p.sys # "Apple_UNIX_SVR2" THEN FlagsOf(d, p) \ {"root", "swap"}
  ELSE FlagsOf(d, p)

\* Every flag, by the place of the partition.
Flagging(d) == {[at |-> p.start, flags |-> StoredFlags(d, p)] : p \in Parts(d)}

Committed == disk # NULL /\ last.op = "commit" /\ last.ok

\* A boot file is known by its name, and bootable when it has the stored one.
NamesTellApart ==
  \A p, q \in Elements(disk.log) : p.name # "" /\ (p # q => p.name # q.name)

\* The map of a mac label and the volume header of a dvh label are themselves
\* partitions, which calls may move, shrink or delete.
OwnPartitionKept ==
  CASE disk.label = "mac" -> \E p \in Parts(disk) : /\ p.num = disk.spec.map
                                                     /\ p.start = 1 /\ p.end = MapSize - 1
    [] disk.label = "dvh" -> \E p \in Parts(disk) : p.type = "extended"
    [] OTHER -> TRUE

\* What the label has room for.
Storable ==
  /\ OwnPartitionKept
  /\ disk.label # "loop"
  /\ disk.label = "dasd" => disk.spec.format = "cdl"
  /\ disk.label = "amiga" => Len(disk.prim) < TableSlots
  /\ disk.label = "dvh" => \A p \in Elements(disk.log) : p.aux = Length(p)
  /\ disk.label = "atari" /\ disk.spec.format = "AHDI" => medium.icd[1] = NULL

StoresFlags == disk.label # "bsd" /\ (disk.label = "dvh" => NamesTellApart)

SameTable(d, e) == Places(d) = Places(e) /\ (StoresFlags => Flagging(d) = Flagging(e))

\* After a successful ped_disk_commit_to_dev whoever opens the device finds
\* the partitions where they were, with the numbers and the flags they had
\* (sun_write and sun_read, and so on for every label that can store them).
CommitReadsBack ==
  Committed /\ Storable =>
    LET d == ReadDisk(medium, {}) IN d # NULL /\ SameTable(d, disk)

Leaves == {p \in Parts(disk) : p.type # "extended"}

\* However the partitions came there (ped_disk_add_partition, moves, a table
\* read from the device), no two share a sector or a number, none covers the
\* sectors the label keeps for itself, logical ones lie in the extended one.
TableIsConsistent ==
  disk # NULL =>
    /\ \A p, q \in Leaves : p # q => ~TestOverlap(p, q)
    /\ \A p \in Leaves, m \in LabelMetadata(disk) : ~TestOverlap(p, m)
    /\ \A p \in Elements(disk.log) : TestInside(ExtendedPartition(disk), p)
    /\ \A p, q \in Parts(disk) : p # q => p.num # q.num

\* No PED_ASSERT of atari_partition_enumerate, atari_write, mac_write or
\* dvh_partition_enumerate fails, and a mac map is not written past its end,
\* unless the map of a mac label was moved or deleted before.
LabelAssertionsHold == last.op = "aborted" => disk # NULL /\ ~OwnPartitionKept

\* A failed call on an atari label may have renumbered the partitions.
Numberless(d) == {[p EXCEPT !.num = 0] : p \in Parts(d)}

Keeps(d) == IF d.label = "atari" THEN Numberless(d) ELSE Parts(d)

\* A call that returns 0 leaves every partition as it was: the error paths of
\* ped_disk_add_partition and ped_disk_set_partition_geom undo what they did.
RefusedCallsUndo ==
  [][last'.op \notin {"open", "aborted"} /\ ~last'.ok /\ disk # NULL => Keeps(disk') = Keeps(disk)]_vars

ListBlocks(raw) == Elements(Amiga!BlocksOf(raw.rdb, raw.blocks))

\* amiga_write puts no partition block where the bad-block, boot or
\* file-system list has one, and dasd_write leaves a free-space label that
\* names exactly the tracks without a data set.
SpaceIsAccounted ==
  /\ medium.label = "amiga" => ListBlocks(medium) \cap medium.rdb.taken = {}
  /\ medium.label = "dasd" /\ medium.format = "cdl" =>
       Dasd!FreeTracks(BigVolume, medium.free) = Dasd!UnusedTracks(medium)

\* ped_disk_duplicate gives an equal disk for the labels that copy all of
\* their data (sun, bsd, pc98, mac, atari and dasd).
DuplicatesAreDeep ==
  disk # NULL /\ disk.label \notin {"amiga", "dvh", "loop"} => Duplicates(disk) = {disk}

\* What a new partition may be marked with: swap by its file system, and on
\* pc98 boot by pc98_partition_set_system.
MarkedByType(label) == {"swap"} \cup (IF label = "pc98" THEN {"boot"} ELSE {})

\* A new partition does not inherit the flags of a deleted one whose number
\* it gets (_flush_stale_flags in dvh_partition_enumerate).
NewPartitionsAreUnmarked ==
  [][last'.op = "add" /\ last'.ok =>
       \A p \in Parts(disk') :
         (\A q \in Parts(disk) : p.start # q.start) => FlagsOf(disk', p) \subseteq MarkedByType(disk.label)]_vars

(***************************************************************************)
(* What the documentation or a test says and the code does not do.         *)
(***************************************************************************)
\* "Deep copy of \p old_disk" (ped_disk_duplicate, disk.c), for every label.
EveryDuplicateIsDeep == disk # NULL => Duplicates(disk) = {disk}

SetAndGet(p, flag, state) ==
  LET d == LabelSetFlag(disk, p, flag, state)
  IN  LabelGetFlag(d, GetPartition(d, p.num), flag) = state

\* "Set the state (1 or 0) of a flag on a partition" (ped_partition_set_flag,
\* disk.c): a flag that a partition has can be cleared.
FlagsCanBeCleared ==
  disk # NULL => \A p \in Parts(disk) : \A flag \in FlagsOf(disk, p) : SetAndGet(p, flag, FALSE)

\* amiga_get_max_supported_partition_count: so many partitions are stored.
FullTableReadsBack ==
  Committed /\ disk.label = "amiga" => Places(ReadDisk(medium, {})) = Places(disk)

\* The map has room for every entry (comment in
\* mac_get_max_primary_partition_count), and the directory of a volume header
\* for every boot file (dvh_partition_enumerate).
NothingAborts == last.op # "aborted"
=============================================================================
