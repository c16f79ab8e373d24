----------------------------- MODULE DosMedium -----------------------------
(***************************************************************************)
(* The msdos label on its medium (libparted/labels/dos.c, with             *)
(* ped_disk_new, ped_disk_clobber and ped_disk_commit_to_dev of            *)
(* libparted/disk.c): the tables that a disk edited by the calls of module *)
(* Disk is written to, one sector after the other, and what a reader       *)
(* finds when only some of them were written.                              *)
(*                                                                         *)
(* A sector of the medium is NULL (no signature) or a table of four        *)
(* entries; an entry is NULL or a record with the type byte, the boot      *)
(* indicator, a start relative to some other sector, and a length.  Boot   *)
(* code, disk identifier and C/H/S addresses are left out.                 *)
(***************************************************************************)
EXTENDS Disk, DosTypes

CONSTANTS
  Flags,            \* the flags callers set
  FsTypes,          \* file systems callers name
  TypeIds,          \* type bytes callers set
  ClobberSectors,   \* sectors zeroed at each end of the device (9 KiB)
  DropsFailed,      \* the caller destroys the disk when a call fails, as parted does
  Histories,        \* the partitions a device may start with, in the order they were made
  MaxEdits,         \* bound: edits between two commits
  MaxCommits        \* bound: commits of a behaviour

VARIABLES
  medium,    \* the device
  reader,    \* what opening the device would find now
  job,       \* the writes of the commit in progress still to be done
  held,      \* the program has the disk open
  before,    \* what a reader found when the commit began
  edits,     \* edits that are not yet written
  commits    \* commits begun

dosVars == <<disk, last, medium, reader, job, held, before, edits, commits>>

Entry(part, offset) ==
  [sys |-> part.sys, boot |-> part.boot, start |-> part.start - offset, length |-> Length(part)]

NoEntries == <<NULL, NULL, NULL, NULL>>

(***************************************************************************)
(* Writing.                                                                *)
(***************************************************************************)
\* part->prev->geom.start, with part a logical partition.
PrevStart(d, part) == d.log[FirstIndex(d.log, LAMBDA p : p = part) - 1].start

\* The sector of the table that describes logical partition num.
TableSector(d, num) ==
  IF num = 5 THEN ExtendedPartition(d).start ELSE PrevStart(d, GetPartition(d, num))

\* Mutant: the link is relative to the table that holds it.
LinkFromTable(d, num) ==
  LET from == TableSector(d, num)
  IN  [sys |-> DOS_EXT, boot |-> FALSE, start |-> from - TableSector(d, num - 1),
       length |-> GetPartition(d, num).end - from + 1]

\* The entry that leads to the table of logical partition num.
LinkTo(d, num) ==
  LET from == TableSector(d, num)
  IN  [sys |-> DOS_EXT, boot |-> FALSE, start |-> from - ExtendedPartition(d).start,
       length |-> GetPartition(d, num).end - from + 1]

\* Mutant: a table is written before the tables it leads to.
ChainForwards(d, num) ==
  LET last5 == 4 + Cardinality({p \in Active(d) : IsLogical(p)})
      write(n) == [sector |-> TableSector(d, n),
                   table |-> <<Entry(GetPartition(d, n), TableSector(d, n)),
                               IF n = last5 THEN NULL ELSE LinkTo(d, n + 1), NULL, NULL>>]
  IN  [i \in 1 .. last5 - num + 1 |-> write(num + i - 1)]

\* write_ext_table: the tables further down the chain come first.
WriteExtTable(d, num) ==
  LET last5 == 4 + Cardinality({p \in Active(d) : IsLogical(p)})
      write(n) == [sector |-> TableSector(d, n),
                   table |-> <<Entry(GetPartition(d, n), TableSector(d, n)),
                               IF n = last5 THEN NULL ELSE LinkTo(d, n + 1), NULL, NULL>>]
  IN  [i \in 1 .. last5 - num + 1 |-> write(last5 - i + 1)]

WriteExtendedPartitions(d) ==
  IF ExtendedPartition(d) = NULL THEN <<>>
  ELSE IF GetPartition(d, 5) # NULL THEN WriteExtTable(d, 5)
  ELSE <<[sector |-> ExtendedPartition(d).start, table |-> NoEntries]>>

PrimaryTable(d) ==
  [i \in 1 .. NPrimary |->
     IF GetPartition(d, i) = NULL THEN NULL ELSE Entry(GetPartition(d, i), 0)]

\* msdos_write: the primary table is the last to be written.
MsdosWrite(d) == WriteExtendedPartitions(d) \o <<[sector |-> 0, table |-> PrimaryTable(d)]>>

\* ped_disk_clobber: some sectors at the start, then some at the end.
Clobber ==
  LET zero(s) == [sector |-> s, table |-> NULL]
      n == PedMin(ClobberSectors, DevLength)
      t == DevLength - (IF ClobberSectors < DevLength THEN ClobberSectors ELSE 1)
  IN  [i \in 1 .. n |-> zero(i - 1)] \o [i \in 1 .. DevLength - t |-> zero(t + i - 1)]

(***************************************************************************)
(* Reading.  A result r has the disk, whether all is well, and whether the *)
(* tables lead round in a circle.                                          *)
(***************************************************************************)
\* raw_part_parse.
Parse(entry, offset, type, num) ==
  Part(type, "active", num, offset + entry.start, offset + entry.start + entry.length - 1)
    @@ [sys |-> entry.sys, boot |-> entry.boot, fs |-> NULL]

Then(r, added) == [r EXCEPT !.disk = added.disk, !.ok = added.ok]

AddParsed(r, part) == Then(r, AddPartition(r.disk, part, ConstraintExact(part), {}))

Bad(r) == [r EXCEPT !.ok = FALSE]

\* One entry of an extended table: a logical partition.
ReadLogical(x, e, sector) ==
  IF ~x.ok \/ e = NULL THEN x
  ELSE IF RawPartIsExtended(e.sys) \/ e.sys = EMPTY \/ e.length = 0 THEN x
  ELSE IF e.start = 0 THEN Bad(x)
  ELSE AddParsed(x, Parse(e, sector, "logical", -1))

ReadLogicals(r, table, sector) ==
  LET read[i \in 0 .. NPrimary] ==
        IF i = 0 THEN r ELSE ReadLogical(read[i - 1], table[i], sector)
  IN  read[NPrimary]

\* Where an entry leads to.
Link(x, e) == ExtendedPartition(x.disk).start + e.start

RECURSIVE ReadExtTable(_, _, _, _)

ReadNested(m, own, table, sector, seen) ==
  LET read[i \in 0 .. NPrimary] ==
        IF i = 0 THEN own
        ELSE IF ~read[i - 1].ok \/ table[i] = NULL THEN read[i - 1]
        ELSE IF ~RawPartIsExtended(table[i].sys) \/ Link(own, table[i]) = sector THEN read[i - 1]
        ELSE ReadExtTable(m, read[i - 1], Link(own, table[i]), seen)
  IN  read[NPrimary]

ReadOwnThenNested(m, r, own, sector, seen) ==
  IF own.ok /\ sector \in seen THEN [own EXCEPT !.ok = FALSE, !.endless = TRUE]
  ELSE ReadNested(m, own, m[sector], sector, IF own.disk = r.disk THEN seen \cup {sector} ELSE {})

\* read_table for an extended table: its logical partitions, then the tables
\* it leads to.  seen holds the tables read since a partition was found.
ReadExtTable(m, r, sector, seen) ==
  IF sector \notin Sectors THEN Bad(r)
  ELSE IF m[sector] = NULL THEN Bad(r)
  ELSE ReadOwnThenNested(m, r, ReadLogicals(r, m[sector], sector), sector, seen)

\* One entry of the primary table.
ReadPrimary(r, i, e, type) ==
  IF e.sys = EMPTY \/ e.length = 0 THEN r
  ELSE IF e.start = 0 THEN Bad(r)
  ELSE AddParsed(r, Parse(e, 0, type, i))

ThenChain(m, r, e, type) ==
  IF r.ok /\ type = "extended" THEN ReadExtTable(m, r, e.start, {}) ELSE r

ReadEntry(m, r, i, e, type) ==
  IF ~r.ok \/ e = NULL THEN r ELSE ThenChain(m, ReadPrimary(r, i, e, type), e, type)

TypeOf(e) == IF e # NULL /\ RawPartIsExtended(e.sys) THEN "extended" ELSE "normal"

\* msdos_probe: a signature, and no partition of type GPT.
MsdosProbe(m) ==
  m[0] # NULL /\ \A i \in 1 .. NPrimary : m[0][i] # NULL => m[0][i].sys # GPT

\* msdos_read, into a new label.
MsdosRead(m) ==
  LET read[i \in 0 .. NPrimary] ==
        IF i = 0 THEN [disk |-> NewFresh, ok |-> MsdosProbe(m), endless |-> FALSE]
        ELSE ReadEntry(m, read[i - 1], i, m[0][i], TypeOf(m[0][i]))
  IN  IF m[0] = NULL THEN read[0] ELSE read[NPrimary]

\* What a reader finds: the partitions, or NULL.
Found(r) == IF r.ok THEN {[p EXCEPT !.fs = NULL] : p \in Active(r.disk)} ELSE NULL

(***************************************************************************)
(* The program.                                                            *)
(***************************************************************************)
Idle == held /\ job = <<>> /\ ~disk.aborted /\ ~disk.junk

Edited(op, r) ==
  /\ held' = (r.ok \/ r.disk.aborted \/ ~DropsFailed)
  /\ Return(op, IF held' THEN r ELSE Failed(NewFresh))
  /\ edits' = IF held' THEN edits + 1 ELSE 0
  /\ UNCHANGED <<medium, reader, job, before, commits>>

CanEdit == Idle /\ ~disk.fresh /\ edits < MaxEdits

\* do_mkpart and do_resizepart set the cylinder-alignment flag first.
Flagged(state) == SetFlag(disk, state, {}).disk

MkPart(type, g, fs) ==
  /\ CanEdit /\ Cardinality(Active(disk)) < MaxParts
  /\ type = "extended" => fs = NULL
  /\ \E state \in CylinderModes :
       Edited("add", AddPartition(Flagged(state),
                       WithSystem(Part(type, "active", -1, g.start, g.end), fs),
                       ConstraintExact(g), {}))

RmPart(n) == CanEdit /\ Edited("delete", DeletePartition(disk, n, {}))

ResizePart(n, g) ==
  /\ CanEdit
  /\ \E state \in CylinderModes, j \in Junk(n) :
       Edited("set geom", SetPartitionGeom(Flagged(state), n, ConstraintExact(g), g.start, g.end, {}, j))

\* Partition num becomes part; with clear, the others lose their boot flag.
WithPart(d, num, part, clear) ==
  LET new(p) == IF ~IsActive(p) THEN p
                ELSE IF p.num = num THEN part
                ELSE IF clear THEN [p EXCEPT !.boot = FALSE] ELSE p
  IN  [d EXCEPT !.prim = [i \in 1 .. Len(@) |-> new(@[i])],
                !.log  = [i \in 1 .. Len(@) |-> new(@[i])]]

\* ped_partition_set_flag.
SetPartFlag(n, flag, state) ==
  LET part == GetPartition(disk, n)
  IN  /\ CanEdit
      /\ Edited("set flag",
           IF IsFlagAvailable(part, flag)
           THEN Fine(WithPart(disk, n, SetOwnFlag(part, flag, state), flag = "boot" /\ state))
           ELSE Failed(disk))

SetPartSystem(n, fs) ==
  CanEdit /\ Edited("set system",
               Fine(WithPart(disk, n, SetSystem(GetPartition(disk, n), fs), FALSE)))

\* do_type: the file system is then probed.
SetTypeId(n, id) ==
  CanEdit /\ Edited("type",
               Fine(WithPart(disk, n, [GetPartition(disk, n) EXCEPT !.sys = id, !.fs = NULL], FALSE)))

MkLabel ==
  /\ CanEdit /\ commits < MaxCommits
  /\ Edited("mklabel", Fine(NewFresh))

\* A logical partition with no prev is a null pointer to write_ext_table,
\* which ends the program like Exit.
HasPrev(d) == d.log # <<>> => ~(IsActive(d.log[1]) /\ d.log[1].num > 5)

Commit ==
  /\ Idle /\ commits < MaxCommits /\ HasPrev(disk)
  /\ job' = (IF disk.fresh THEN Clobber ELSE <<>>) \o MsdosWrite(disk)
  /\ before' = IF disk.fresh THEN NULL ELSE Found(reader)
  /\ commits' = commits + 1
  /\ last' = [op |-> "commit", ok |-> TRUE]
  /\ UNCHANGED <<disk, medium, reader, held, edits>>

\* One sector is written; needs_clobber goes with the last that is zeroed.
WriteSector ==
  /\ job # <<>>
  /\ medium' = [medium EXCEPT ![job[1].sector] = job[1].table]
  /\ reader' = MsdosRead(medium')
  /\ job' = Tail(job)
  /\ disk' = [disk EXCEPT !.fresh = @ /\ Len(job) > Len(MsdosWrite(disk)) + 1]
  /\ edits' = IF job' = <<>> THEN 0 ELSE edits
  /\ UNCHANGED <<last, held, before, commits>>

\* A read or a write fails: the commit returns 0.
WriteError ==
  /\ job # <<>>
  /\ job' = <<>> /\ held' = ~DropsFailed
  /\ Return("commit", Failed(IF DropsFailed THEN NewFresh ELSE disk))
  /\ edits' = IF DropsFailed THEN 0 ELSE edits
  /\ UNCHANGED <<medium, reader, before, commits>>

\* The program ends, or is killed.
Exit ==
  /\ held
  /\ held' = FALSE /\ job' = <<>>
  /\ disk' = NewFresh /\ last' = [op |-> "exit", ok |-> TRUE] /\ edits' = 0
  /\ UNCHANGED <<medium, reader, before, commits>>

\* ped_disk_new.
Opened(r) ==
  /\ r.ok
  /\ Return("open", Fine([r.disk EXCEPT !.fresh = FALSE]))

Open ==
  /\ ~held /\ Opened(reader)
  /\ held' = TRUE
  /\ UNCHANGED <<medium, reader, job, before, edits, commits>>

\* A label with partitions that earlier sessions added one after the other.
Built(requests) ==
  LET empty == [NewFresh EXCEPT !.fresh = FALSE, !.cyl = FALSE]
      made[i \in 0 .. Len(requests)] ==
        IF i = 0 THEN empty
        ELSE AddPartition(made[i - 1],
               WithSystem(Part(requests[i].type, "active", -1, requests[i].start, requests[i].end), NULL),
               ConstraintExact(requests[i]), {}).disk
  IN  made[Len(requests)]

DosInit ==
  \E requests \in Histories :
    LET writes == MsdosWrite(Built(requests))
    IN  /\ disk = Built(requests)
        /\ medium = [s \in Sectors |->
                       IF \E i \in 1 .. Len(writes) : writes[i].sector = s
                       THEN writes[CHOOSE i \in 1 .. Len(writes) : writes[i].sector = s].table
                       ELSE NULL]
        /\ reader = MsdosRead(medium)
        /\ last = [op |-> "open", ok |-> TRUE]
        /\ job = <<>> /\ held = TRUE /\ before = NULL /\ edits = 0 /\ commits = 0

DosNext ==
  \/ \E type \in {"normal", "extended", "logical"} : \E g \in AddGeoms[type], fs \in FsTypes :
       MkPart(type, g, fs)
  \/ \E n \in Numbers : RmPart(n)
  \/ \E n \in Numbers, g \in MoveGeoms : ResizePart(n, g)
  \/ \E n \in Numbers, flag \in Flags, state \in BOOLEAN : SetPartFlag(n, flag, state)
  \/ \E n \in Numbers, fs \in FsTypes : SetPartSystem(n, fs)
  \/ \E n \in Numbers, id \in TypeIds : SetTypeId(n, id)
  \/ MkLabel \/ Commit \/ WriteSector \/ WriteError \/ Exit \/ Open

DosSpec == DosInit /\ [][DosNext]_dosVars
=============================================================================
