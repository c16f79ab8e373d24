------------------------------ MODULE DosGeom ------------------------------
(***************************************************************************)
(* The BIOS geometry of an msdos label (libparted/labels/dos.c).  An entry *)
(* of the table holds its first and last sector twice: as numbers, and as  *)
(* cylinder, head and sector packed into three bytes.  Reading the label   *)
(* infers from both the heads and sectors that the second form was         *)
(* computed with.  A geometry is [heads, sectors], without the cylinders,  *)
(* which only count the device.                                            *)
(***************************************************************************)
EXTENDS NatMath, Sequences

CONSTANTS
  LowCylinders,      \* cylinders that the low byte tells apart: 256
  SectorField,       \* values of the sector field, 0 is not a sector: 64
  MaxChsCylinder,    \* 1021
  MaxHeads           \* 255

LastCylinder == 4 * LowCylinders - 1
MaxSectors == SectorField - 1

\* chs_get_cylinder and chs_get_sector.  The top two bits of the sector byte
\* are those of the cylinder.
ChsCylinder(chs) == chs.cylinder + (chs.sector \div SectorField) * LowCylinders
ChsSector(chs) == (chs.sector % SectorField) - 1

\* chs_to_sector; 0 when the address says nothing.
ChsToSector(g, chs) ==
  IF ChsCylinder(chs) > MaxChsCylinder \/ ChsSector(chs) < 0 THEN 0
  ELSE (ChsCylinder(chs) * g.heads + chs.head) * g.sectors + ChsSector(chs)

PackChs(c, h, s) ==
  [cylinder |-> c % LowCylinders, head |-> h,
   sector |-> s + 1 + (c \div LowCylinders) * SectorField]

\* Mutant: the last address is kept as it is, and its cylinder wraps.
SectorToChsWrapped(g, sector) ==
  PackChs((sector \div (g.heads * g.sectors)) % (LastCylinder + 1),
          (sector \div g.sectors) % g.heads, sector % g.sectors)

\* sector_to_chs.
SectorToChs(g, sector) ==
  LET c == sector \div (g.heads * g.sectors)
  IN  IF c > MaxChsCylinder THEN PackChs(LastCylinder, g.heads - 1, g.sectors - 1)
      ELSE PackChs(c, (sector \div g.sectors) % g.heads, sector % g.sectors)

\* An entry that was written with geometry g (fill_raw_part), as read_table
\* keeps it in orig.
Written(g, start, end) ==
  [start |-> start, end |-> end, chsStart |-> SectorToChs(g, start), chsEnd |-> SectorToChs(g, end)]

\* partition_check_bios_geometry.
CheckGeometry(e, g) ==
  /\ ChsToSector(g, e.chsStart) \in {0, e.start}
  /\ ChsToSector(g, e.chsEnd) \in {0, e.end}

\* The checks that close probe_partition_for_geom.  The end may be one
\* cylinder too low.
Confirm(e, heads, sectors) ==
  LET At(chs, c) == (c * heads + chs.head) * sectors + ChsSector(chs)
      C == ChsCylinder(e.chsEnd)
  IN  IF /\ heads \in 1 .. MaxHeads
         /\ At(e.chsStart, ChsCylinder(e.chsStart)) = e.start
         /\ e.end \in {At(e.chsEnd, C), At(e.chsEnd, C + 1)}
      THEN [heads |-> heads, sectors |-> sectors] ELSE NULL

\* probe_partition_for_geom: two linear equations for the sectors of a
\* cylinder and of a head.
ProbePartition(e) ==
  LET c  == ChsCylinder(e.chsStart)  h == e.chsStart.head  a == e.start - ChsSector(e.chsStart)
      C  == ChsCylinder(e.chsEnd)    H == e.chsEnd.head    A == e.end - ChsSector(e.chsEnd)
      denum == c * H - C * h
      numer == a * H - A * h
      cyl   == IF denum < 0 THEN CDiv(-numer, -denum) ELSE CDiv(numer, denum)
      head  == IF h > 0 THEN CDiv(a - c * cyl, h) ELSE CDiv(A - C * cyl, H)
  IN  IF h >= MaxHeads \/ H >= MaxHeads \/ c > C THEN NULL
      ELSE IF e.end > (C + 1) * MaxHeads * MaxSectors THEN NULL
      ELSE IF C > MaxChsCylinder \/ C = 0 \/ denum = 0 THEN NULL
      ELSE IF cyl * denum # numer \/ cyl \notin 1 .. MaxHeads * MaxSectors THEN NULL
      ELSE IF head \notin 1 .. MaxSectors THEN NULL
      ELSE Confirm(e, cyl \div head, head)

\* The first of the answers that is one.
First(answers) ==
  LET found == {i \in DOMAIN answers : answers[i] # NULL}
  IN  IF found = {} THEN NULL ELSE answers[CHOOSE i \in found : \A j \in found : i <= j]

Either(x, y) == IF x = NULL THEN y ELSE x

\* disk_probe_bios_geometry, of partitions [entry, boot, fs]: fs is what the
\* boot sector of a file system says (probe_filesystem_for_geom), or NULL.
\* Bootable ones first, then all entries, then all file systems.
DiskProbe(dev, parts) ==
  LET entry(i) == ProbePartition(parts[i].entry)
      boot(i)  == IF parts[i].boot THEN Either(parts[i].fs, entry(i)) ELSE NULL
  IN  Either(First([i \in DOMAIN parts |-> boot(i)]),
      Either(First([i \in DOMAIN parts |-> entry(i)]),
      Either(First([i \in DOMAIN parts |-> parts[i].fs]), dev)))

\* The end of msdos_read: the geometry that the device has afterwards.
ReadGeometry(dev, parts) ==
  IF \A i \in DOMAIN parts : CheckGeometry(parts[i].entry, dev) THEN dev ELSE DiskProbe(dev, parts)
=============================================================================
