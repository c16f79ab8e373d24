------------------------------ MODULE Geometry ------------------------------
(***************************************************************************)
(* PedGeometry (libparted/cs/geom.c): a non-empty run of sectors of one    *)
(* device.  A geometry is a record [start, end]; the length is derived, as *)
(* ped_geometry_set keeps the three fields in step.  All geometries of the *)
(* project lie on one device of DevLength sectors, so the "same device"    *)
(* tests of the C code are always true and are left out.  NULL is the      *)
(* absent object.                                                          *)
(***************************************************************************)
EXTENDS Integers

CONSTANTS
  NULL,       \* the C null pointer
  DevLength   \* dev->length, in sectors

ASSUME DevLengthAssumption == DevLength \in Nat \ {0}

Sectors == 0 .. DevLength - 1

Geometries == {g \in [start : Sectors, end : Sectors] : g.start <= g.end}

\* The sectors a geometry covers.
Span(g) == g.start .. g.end

(***************************************************************************)
(* ped_geometry_init: start and length; a length below 1 is refused.       *)
(***************************************************************************)
GeometryInit(start, length) ==
  IF length < 1 THEN NULL ELSE [start |-> start, end |-> start + length - 1]

Length(g) == g.end - g.start + 1

FullDev == GeometryInit(0, DevLength)

\* PED_MAX and PED_MIN.
PedMax(a, b) == IF a > b THEN a ELSE b
PedMin(a, b) == IF a < b THEN a ELSE b

GeometryIntersect(a, b) ==
  IF a = NULL \/ b = NULL \/ PedMax(a.start, b.start) > PedMin(a.end, b.end)
  THEN NULL
  ELSE [start |-> PedMax(a.start, b.start), end |-> PedMin(a.end, b.end)]

TestOverlap(a, b) ==
  IF a.start < b.start THEN a.end >= b.start ELSE b.end >= a.start

TestInside(a, b) == b.start >= a.start /\ b.end <= a.end

TestSectorInside(g, sector) == sector >= g.start /\ sector <= g.end

(***************************************************************************)
(* ped_geometry_map: both the sector of src, tested as a device address,   *)
(* and its use as an offset from src->start are the code's.                *)
(***************************************************************************)
GeometryMap(dst, src, sector) ==
  LET result == src.start + sector - dst.start
  IN  IF ~TestSectorInside(src, sector) \/ result < 0 \/ result > Length(dst)
      THEN -1
      ELSE result
=============================================================================
