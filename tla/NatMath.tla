------------------------------- MODULE NatMath -------------------------------
(***************************************************************************)
(* Rounding and PedAlignment (libparted/cs/natmath.c).  An alignment       *)
(* [offset, grain] stands for the sectors offset + X * grain; grain 0      *)
(* leaves the single sector offset, grain 1 every sector.                  *)
(***************************************************************************)
EXTENDS Geometry

(***************************************************************************)
(* The division of C truncates towards zero; TLA+'s rounds down.           *)
(***************************************************************************)
CDiv(a, b) == IF a < 0 THEN -((-a) \div b) ELSE a \div b
CMod(a, b) == a - b * CDiv(a, b)

AbsMod(a, b) == IF a < 0 THEN CMod(a, b) + b ELSE CMod(a, b)

RoundDownTo(sector, grain) == sector - AbsMod(sector, grain)

RoundUpTo(sector, grain) ==
  IF CMod(sector, grain) # 0 THEN RoundDownTo(sector, grain) + grain ELSE sector

\* Alignments as ped_alignment_init leaves them.
AlignmentInit(offset, grain) ==
  [offset |-> IF grain # 0 THEN AbsMod(offset, grain) ELSE offset,
   grain  |-> grain]

AlignmentAny == AlignmentInit(0, 1)

(***************************************************************************)
(* extended_euclid: gcd = x * a + y * b.                                   *)
(***************************************************************************)
ExtendedEuclid[a \in Nat, b \in Nat] ==
  IF b = 0
  THEN [gcd |-> a, x |-> 1, y |-> 0]
  ELSE LET tmp == ExtendedEuclid[b, a % b]
       IN  [gcd |-> tmp.gcd, x |-> tmp.y, y |-> tmp.x - (a \div b) * tmp.y]

\* Mutant: the two progressions are assumed to meet.
IntersectUnchecked(a, b) ==
  LET f == ExtendedEuclid[a.grain, b.grain]
  IN  AlignmentInit(a.offset + f.x * CDiv(b.offset - a.offset, f.gcd) * a.grain,
                    CDiv(a.grain * b.grain, f.gcd))

(***************************************************************************)
(* The body of ped_alignment_intersect once a has the larger grain.        *)
(***************************************************************************)
MeetWith(a, b, f, delta) ==
  IF a.offset + f.x * delta * a.grain # b.offset - f.y * delta * b.grain
  THEN NULL
  ELSE AlignmentInit(a.offset + f.x * delta * a.grain, CDiv(a.grain * b.grain, f.gcd))

IntersectOrdered(a, b) ==
  LET f == ExtendedEuclid[a.grain, b.grain]
  IN  MeetWith(a, b, f, CDiv(b.offset - a.offset, f.gcd))

AlignmentIntersect(a, b) ==
  IF a = NULL \/ b = NULL THEN NULL
  ELSE IF a.grain = 0 /\ b.grain = 0
       THEN IF a.offset = b.offset THEN AlignmentInit(a.offset, a.grain) ELSE NULL
       ELSE IntersectOrdered(IF a.grain < b.grain THEN b ELSE a, IF a.grain < b.grain THEN a ELSE b)

IsAligned(al, geom, sector) ==
  /\ geom = NULL \/ TestSectorInside(geom, sector)
  /\ IF al.grain # 0 THEN CMod(sector - al.offset, al.grain) = 0
                     ELSE sector = al.offset

(***************************************************************************)
(* _closest_inside_geometry: pull an aligned sector into geom by whole     *)
(* grains, first up, then down; -1 when it ends outside.                   *)
(***************************************************************************)
PullUp(grain, geom, s) ==
  IF s < geom.start THEN s + RoundUpTo(geom.start - s, grain) ELSE s

PullDown(grain, geom, s) ==
  IF s > geom.end THEN s - RoundUpTo(s - geom.end, grain) ELSE s

InsideOrNone(geom, s) == IF TestSectorInside(geom, s) THEN s ELSE -1

ClosestInsideGeometry(al, geom, sector) ==
  IF al.grain = 0
  THEN IF IsAligned(al, geom, sector) THEN sector ELSE -1
  ELSE InsideOrNone(geom, PullDown(al.grain, geom, PullUp(al.grain, geom, sector)))

AlignWith(Round(_, _), al, geom, sector) ==
  ClosestInsideGeometry(al, geom,
    IF al.grain = 0 THEN al.offset
                    ELSE Round(sector - al.offset, al.grain) + al.offset)

AlignUp(al, geom, sector)   == AlignWith(RoundUpTo, al, geom, sector)
AlignDown(al, geom, sector) == AlignWith(RoundDownTo, al, geom, sector)

Distance(a, b) == IF a < b THEN b - a ELSE a - b

\* Mutant: the rounded-up sector whenever there is one.
ClosestPrefersUp(sector, a, b) == IF a = -1 THEN b ELSE a

Closest(sector, a, b) ==
  IF a = -1 THEN b
  ELSE IF b = -1 THEN a
  ELSE IF Distance(sector, a) < Distance(sector, b) THEN a ELSE b

AlignNearest(al, geom, sector) ==
  Closest(sector, AlignUp(al, geom, sector), AlignDown(al, geom, sector))
=============================================================================
