----------------------------- MODULE Constraint -----------------------------
(***************************************************************************)
(* PedConstraint (libparted/cs/constraint.c): the set of geometries whose  *)
(* start and end are aligned, lie in given ranges, and whose length is     *)
(* between min and max.  NULL is the constraint no geometry satisfies.     *)
(***************************************************************************)
EXTENDS NatMath

ConstraintNew(startAlign, endAlign, startRange, endRange, minSize, maxSize) ==
  [startAlign |-> startAlign, endAlign |-> endAlign,
   startRange |-> startRange, endRange |-> endRange,
   min |-> minSize, max |-> maxSize]

ConstraintAny == ConstraintNew(AlignmentAny, AlignmentAny, FullDev, FullDev, 1, DevLength)

ConstraintExact(geom) ==
  ConstraintNew(AlignmentInit(geom.start, 0), AlignmentInit(geom.end, 0),
                GeometryInit(geom.start, 1), GeometryInit(geom.end, 1), 1, DevLength)

NewFromMinMax(min, max) ==
  ConstraintNew(AlignmentAny, AlignmentAny,
                GeometryInit(max.start, min.start - max.start + 1),
                GeometryInit(min.end, max.end - min.end + 1),
                Length(min), Length(max))

NewFromMin(min) == NewFromMinMax(min, FullDev)

NewFromMax(max) == ConstraintNew(AlignmentAny, AlignmentAny, max, max, 1, Length(max))

\* An alignment or range without members leaves no constraint.
NewUnlessEmpty(startAlign, endAlign, startRange, endRange, minSize, maxSize) ==
  IF NULL \in {startAlign, endAlign, startRange, endRange} THEN NULL
  ELSE ConstraintNew(startAlign, endAlign, startRange, endRange, minSize, maxSize)

\* Mutant: the smaller of the two minimum sizes.
IntersectSmallerMin(a, b) ==
  IF a = NULL \/ b = NULL THEN NULL
  ELSE NewUnlessEmpty(AlignmentIntersect(a.startAlign, b.startAlign),
                      AlignmentIntersect(a.endAlign, b.endAlign),
                      GeometryIntersect(a.startRange, b.startRange),
                      GeometryIntersect(a.endRange, b.endRange),
                      PedMin(a.min, b.min), PedMin(a.max, b.max))

ConstraintIntersect(a, b) ==
  IF a = NULL \/ b = NULL THEN NULL
  ELSE NewUnlessEmpty(AlignmentIntersect(a.startAlign, b.startAlign),
                      AlignmentIntersect(a.endAlign, b.endAlign),
                      GeometryIntersect(a.startRange, b.startRange),
                      GeometryIntersect(a.endRange, b.endRange),
                      PedMax(a.min, b.min), PedMin(a.max, b.max))

(***************************************************************************)
(* _constraint_get_canonical_start_range, once the first and the last end  *)
(* are known.                                                              *)
(***************************************************************************)
StartRangeOfEnds(c, firstEnd, lastEnd) ==
  LET minStart == PedMax(firstEnd - c.max + 1, 0)
      maxStart == lastEnd - c.min + 1
  IN  IF \/ c.min > c.max
         \/ firstEnd = -1 \/ lastEnd = -1 \/ firstEnd > lastEnd
         \/ lastEnd < c.min
         \/ maxStart < 0
      THEN NULL
      ELSE GeometryIntersect(GeometryInit(minStart, maxStart - minStart + 1), c.startRange)

CanonicalStartRange(c) ==
  StartRangeOfEnds(c, AlignDown(c.endAlign, c.endRange, c.endRange.start),
                      AlignUp(c.endAlign, c.endRange, c.endRange.end))

NearestIn(al, range, sector) == IF range = NULL THEN -1 ELSE AlignNearest(al, range, sector)

NearestStartSoln(c, start) == NearestIn(c.startAlign, CanonicalStartRange(c), start)

\* Mutant: max_size counted from the sector after start.
EndRangeTooLong(c, start) ==
  LET first == start + c.min - 1
      last  == PedMin(start + c.max, DevLength - 1)
  IN  IF first > DevLength - 1 THEN NULL
      ELSE GeometryIntersect(GeometryInit(first, last - first + 1), c.endRange)

EndRange(c, start) ==
  LET first == start + c.min - 1
      last  == PedMin(start + c.max - 1, DevLength - 1)
  IN  IF first > DevLength - 1 THEN NULL
      ELSE GeometryIntersect(GeometryInit(first, last - first + 1), c.endRange)

NearestEndSoln(c, start, end) == NearestIn(c.endAlign, EndRange(c, start), end)

(***************************************************************************)
(* ped_constraint_solve_nearest, without its closing assertion, which is   *)
(* the property SolutionsAreSolutions of MCConstraint.                     *)
(***************************************************************************)
Between(start, end) ==
  IF start = -1 \/ end = -1 THEN NULL ELSE GeometryInit(start, end - start + 1)

SolveFrom(c, start, end) == Between(start, NearestEndSoln(c, start, end))

SolveNearest(c, geom) ==
  IF c = NULL THEN NULL ELSE SolveFrom(c, NearestStartSoln(c, geom.start), geom.end)

SolveMax(c) == SolveNearest(c, FullDev)

IsSolution(c, geom) ==
  /\ IsAligned(c.startAlign, NULL, geom.start)
  /\ IsAligned(c.endAlign, NULL, geom.end)
  /\ TestSectorInside(c.startRange, geom.start)
  /\ TestSectorInside(c.endRange, geom.end)
  /\ Length(geom) \in c.min .. c.max
=============================================================================
