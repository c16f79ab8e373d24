----------------------------- MODULE MCArith -----------------------------
(***************************************************************************)
(* The pure algorithms of libparted against their reference definitions.   *)
(* A behaviour takes one input (a pair of alignments, a constraint, the    *)
(* entries of an msdos label, a location on a device), calls one function  *)
(* on it and keeps the call and its result in `call`.                      *)
(***************************************************************************)
EXTENDS Constraint, DosGeom, Units

CONSTANTS
  MaxGrain,     \* largest grain_size of the pairs of alignments
  Window,       \* sectors -Window .. Window are compared
  Alignments,   \* pairs <<offset, grain>> of the constraints
  Sizes,        \* pairs <<min_size, max_size>>
  LastSector,   \* of the device whose label is read
  Devices       \* devices that locations are printed of

VARIABLES in, call

vars == <<in, call>>

MCAlignments == {<<0, 1>>, <<0, 2>>, <<1, 2>>, <<1, 3>>, <<1, 0>>, <<4, 0>>}
MCSizes == {<<1, 5>>, <<1, 1>>, <<2, 3>>, <<3, 2>>, <<4, 5>>}
MCDevices ==
  {[length |-> n[1], ss |-> n[2], heads |-> 2, sectors |-> 3] : n \in {<<70, 3>>, <<263, 4>>, <<560, 2>>}}

Inputs(kind, values) == {[kind |-> kind, of |-> v] : v \in values}

\* Every alignment of up to MaxGrain, from offsets of either sign.
AllAligns == {AlignmentInit(o, g) : o \in (-MaxGrain) .. MaxGrain, g \in 0 .. MaxGrain}

Aligns == {AlignmentInit(p[1], p[2]) : p \in Alignments}

Constraints(ranges) ==
  {ConstraintNew(sa, ea, sr, er, m[1], m[2]) :
     sa \in Aligns, ea \in Aligns, sr \in ranges, er \in ranges, m \in Sizes}

\* The constraints a second operand of the intersection is drawn from: the
\* ones the label code builds, and the aligned whole-device ones.
Operands ==
  {ConstraintAny} \cup {NewFromMax(g) : g \in Geometries}
    \cup {ConstraintExact(g) : g \in {h \in Geometries : h.start = 1}}
    \cup Constraints({FullDev})

BiosGeometries == [heads : 1 .. MaxHeads, sectors : 1 .. MaxSectors]

\* Labels with one or two entries that were written with one geometry, on a
\* device of another; the file systems, where there are any, agree.
Tables ==
  {[dev |-> d, g |-> g, parts |-> p] : d \in BiosGeometries, g \in BiosGeometries,
     p \in {<< <<s, e>> >> : s \in {0, 1, 2, 3, 4, 7}, e \in {8, 11, 17, 23, 30, 41, LastSector}}
           \cup {<< <<1, 8>>, <<9, 23>> >>, << <<0, 3>>, <<13, 29>> >>}}

PartsOf(t, boot, fs) ==
  [i \in DOMAIN t.parts |->
     [entry |-> Written(t.g, t.parts[i][1], t.parts[i][2]), boot |-> boot /\ i = 1,
      fs |-> IF fs THEN t.g ELSE NULL]]

NoCall == [op |-> "none"]

Init ==
  /\ \/ in \in Inputs("alignments", AllAligns \X AllAligns)
     \/ in \in Inputs("constraint", Constraints(Geometries))
     \/ in \in Inputs("label", Tables)
     \/ in \in Inputs("device", Devices)
  /\ call = NoCall

Call(c) == call' = c /\ UNCHANGED in

IntersectAlignments ==
  Call([op |-> "meet", result |-> AlignmentIntersect(in.of[1], in.of[2])])

Nearest(g) == Call([op |-> "nearest", arg |-> g, result |-> SolveNearest(in.of, g)])

Largest == Call([op |-> "max", result |-> SolveMax(in.of)])

\* Intersections start from the constraints whose two ranges coincide.
Intersect(b) ==
  /\ in.of.startRange = in.of.endRange
  /\ Call([op |-> "intersect", arg |-> b, result |-> ConstraintIntersect(in.of, b)])

ReadLabel(boot, fs) ==
  Call([op |-> "read", boot |-> boot, fs |-> fs, result |-> ReadGeometry(in.of.dev, PartsOf(in.of, boot, fs))])

PrintAndParse(sector, unit) ==
  LET text == Format(in.of, sector * in.of.ss, unit)
  IN  Call([op |-> "print", sector |-> sector, text |-> text, result |-> Parse(in.of, text, FALSE)])

Ready(kind) == call = NoCall /\ in.kind = kind

Next ==
  \/ Ready("alignments") /\ IntersectAlignments
  \/ Ready("constraint") /\ \E g \in Geometries : Nearest(g)
  \/ Ready("constraint") /\ Largest
  \/ Ready("constraint") /\ \E b \in Operands : Intersect(b)
  \/ Ready("label") /\ \E boot, fs \in BOOLEAN : ReadLabel(boot, fs)
  \/ Ready("device") /\ \E s \in 0 .. in.of.length - 1, u \in Units : PrintAndParse(s, u)

Spec == Init /\ [][Next]_vars

\* ped_geometry_map of every sector of src into dst, from one fixed input.
Map(dst, src, sector) ==
  Call([op |-> "map", dst |-> dst, result |-> GeometryMap(dst, src, sector)])

MapSpec ==
  /\ in = [kind |-> "map", of |-> 0] /\ call = NoCall
  /\ [][Ready("map") /\ \E dst, src \in Geometries : \E s \in Span(src) : Map(dst, src, s)]_vars

-----------------------------------------------------------------------------
AlignedSectors(al) ==
  IF al = NULL THEN {} ELSE {s \in (-Window) .. Window : IsAligned(al, NULL, s)}

Solutions(x) == IF x = NULL THEN {} ELSE {g \in Geometries : IsSolution(x, g)}

(***************************************************************************)
(* natmath.c:219, "a sector satisfies the new alignment object if and only *)
(* if it satisfies both of the original ones": the extended Euclid         *)
(* computation of ped_alignment_intersect solves the two congruences, for  *)
(* offsets of either sign and for the single-sector alignments of grain 0. *)
(***************************************************************************)
AlignmentIntersectionIsExact ==
  call.op = "meet" =>
    AlignedSectors(call.result) = AlignedSectors(in.of[1]) \cap AlignedSectors(in.of[2])

(***************************************************************************)
(* geom.c:462, "-1 if sector is not within dst's space, or sector's        *)
(* address inside dst": an answer is an offset a read of dst accepts.      *)
(***************************************************************************)
MapStaysInside ==
  call.op = "map" /\ call.result # -1 => call.result \in 0 .. Length(call.dst) - 1

(***************************************************************************)
(* The assertion that closes ped_constraint_solve_nearest: what the two    *)
(* half-solvers (start first, then an end for that start) put together is  *)
(* a solution of the whole constraint and lies on the device.              *)
(***************************************************************************)
SolutionsAreSolutions ==
  call.op \in {"nearest", "max"} /\ call.result # NULL => call.result \in Solutions(in.of)

(***************************************************************************)
(* The start that solve_nearest returns is as near to the wanted start as  *)
(* that of any solution, and its end as near to the wanted end as that of  *)
(* any solution with the same start: rounding up, rounding down, and       *)
(* pulling back into the range never step over a nearer solution.          *)
(***************************************************************************)
NearestIsNearest ==
  call.op = "nearest" /\ call.result # NULL =>
    \A s \in Solutions(in.of) :
      /\ Distance(call.result.start, call.arg.start) <= Distance(s.start, call.arg.start)
      /\ s.start = call.result.start =>
           Distance(call.result.end, call.arg.end) <= Distance(s.end, call.arg.end)

(***************************************************************************)
(* constraint.c:408, "or NULL when a constrain cannot be satisfied": a     *)
(* constraint that has a solution gets one.                                *)
(***************************************************************************)
SatisfiableIsSolved ==
  call.op = "nearest" /\ call.result = NULL => Solutions(in.of) = {}

(***************************************************************************)
(* constraint.c:439, "Find the largest region that satisfies a             *)
(* constraint".                                                            *)
(***************************************************************************)
MaxIsLargest ==
  call.op = "max" /\ call.result # NULL =>
    \A s \in Solutions(in.of) : Length(s) <= Length(call.result)

(***************************************************************************)
(* ped_constraint_intersect describes exactly the geometries that satisfy  *)
(* both constraints, the "if and only if" of the comment on                *)
(* ped_alignment_intersect included: the extended Euclid computation       *)
(* neither loses nor invents a common sector.                              *)
(***************************************************************************)
IntersectionIsExact ==
  call.op = "intersect" =>
    Solutions(call.result) = Solutions(in.of) \cap Solutions(call.arg)

(***************************************************************************)
(* msdos_read gives the device the geometry that the entries of the label  *)
(* were written with, or, when they say nothing of it, leaves the one it   *)
(* has: the two equations of probe_partition_for_geom never lead to a      *)
(* third geometry.  An entry agrees with the geometry it was written with, *)
(* also where its cylinder no longer fits into the ten bits.               *)
(***************************************************************************)
ReadFindsGeometry ==
  call.op = "read" =>
    LET parts == PartsOf(in.of, call.boot, call.fs)
    IN  /\ \A i \in DOMAIN parts : CheckGeometry(parts[i].entry, in.of.g)
        /\ \/ call.result = in.of.g
           \/ /\ call.result = in.of.dev
              /\ \/ \A i \in DOMAIN parts : CheckGeometry(parts[i].entry, in.of.dev)
                 \/ \A i \in DOMAIN parts : ProbePartition(parts[i].entry) = NULL

(***************************************************************************)
(* A location that ped_unit_format printed and ped_unit_parse takes back   *)
(* is at most half of its last digit away, and less than a sector more     *)
(* when it is before; the sector lies in the range returned with it.       *)
(***************************************************************************)
PrintedIsNear ==
  call.op = "print" /\ call.result # NULL =>
    /\ call.result.sector \in call.result.range.start .. call.result.range.end
    /\ LET t == call.text
           away == Distance(call.sector, call.result.sector)
       IN  CASE t.unit \in {"s", "chs"} -> away = 0
             [] t.unit = "cyl" -> away < in.of.heads * in.of.sectors
             [] OTHER -> away * in.of.ss * 2 * t.den
                           < UnitSize(in.of, t.unit) + (IF call.result.sector < call.sector THEN 2 * in.of.ss * t.den ELSE 1)

(***************************************************************************)
(* unit.c:503, "an area centered on sector": what was printed in a decimal *)
(* unit is understood again, the printed sector being in the range.        *)
(***************************************************************************)
PrintedIsUnderstood ==
  call.op = "print" /\ call.text.unit \in {"kB", "MB", "%"} =>
    /\ call.result # NULL
    /\ call.sector \in call.result.range.start .. call.result.range.end
=============================================================================
