-------------------------------- MODULE Vtoc --------------------------------
(***************************************************************************)
(* The free-space maps of a DASD volume table of contents                  *)
(* (libparted/labels/vtoc.c).  A volume of up to BIG_DISK_SIZE tracks has  *)
(* a format 5 label, whose extents are a first track t, full cylinders fc  *)
(* and further tracks ft; a larger one has a format 7 label, whose extents *)
(* are a first track a and the track b after the last.  The extents fill a *)
(* fixed number of slots; where the code reports a BUG and exits, the      *)
(* result is NULL.                                                         *)
(***************************************************************************)
EXTENDS LabelBase

CONSTANT
  FmtSlots     \* the extents a label holds: 26 in format 5, 16 in format 7

Empty5 == [t |-> 0, fc |-> 0, ft |-> 0]
Empty7 == [a |-> 0, b |-> 0]

InitFormat5 == [i \in 1 .. FmtSlots |-> Empty5]
InitFormat7 == [i \in 1 .. FmtSlots |-> Empty7]

Tracks(ext) == ext.fc * Heads + ext.ft

After(ext) == ext.t + Tracks(ext)

FirstEmpty(f, empty) == LeastOr({i \in 1 .. FmtSlots : f[i] = empty}, FmtSlots + 1)

\* The first extent after which, or before which, extent k lies at once.
Neighbour(f, empty, From(_), To(_), k) ==
  LeastOr({i \in 1 .. FmtSlots : f[i] # empty /\ (To(f[i]) = From(f[k]) \/ To(f[k]) = From(f[i]))}, 0)

Join5(low, high) ==
  [t |-> low.t, fc |-> low.fc + high.fc + (low.ft + high.ft) \div Heads,
   ft |-> (low.ft + high.ft) % Heads]

Join7(low, high) == [a |-> low.a, b |-> high.b]

\* Merging starts over with the extent merged so far, until none adjoins.
Merge(f, k, empty, From(_), To(_), Join(_, _)) ==
  LET merged[n \in 0 .. FmtSlots] ==
        IF n = 0 THEN [f |-> f, k |-> k]
        ELSE LET m == merged[n - 1]
                 i == Neighbour(m.f, empty, From, To, m.k)
             IN  IF i = 0 THEN m
                 ELSE [f |-> [m.f EXCEPT ![i] = IF To(m.f[i]) = From(m.f[m.k])
                                                THEN Join(m.f[i], m.f[m.k])
                                                ELSE Join(m.f[m.k], m.f[i]),
                                         ![m.k] = empty],
                       k |-> i]
  IN  merged[FmtSlots].f

(***************************************************************************)
(* vtoc_update_format5_label_add and vtoc_update_format7_label_add.        *)
(***************************************************************************)
Overlaps5(ext, new) ==
  \/ new.t < ext.t /\ After(new) > ext.t
  \/ new.t > ext.t /\ After(ext) > new.t

Add5(f, new) ==
  LET k == FirstEmpty(f, Empty5)
  IN  IF k > FmtSlots \/ \E i \in 1 .. k : Overlaps5(f[i], new) THEN NULL
      ELSE Merge([f EXCEPT ![k] = new], k, Empty5, LAMBDA e : e.t, After, Join5)

Overlaps7(ext, new) ==
  \/ new.a < ext.a /\ new.b > ext.a /\ new.b < ext.b
  \/ new.a > ext.a /\ new.a < ext.b /\ new.b > ext.b

Add7(f, new) ==
  LET k == FirstEmpty(f, Empty7)
  IN  IF k > FmtSlots \/ \E i \in 1 .. k : Overlaps7(f[i], new) THEN NULL
      ELSE Merge([f EXCEPT ![k] = new], k, Empty7, LAMBDA e : e.a, LAMBDA e : e.b, Join7)

(***************************************************************************)
(* The deletions.  The slots are tried in order; the first that the used   *)
(* tracks lie in is cut, and one they stick out of is a BUG.               *)
(***************************************************************************)
\* What is left of ext, with a borrow of one cylinder if need be.
Less5(ext, used) ==
  IF used.ft > ext.ft
  THEN [ext EXCEPT !.fc = @ - (used.fc + 1), !.ft = @ - (used.ft - Heads)]
  ELSE [ext EXCEPT !.fc = @ - used.fc, !.ft = @ - used.ft]

Sized5(t, n) == [t |-> t, fc |-> n \div Heads, ft |-> n % Heads]

Holds5(ext, used) ==
  \/ used = ext
  \/ used.t = ext.t /\ (used.fc < ext.fc \/ used.ft < ext.ft)
  \/ ext.t < used.t /\ After(ext) >= After(used)

SticksOut5(ext, used) ==
  \/ used.t < ext.t /\ After(used) > ext.t /\ After(used) < After(ext)
  \/ used.t > ext.t /\ used.t < After(ext) /\ After(used) > After(ext)

\* Mutant: a right-bounded partition takes no tracks from its extent.
Cut5Left(f, i, used) ==
  IF used = f[i] THEN [f EXCEPT ![i] = Empty5]
  ELSE IF used.t = f[i].t THEN [f EXCEPT ![i] = [Less5(@, used) EXCEPT !.t = After(used)]]
  ELSE IF After(used) = After(f[i]) THEN f
  ELSE Add5([f EXCEPT ![i] = Sized5(@.t, used.t - @.t)],
            Sized5(After(used), After(f[i]) - After(used)))

Cut5(f, i, used) ==
  IF used = f[i] THEN [f EXCEPT ![i] = Empty5]
  ELSE IF used.t = f[i].t THEN [f EXCEPT ![i] = [Less5(@, used) EXCEPT !.t = After(used)]]
  ELSE IF After(used) = After(f[i]) THEN [f EXCEPT ![i] = Less5(@, used)]
  ELSE Add5([f EXCEPT ![i] = Sized5(@.t, used.t - @.t)],
            Sized5(After(used), After(f[i]) - After(used)))

Delete5(f, used) ==
  LET i == LeastOr({j \in 1 .. FmtSlots : Holds5(f[j], used) \/ SticksOut5(f[j], used)}, 0)
  IN  IF i = 0 \/ SticksOut5(f[i], used) THEN NULL ELSE Cut5(f, i, used)

Holds7(ext, used) == used.a >= ext.a /\ used.b <= ext.b /\ ext # Empty7

SticksOut7(ext, used) ==
  /\ ~Holds7(ext, used)
  /\ \/ used.a < ext.a /\ used.b > ext.a
     \/ used.a < ext.b /\ used.b > ext.b

\* The upper piece is added while the extent still has its old end.
SetEnd7(f, i, b) == IF f = NULL THEN NULL ELSE [f EXCEPT ![i].b = b]

Cut7(f, i, used) ==
  IF used = f[i] THEN [f EXCEPT ![i] = Empty7]
  ELSE IF used.a = f[i].a THEN [f EXCEPT ![i].a = used.b]
  ELSE IF used.b = f[i].b THEN [f EXCEPT ![i].b = used.a]
  ELSE SetEnd7(Add7(f, [a |-> used.b, b |-> f[i].b]), i, used.a)

Delete7(f, used) ==
  LET i == LeastOr({j \in 1 .. FmtSlots : Holds7(f[j], used) \/ SticksOut7(f[j], used)}, 0)
  IN  IF i = 0 \/ SticksOut7(f[i], used) THEN NULL ELSE Cut7(f, i, used)

\* The extents in the order of their tracks, the empty slots last.
Reorganize(f, empty, From(_)) ==
  LET used   == {i \in 1 .. FmtSlots : f[i] # empty}
      nth(n) == {i \in used : Cardinality({j \in used : From(f[j]) < From(f[i])}) = n - 1}
  IN  [n \in 1 .. FmtSlots |-> IF nth(n) = {} THEN empty ELSE f[CHOOSE i \in nth(n) : TRUE]]

Reorganize5(f) == IF f = NULL THEN NULL ELSE Reorganize(f, Empty5, LAMBDA e : e.t)
Reorganize7(f) == IF f = NULL THEN NULL ELSE Reorganize(f, Empty7, LAMBDA e : e.a)

(***************************************************************************)
(* vtoc_set_freespace: both maps of a volume, of which its size says which *)
(* one is kept up to date.                                                 *)
(***************************************************************************)
FreeAll(big, first, last) ==
  IF big THEN Reorganize7(Add7(InitFormat7, [a |-> first, b |-> last + 1]))
  ELSE Reorganize5(Add5(InitFormat5, Sized5(first, last - first + 1)))

Use(big, f, first, last) ==
  IF f = NULL THEN NULL
  ELSE IF big THEN Reorganize7(Delete7(f, [a |-> first, b |-> last + 1]))
  ELSE Reorganize5(Delete5(f, Sized5(first, last - first + 1)))

\* The tracks a map says are free.
FreeTracks(big, f) ==
  UNION {IF big THEN f[i].a .. f[i].b - 1 ELSE f[i].t .. After(f[i]) - 1 : i \in 1 .. FmtSlots}
=============================================================================
