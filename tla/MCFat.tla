------------------------------- MODULE MCFat -------------------------------
(***************************************************************************)
(* FAT file systems of a few clusters, and the resizes of them.  The       *)
(* tree has a file A, a directory D with a file B in it, and in the larger *)
(* root directory a deleted entry and an empty file E.                     *)
(***************************************************************************)
EXTENDS FatResize

CONSTANTS
  Kinds,        \* [type, cs, start, length] of the file systems
  Rotations,    \* where the clusters of the tree start
  SizeChanges,  \* by how much the end moves
  StartMoves,   \* by how much the start moves
  Failures      \* which sectors fail

DirSectors(entries, n) ==
  [i \in 1 .. n |-> <<"dir", [k \in 1 .. DirEntries |->
      LET j == (i - 1) * DirEntries + k IN IF j <= Len(entries) THEN entries[j] ELSE NULL]>>]

Entry(name, dir, first, size) == [name |-> name, dir |-> dir, first |-> first, size |-> size]

SizeA == 6
SizeB == 1

\* The clusters in the order in which the tree is given them.
Order(fs, r) ==
  IF r >= 0 THEN [i \in 1 .. fs.count |-> ((i - 1 + r) % fs.count) + 2]
  ELSE [i \in 1 .. fs.count |-> ((fs.count - i - r) % fs.count) + 2]

\* A file system of a kind, as other tools lay one out: no alignment.
LayoutOf(k) ==
  LET root  == IF k.type = 16 THEN 4 ELSE 0
      sizes == CalcSizes(k.length, 0, k.type, root, k.cs)
  IN  [start |-> k.start, length |-> k.length, rootCluster |-> 0, fragSectors |-> k.cs]
      @@ Layout(k.type, k.cs, sizes.count, MinReserved(k.type), sizes.fatSectors, root)

Image(fs, order, full, bad) ==
  LET na == DivRoundUp(SizeA, fs.cs)
      nd == DivRoundUp(3, fs.cs)
      nr == DivRoundUp(4, fs.cs)
      a  == SubSeq(order, 1, na)
      d  == SubSeq(order, na + 1, na + nd)
      b  == SubSeq(order, na + nd + 1, na + nd + 1)
      r  == IF fs.type = 32 THEN SubSeq(order, na + nd + 2, na + nd + 1 + nr) ELSE <<>>
      rest == {order[i] : i \in na + nd + nr + 2 .. Len(order)}
      next(s, c) == LET i == CHOOSE j \in DOMAIN s : s[j] = c IN IF i = Len(s) THEN EOF ELSE s[i + 1]
      in(s, c) == \E i \in DOMAIN s : s[i] = c
      code(c) == IF c < 2 THEN EOF
                 ELSE IF in(a, c) THEN next(a, c) ELSE IF in(d, c) THEN next(d, c)
                 ELSE IF in(b, c) THEN next(b, c) ELSE IF in(r, c) THEN next(r, c)
                 ELSE IF bad /\ c \in rest /\ \A x \in rest : c <= x THEN BAD ELSE 0
      table == [e |-> [c \in 0 .. fs.fatSectors * EntriesPerSector(fs.type) - 1 |-> code(c)]]
      boot  == <<"boot", BootOf([fs EXCEPT !.rootCluster = IF r = <<>> THEN 0 ELSE r[1]])>>
      root  == IF full THEN <<Entry("A", FALSE, a[1], SizeA), Entry("deleted", FALSE, a[1], 1),
                              Entry("D", TRUE, d[1], 0), Entry("E", FALSE, 0, 0)>>
               ELSE <<Entry("A", FALSE, a[1], SizeA), Entry("D", TRUE, d[1], 0)>>
      below == <<Entry(".", TRUE, d[1], 0), Entry("..", TRUE, 0, 0), Entry("B", FALSE, b[1], SizeB)>>
      Fill(at, contents) == [s \in {at[i] : i \in DOMAIN contents} |->
                               contents[CHOOSE i \in DOMAIN contents : at[i] = s]]
      Data(f, size) == [i \in 1 .. size |-> <<"data", f, i>>]
      rootAt == IF fs.type = 32 THEN ChainSectors(fs, r) ELSE RootSectorsOf(fs)
      fats  == TableSectors(table, fs)
      fatAt == [i \in 1 .. 2 * fs.fatSectors |-> fs.start + fs.fatOffset + i - 1]
  IN  Fill(<<fs.start>>, <<boot>>)
      @@ Fill(fatAt, fats \o fats)
      @@ Fill(rootAt, DirSectors(root, Len(rootAt)))
      @@ Fill(ChainSectors(fs, a), Data("A", SizeA))
      @@ Fill(ChainSectors(fs, d), DirSectors(below, nd * fs.cs))
      @@ Fill(ChainSectors(fs, b), Data("B", SizeB))
      @@ (IF fs.type = 32 THEN Fill(<<fs.start + Info, fs.start + Backup>>, <<<<"info">>, boot>>) ELSE <<>>)
      @@ [s \in Sectors |-> <<"other">>]

\* The sectors that fail: none, the last one of file A, or one of the last
\* cluster that the tree does not use.
Failing(fs, order, what) ==
  CASE what = "none" -> {}
    [] what = "data" -> {ChainSectors(fs, SubSeq(order, 1, DivRoundUp(SizeA, fs.cs)))[SizeA]}
    [] what = "free" -> {ChainSectors(fs, <<order[Len(order)]>>)[1]}

Media ==
  {LET fs == LayoutOf(k)  order == Order(fs, r)
   IN  [medium |-> Image(fs, order, full, bad), start |-> k.start, broken |-> Failing(fs, order, what)] :
     k \in Kinds, r \in Rotations, full \in BOOLEAN, bad \in BOOLEAN, what \in Failures}

Geoms(fs) ==
  {g \in Geometries :
     /\ g.start - fs.start \in StartMoves
     /\ g.end - (fs.start + fs.length - 1) \in SizeChanges}

Kind(type, cs, start, length) == [type |-> type, cs |-> cs, start |-> start, length |-> length]
SmallKinds ==
  {Kind(16, 2, 0, 29), Kind(16, 4, 0, 33), Kind(16, 4, 0, 49), Kind(16, 2, 4, 29), Kind(32, 2, 0, 40), Kind(32, 4, 0, 54)}
SmallRotations == {0, 3, -1}
SmallSizeChanges == {-15, -12, -8, -5, -3, -2, 0, 1, 4, 6, 11, 20}
SmallMoves == {-4, 0, 2}

\* A partition that starts further into the device than its clusters do into it.
FarKinds == {Kind(16, 2, 20, 29)}
FarSizeChanges == {-4, 0, 5}
Backwards == {-5, -4}

\* Enough room before the partition for more than five sectors.
EarlierKinds == {Kind(16, 2, 8, 29)}
ToTheStart == {-8}

\* Moves by an odd number of sectors.
OddMoves == {-3, -1, 1, 3}
AroundChanges == -4 .. 9
=============================================================================
