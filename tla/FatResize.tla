----------------------------- MODULE FatResize -----------------------------
(***************************************************************************)
(* ped_file_system_resize for FAT (libparted/fs/r/filesys.c and            *)
(* libparted/fs/r/fat/resize.c, clstdup.c, context.c).                     *)
(*                                                                         *)
(* A new file system is laid out so that its clusters match those of the   *)
(* old one.  Files that fall outside it, and all directories, are copied   *)
(* to clusters free in both; then come the new FAT (in memory), the new    *)
(* directories, the FATs and the boot sector.  Every call that writes to   *)
(* the device is one element of job and one step, so every state between   *)
(* two of them is a state that an interruption leaves.                     *)
(*                                                                         *)
(* broken is the set of sectors that can be neither read nor written.      *)
(***************************************************************************)
EXTENDS FatFs, SequencesExt

CONSTANTS
  StartFs,         \* [medium, start, broken]: what a run starts from
  NewGeoms(_),     \* the geometries that a file system may be resized to
  BufferSectors,   \* BUFFER_SIZE: 1024
  RootSectors,     \* sectors of the root directory of a new FAT16: 32
  RootMin          \* and the least that FAT32 gets for it: 16

VARIABLES
  medium,   \* the contents of the device
  broken,   \* sectors that fail
  old,      \* ctx->old_fs, the file system as it was opened
  new,      \* ctx->new_fs with its FAT, NULL before
  ctx,      \* geom, and of FatOpContext remap, offset (buffer_offset), newRoot
  job,      \* write calls still to be made: [cells, must]
  phase,    \* the step of fat_resize that comes when they are made
  before    \* the tree before the resize (history)

vars == <<medium, broken, old, new, ctx, job, phase, before>>

NoContext == [geom |-> NULL, remap |-> <<>>, offset |-> 0, newRoot |-> <<>>]

\* Steps before the directory tree is touched, and the ends: "aborted" and
\* "failed" return 0 (before and after that), "assert" is a failed assertion
\* and "undefined" the use of sizes that were never calculated.
EarlyPhases == {"idle", "create", "dup", "alloc", "fat", "free", "clear"}
Ends == {"aborted", "failed", "done", "lost", "assert", "undefined"}

\* One write call: the contents of its sectors; whether the caller gives up
\* if it fails.
Call(at, contents, must) ==
  [cells |-> [s \in {at + i - 1 : i \in DOMAIN contents} |-> contents[s - at + 1]], must |-> must]

Zeros(n) == [i \in 1 .. n |-> <<"zero">>]

(***************************************************************************)
(* ped_file_system_clobber_exclude.                                        *)
(***************************************************************************)
\* ped_file_system_clobber: the "last two sectors" are counted from the end
\* of the device, and then from the start of the geometry.
Clobber(g) ==
  LET len == PedMin(Length(g), DevLength)
      tail == g.start + DevLength - 2
  IN  IF len <= 5 THEN <<Call(g.start, Zeros(len), TRUE)>>
      ELSE <<Call(g.start, Zeros(3), TRUE), Call(tail, Zeros(2), TRUE)>>

GeomOf(fs) == GeometryInit(fs.start, fs.length)


ClobberExclude(g, exclude) ==
  IF TestSectorInside(exclude, g.start) THEN <<>>
  ELSE Clobber(IF TestOverlap(g, exclude) THEN [g EXCEPT !.end = exclude.start - 1] ELSE g)

(***************************************************************************)
(* create_resize_context.                                                  *)
(***************************************************************************)
\* ask_type: the types that the answers to the question lead to.  Without a
\* handler the type stays, and a conversion that is needed goes ahead.
AskType(fs, ok16, ok32) ==
  IF ok16 /\ ok32 THEN {16, 32, NULL}
  ELSE IF ok16 THEN IF fs.type = 16 THEN {16} ELSE {16, NULL}
  ELSE IF ok32 THEN IF fs.type = 32 THEN {32} ELSE {32, NULL}
  ELSE {NULL}

\* get_fat_type: FAT16 is tried with the root directory that fs has, which is
\* none for FAT32.
FatTypes(fs, length) ==
  AskType(fs,
    CalcResizeSizes(length, fs.cs, 16, fs.rootSectors, fs.cs) # NULL,
    CalcResizeSizes(length, fs.cs, 32, fs.rootSectors, fs.cs) # NULL)

HypotheticalRoot(fs) == IF fs.rootSectors = 0 THEN RootSectors ELSE fs.rootSectors

NewSizes(fs, length, type) == CalcResizeSizes(length, fs.cs, type, HypotheticalRoot(fs), fs.cs)

\* The layout of the new file system.
NewFs(fs, g, type, sizes) ==
  LET root  == IF type = 16 THEN HypotheticalRoot(fs) ELSE 0
      align == CalcAlignSectors(fs, g.start, Length(g), type, root, sizes)
  IN  [start |-> g.start, length |-> Length(g), rootCluster |-> 0, fragSectors |-> sizes.cs]
      @@ Layout(type, sizes.cs, sizes.count, MinReserved(type) + align, sizes.fatSectors, root)

\* calc_deltas; the clusters must be a whole number of new clusters apart.
ClusterDelta(o, n) == (n.start + n.clusterOffset) - (o.start + o.clusterOffset)

\* fat_op_context_map_static_fragment: where the sectors of a fragment of the
\* old file system are in the new one.
MapStatic(o, n, frag) ==
  LET result == frag - ClusterDelta(o, n) \div n.fragSectors
  IN  IF result \in Frags(n) THEN result ELSE -1

\* Mutant: the clusters that stay where they are are not marked.
InitialFatEmpty(o, n) == TableNew(n.fatSectors * EntriesPerSector(n.type), n.count)

\* fat_op_context_create_initial_fat: bad and used clusters, and the metadata
\* of the old file system as ped_geometry_map finds it.
InitialFat(o, n) ==
  LET frags  == {f \in Frags(o) : FragFlag(o, f) # "free" /\ MapStatic(o, n, f) # -1}
      to(f)  == FragToCluster(n, MapStatic(o, n, f))
      bad    == {to(f) : f \in {g \in frags : FragFlag(o, g) = "bad"}}
      meta   == {GeometryMap(GeomOf(n), GeomOf(o), s) : s \in 0 .. o.clusterOffset - 1} \ {-1}
      used   == {to(f) : f \in frags}
                \cup {SectorToCluster(n, s) : s \in {t \in meta : IsSectorInClusters(n, t)}}
      empty  == TableNew(n.fatSectors * EntriesPerSector(n.type), n.count)
  IN  [empty EXCEPT !.e = [c \in DOMAIN @ |->
         IF c \in used THEN IF c \in bad THEN BAD ELSE EOF ELSE @[c]]]

(***************************************************************************)
(* fat_duplicate_clusters.                                                 *)
(***************************************************************************)
\* init_remap.
InitRemap(o, n) == [f \in Frags(o) |-> MapStatic(o, n, f)]

\* needs_duplicating.
NeedsDuplicating(o, n, frag) ==
  \/ FragFlag(o, frag) = "dir"
  \/ FragFlag(o, frag) = "file" /\ MapStatic(o, n, frag) = -1

FragSectorsOf(fs, frag) ==
  {fs.start + FragToSector(fs, frag) + i : i \in 0 .. fs.fragSectors - 1}

FragContents(m, fs, frag) ==
  [i \in 1 .. fs.fragSectors |-> m[fs.start + FragToSector(fs, frag) + i - 1]]

WriteFrag(n, frag, contents) == Call(n.start + FragToSector(n, frag), contents, TRUE)

Merge(calls) ==
  LET at == UNION {DOMAIN calls[i].cells : i \in DOMAIN calls}
  IN  [cells |-> [s \in at |-> calls[CHOOSE i \in DOMAIN calls : s \in DOMAIN calls[i].cells].cells[s]],
       must |-> TRUE]

\* The state of write_fragments: the FAT of the new file system, remap, the
\* group (pairs of an old fragment and its new place), the calls made, and
\* whether it fails ("space") or an assertion does ("assert").
Writing(fat, remap) == [fat |-> fat, remap |-> remap, group |-> <<>>, calls |-> <<>>, fail |-> "no"]

\* slow_group_write for one fragment at new fragment f: a cluster number is
\* taken for the replacement of a fragment number, and the other way round.
RECURSIVE PlaceSlowly(_, _, _)
PlaceSlowly(n, fat, f) ==
  IF FragSectorsOf(n, f) \cap broken = {} THEN [fat |-> fat, to |-> f]
  ELSE LET marked == TableSet(fat, f, BAD)
           next   == Alloc(marked)
       IN  IF next = 0 THEN [fat |-> marked, to |-> -1]
           ELSE PlaceSlowly(n, [marked EXCEPT !.last = next], next)

RECURSIVE SlowGroup(_, _, _, _)
SlowGroup(o, n, w, group) ==
  IF group = <<>> \/ w.fail # "no" THEN w
  ELSE LET g == Head(group)
           p == PlaceSlowly(n, w.fat, g.to)
           v == [w EXCEPT !.fat = p.fat]
       IN  SlowGroup(o, n,
             IF p.to = -1 THEN [v EXCEPT !.fail = "space"]
             ELSE [v EXCEPT !.calls = Append(@, WriteFrag(n, p.to, FragContents(medium, o, g.of))),
                            !.remap = [@ EXCEPT ![g.of] = p.to]],
             Tail(group))

\* group_write: one call for the whole range, which is read and written back
\* between the fragments; fragment by fragment if any sector of it fails.
GroupWrite(o, n, w) ==
  LET range == w.group[1].to .. w.group[Len(w.group)].to
      quick == \A f \in range : FragSectorsOf(n, f) \cap broken = {}
      moved == {w.group[i].of : i \in DOMAIN w.group}
      at(f) == CHOOSE i \in DOMAIN w.group : w.group[i].of = f
      v     == IF quick
               THEN [w EXCEPT
                      !.calls = Append(@, Merge([i \in DOMAIN w.group |->
                          WriteFrag(n, w.group[i].to, FragContents(medium, o, w.group[i].of))])),
                      !.remap = [f \in DOMAIN @ |-> IF f \in moved THEN w.group[at(f)].to ELSE @[f]]]
               ELSE SlowGroup(o, n, w, w.group)
  IN  [v EXCEPT !.group = <<>>]

\* write_fragments for the fragments frags, in order.  frags of a group that
\* no longer fit in the buffer together are written in two groups.
RECURSIVE WriteFragments(_, _, _, _)
WriteFragments(o, n, w, frags) ==
  IF w.fail # "no" THEN w
  ELSE IF frags = <<>> THEN GroupWrite(o, n, w)
  ELSE LET cluster == Alloc(w.fat)
           to   == ClusterToFrag(n, cluster)
           item == [of |-> Head(frags), to |-> to]
           v    == [w EXCEPT !.fat = [TableSet(@, cluster, EOF) EXCEPT !.last = cluster]]
       IN  IF cluster = 0 THEN [w EXCEPT !.fail = "space"]
           ELSE IF w.group # <<>> /\ to < w.group[1].to THEN [w EXCEPT !.fail = "assert"]
           ELSE WriteFragments(o, n,
                  IF w.group = <<>> \/ to - w.group[1].to + 1 <= BufferSectors \div n.fragSectors
                  THEN [v EXCEPT !.group = Append(@, item)]
                  ELSE [GroupWrite(o, n, v) EXCEPT !.group = <<item>>],
                  Tail(frags))

(***************************************************************************)
(* The root directory of FAT32, and the new FAT.                           *)
(***************************************************************************)
\* fat_table_alloc_check_cluster, k times: a cluster that cannot be read is
\* marked bad.  The clusters found are not marked as used.
RECURSIVE AllocRoot(_, _, _, _)
AllocRoot(n, fat, k, found) ==
  LET c == Alloc(fat)
      next == [fat EXCEPT !.last = c]
  IN  IF k = 0 THEN [fat |-> fat, root |-> found]
      ELSE IF c = 0 THEN [fat |-> fat, root |-> <<>>]
      ELSE IF FragSectorsOf(n, ClusterToFrag(n, c)) \cap broken # {}
      THEN AllocRoot(n, TableSet(next, c, BAD), k, found)
      ELSE AllocRoot(n, next, k - 1, Append(found, c))

RootClusters(o, n) == DivRoundUp(PedMax(RootMin, o.rootSectors), n.cs)

\* Mutant: the chain of a file stops at the end of each old cluster.
NextOldFragInCluster(o, frag) ==
  IF (frag + 1) % ClusterFrags(o) # 0 /\ IsFragActive(o, frag + 1) THEN frag + 1 ELSE -1

\* _get_next_old_frag.
NextOldFrag(o, frag) ==
  IF (frag + 1) % ClusterFrags(o) # 0
  THEN IF IsFragActive(o, frag + 1) THEN frag + 1 ELSE -1
  ELSE LET next == o.fat.e[FragToCluster(o, frag)]
       IN  IF IsEof(next) THEN -1 ELSE ClusterToFrag(o, next)

\* fat_op_context_map_cluster.
MapCluster(o, n, remap, cluster) ==
  LET f == remap[ClusterToFrag(o, cluster)] IN IF f = -1 THEN 0 ELSE FragToCluster(n, f)

\* fat_construct_new_fat: the entry of a new cluster comes from the last old
\* fragment that is mapped to it.  For a root directory that was allocated,
\* its chain.
NewFat(o, n, c) ==
  LET active == {f \in Frags(o) : IsFragActive(o, f)}
      bad    == {f \in Frags(o) : FragFlag(o, f) = "bad" /\ MapStatic(o, n, f) # -1}
      to     == [f \in active \cup bad |->
                   FragToCluster(n, IF f \in bad THEN MapStatic(o, n, f) ELSE c.remap[f])]
      entry(f) == IF f \in bad THEN BAD
                  ELSE IF NextOldFrag(o, f) = -1 THEN EOF ELSE to[NextOldFrag(o, f)]
      from(k)  == {f \in active \cup bad : to[f] = k}
      root     == c.newRoot
      empty    == TableNew(n.fatSectors * EntriesPerSector(n.type), n.count)
  IN  [empty EXCEPT !.e = [k \in DOMAIN @ |->
         IF \E i \in DOMAIN root : root[i] = k
         THEN LET i == CHOOSE j \in DOMAIN root : root[j] = k /\ \A l \in DOMAIN root : root[l] = k => l <= j
              IN  IF i = Len(root) THEN EOF ELSE root[i + 1]
         ELSE IF from(k) = {} THEN @[k]
         ELSE entry(CHOOSE f \in from(k) : \A g \in from(k) : g <= f)]]

\* The assertions of fat_construct_new_fat: everything is mapped, and nothing
\* is chained to itself.
NewFatAsserts(o, n, c) ==
  \A f \in Frags(o) : IsFragActive(o, f) =>
    /\ c.remap[f] # -1
    /\ NextOldFrag(o, f) # -1 => c.remap[NextOldFrag(o, f)] # c.remap[f]

\* Mutant: it is not.
FreedNothing(o, n, c) == {}

\* free_root_dir: the copy of the root directory of FAT32 is given back.  The
\* loop goes over the fragments of a new cluster (one), and the number of the
\* new fragment is converted with the old file system.
FreedRoot(o, n, c) ==
  {FragToCluster(o, c.remap[ClusterToFrag(o, RootChain(o)[i])]) : i \in DOMAIN RootChain(o)}

FreeRootAsserts(o, c) ==
  \A i \in DOMAIN RootChain(o) : c.remap[ClusterToFrag(o, RootChain(o)[i])] < FragCount(o)

(***************************************************************************)
(* The directory tree.                                                     *)
(***************************************************************************)
\* An entry as it is written to the new file system.
MapEntry(o, n, remap, e) ==
  IF HasFirstCluster(e) THEN [e EXCEPT !.first = MapCluster(o, n, remap, @)] ELSE e

IsSubdirectory(e) == HasFirstCluster(e) /\ e.dir /\ ~IsDots(e)

\* The entries a directory is rebuilt from: fat_convert_directory leaves out
\* the deleted ones.
Kept(o, n, entries) ==
  IF o.type = n.type THEN Live(entries) ELSE SelectSeq(Live(entries), IsActive)

\* fat_construct_directory and fat_convert_directory: the calls that write a
\* directory with the entries kept to the sectors at, a buffer of per sectors
\* at a time; the directories below an entry are written before the buffer
\* that holds it.  What does not fit is left out.
RECURSIVE WriteDirectory(_, _, _, _, _, _)
WriteDirectory(m, c, n, kept, at, per) ==
  LET o == c.of
      slots == Len(at) * DirEntries
      put   == [i \in 1 .. slots |-> IF i <= Len(kept) THEN MapEntry(o, n, c.remap, kept[i]) ELSE NULL]
      sector(j) == <<"dir", SubSeq(put, (j - 1) * DirEntries + 1, j * DirEntries)>>
      below(i) ==
        LET newAt == ChainSectors(n, Chain(n.fat, put[i].first, {}))
            oldAt == ChainSectors(o, Chain(o.fat, kept[i].first, {}))
        IN  IF i > Len(kept) THEN <<>>
            ELSE IF ~IsSubdirectory(kept[i]) THEN <<>>
            ELSE WriteDirectory(m, c, n,
                   Kept(o, n, EntriesAt(m, IF o.type = n.type THEN newAt ELSE oldAt)), newAt, n.cs)
      buffer(b) ==
        FlattenSeq([i \in 1 .. per * DirEntries |-> below((b - 1) * per * DirEntries + i)])
        \o <<Call(at[(b - 1) * per + 1], [j \in 1 .. per |-> sector((b - 1) * per + j)], FALSE)>>
  IN  FlattenSeq([b \in 1 .. Len(at) \div per |-> buffer(b)])

\* fat_construct_dir_tree.  A legacy root directory is copied as it is first.
RootKept(m, o, n) ==
  Kept(o, n, EntriesAt(m, IF o.type = 32 THEN ChainSectors(o, RootChain(o)) ELSE RootSectorsOf(o)))

RootAt(n) ==
  IF n.type = 32 THEN ChainSectors(n, Chain(n.fat, n.rootCluster, {})) ELSE RootSectorsOf(n)

CopyRoot(m, o, n) ==
  IF o.type = 16 /\ n.type = 16
  THEN <<Call(n.start + n.rootOffset, [i \in 1 .. o.rootSectors |-> m[RootSectorsOf(o)[i]]], TRUE)>>
  ELSE <<>>

TreeCalls(m, c, o, n) ==
  CopyRoot(m, o, n)
  \o WriteDirectory(m, [of |-> o, remap |-> c.remap], n, RootKept(m, o, n), RootAt(n),
                    IF n.type = 16 THEN n.rootSectors ELSE n.cs)

RootFits(m, o, n) == Len(RootKept(m, o, n)) <= Len(RootAt(n)) * DirEntries

(***************************************************************************)
(* The FATs and the boot sector.                                           *)
(***************************************************************************)
\* fat_table_write_all.
FatCalls(n) ==
  [i \in 1 .. 2 |-> Call(n.start + n.fatOffset + (i - 1) * n.fatSectors, TableSectors(n.fat, n), TRUE)]

\* _copy_hidden_sectors.
HiddenCalls(m, o, n) ==
  LET last == PedMin(o.fatOffset, n.fatOffset) - 1
  IN  IF o.type = 16 \/ n.type = 16 THEN <<>>
      ELSE <<Call(n.start + 1, [i \in 1 .. last |-> m[o.start + i]], FALSE)>>

\* fat_boot_sector_write and fat_info_sector_write, whose results are not
\* looked at.
BootCalls(n) ==
  LET boot == <<"boot", BootOf(n)>>
  IN  <<Call(n.start, <<boot>>, FALSE)>>
      \o (IF n.type = 16 THEN <<>>
          ELSE (IF n.start \in broken THEN <<>> ELSE <<Call(n.start + Backup, <<boot>>, FALSE)>>)
               \o <<Call(n.start + Info, <<<<"info">>>>, FALSE)>>)

(***************************************************************************)
(* The steps of fat_resize.                                                *)
(***************************************************************************)
Init ==
  /\ \E s \in StartFs :
       medium = s.medium /\ broken = s.broken /\ old = OpenFs(s.medium, s.start)
  /\ before = TreeAt(medium, old.start)
  /\ new = NULL /\ ctx = NoContext /\ job = <<>> /\ phase = "idle"

\* A write call: the sectors before the first one that fails are written, and
\* none if ped_geometry_write finds one outside the geometry (the clobbering
\* does not go through it).  When it fails, the caller gives up or does not
\* look.
WriteCall ==
  /\ job # <<>>
  /\ LET cells   == Head(job).cells
         bad     == {s \in DOMAIN cells : s \in broken \/ s \notin Sectors}
         outside == phase # "create" /\ \E s \in DOMAIN cells : s \notin Span(ctx.geom)
         done    == {s \in DOMAIN cells : ~outside /\ \A b \in bad : s < b}
     IN  /\ medium' = [s \in DOMAIN medium |-> IF s \in done THEN cells[s] ELSE medium[s]]
         /\ IF (outside \/ bad # {}) /\ Head(job).must
            THEN job' = <<>> /\ phase' = IF phase \in EarlyPhases THEN "aborted" ELSE "failed"
            ELSE job' = Tail(job) /\ UNCHANGED phase
  /\ UNCHANGED <<broken, old, new, ctx, before>>

\* ped_file_system_resize: what is at the new place is clobbered first.
Begin(g) ==
  /\ phase = "idle" /\ job = <<>>
  /\ ctx' = [ctx EXCEPT !.geom = g]
  /\ job' = ClobberExclude(g, GeomOf(old))
  /\ phase' = "create"
  /\ UNCHANGED <<medium, broken, old, new, before>>

\* create_resize_context.
CreateContext ==
  /\ phase = "create" /\ job = <<>>
  /\ \E type \in FatTypes(old, Length(ctx.geom)) :
       LET sizes == NewSizes(old, Length(ctx.geom), type)
           n     == NewFs(old, ctx.geom, type, sizes)
           o     == [old EXCEPT !.fragSectors = n.fragSectors]
       IN  IF type = NULL THEN phase' = "aborted" /\ UNCHANGED <<old, new, ctx>>
           ELSE IF sizes = NULL THEN phase' = "undefined" /\ UNCHANGED <<old, new, ctx>>
           ELSE IF ~CheckResizeGeometry(old, sizes) \/ ClusterDelta(old, n) % n.cs # 0
           THEN phase' = "aborted" /\ UNCHANGED <<old, new, ctx>>
           ELSE /\ phase' = "dup"
                /\ old' = o
                /\ new' = [fat |-> InitialFat(o, n)] @@ n
                /\ ctx' = [ctx EXCEPT !.remap = InitRemap(o, n)]
  /\ UNCHANGED <<medium, broken, job, before>>

\* One round of fat_duplicate_clusters: search_next_fragment, fetch_fragments
\* and write_fragments.  An unreadable sector among those fetched, wanted or
\* not, ends it.
Duplicate ==
  /\ phase = "dup" /\ job = <<>>
  /\ LET frags  == {f \in Frags(old) : f >= ctx.offset /\ NeedsDuplicating(old, new, f)}
         first  == CHOOSE f \in frags : \A g \in frags : f <= g
         size   == BufferSectors \div new.fragSectors
         window == {f \in frags : f < first + size}
         last   == CHOOSE f \in window : \A g \in window : g <= f
         w      == WriteFragments(old, new, Writing(new.fat, ctx.remap), SetToSortSeq(window, <))
     IN  IF frags = {}
         THEN /\ phase' = IF old.type = 16 /\ new.type = 32 THEN "alloc" ELSE "fat"
              /\ UNCHANGED <<new, ctx, job>>
         ELSE IF \E f \in first .. last : FragSectorsOf(old, f) \cap broken # {}
         THEN phase' = "aborted" /\ UNCHANGED <<new, ctx, job>>
         ELSE /\ job' = w.calls
              /\ new' = [new EXCEPT !.fat = w.fat]
              /\ ctx' = [ctx EXCEPT !.remap = w.remap, !.offset = first + size]
              /\ phase' = CASE w.fail = "space"  -> "aborted"
                            [] w.fail = "assert" -> "assert"
                            [] OTHER -> "dup"
  /\ UNCHANGED <<medium, broken, old, before>>

\* alloc_root_dir.
AllocRootDir ==
  /\ phase = "alloc" /\ job = <<>>
  /\ LET r == AllocRoot(new, new.fat, RootClusters(old, new), <<>>)
     IN  IF r.root = <<>>
         THEN phase' = "aborted" /\ UNCHANGED <<new, ctx, job>>
         ELSE /\ phase' = "fat"
              /\ new' = [new EXCEPT !.fat = r.fat, !.rootCluster = r.root[1]]
              /\ ctx' = [ctx EXCEPT !.newRoot = r.root]
              /\ job' = [i \in DOMAIN r.root |->
                           Call(new.start + ClusterToSector(new, r.root[i]), Zeros(new.cs), FALSE)]
  /\ UNCHANGED <<medium, broken, old, before>>

\* fat_construct_new_fat.
ConstructNewFat ==
  /\ phase = "fat" /\ job = <<>>
  /\ new' = [new EXCEPT !.fat = NewFat(old, new, ctx),
                        !.rootCluster = IF old.type = 32 /\ new.type = 32
                                        THEN MapCluster(old, new, ctx.remap, old.rootCluster) ELSE @]
  /\ phase' = IF ~NewFatAsserts(old, new, ctx) THEN "assert"
              ELSE IF old.type = 32 /\ new.type = 16 THEN "free" ELSE "tree"
  /\ UNCHANGED <<medium, broken, old, ctx, job, before>>

\* free_root_dir.
FreeRootDir ==
  /\ phase = "free" /\ job = <<>>
  /\ new' = [new EXCEPT !.fat.e = [k \in DOMAIN @ |->
               IF k \in FreedRoot(old, new, ctx) /\ k < new.count + 2 THEN 0 ELSE @[k]]]
  /\ phase' = IF FreeRootAsserts(old, ctx) THEN "clear" ELSE "assert"
  /\ UNCHANGED <<medium, broken, old, ctx, job, before>>

\* fat_clear_root_dir, whose result is not looked at.
ClearRootDir ==
  /\ phase = "clear" /\ job = <<>>
  /\ job' = [i \in 1 .. new.rootSectors |-> Call(RootSectorsOf(new)[i], Zeros(1), FALSE)]
  /\ phase' = "tree"
  /\ UNCHANGED <<medium, broken, old, new, ctx, before>>

\* fat_construct_dir_tree.  When the root directory is too small the user may
\* lose the files that do not fit.
ConstructDirTree ==
  /\ phase = "tree" /\ job = <<>>
  /\ job' = TreeCalls(medium, ctx, old, new)
  /\ phase' \in IF RootFits(medium, old, new) THEN {"table"} ELSE {"table lost", "failed"}
  /\ UNCHANGED <<medium, broken, old, new, ctx, before>>

\* fat_table_write_all.
WriteFats ==
  /\ phase \in {"table", "table lost"} /\ job = <<>>
  /\ job' = FatCalls(new)
  /\ phase' = IF phase = "table" THEN "boot" ELSE "boot lost"
  /\ UNCHANGED <<medium, broken, old, new, ctx, before>>

\* The rest of fat_resize.
WriteBoot ==
  /\ phase \in {"boot", "boot lost"} /\ job = <<>>
  /\ job' = HiddenCalls(medium, old, new) \o BootCalls(new)
  /\ phase' = IF phase = "boot" THEN "done" ELSE "lost"
  /\ UNCHANGED <<medium, broken, old, new, ctx, before>>

Next ==
  \/ WriteCall
  \/ \E g \in NewGeoms(old) : Begin(g)
  \/ CreateContext
  \/ Duplicate
  \/ AllocRootDir
  \/ ConstructNewFat
  \/ FreeRootDir
  \/ ClearRootDir
  \/ ConstructDirTree
  \/ WriteFats
  \/ WriteBoot

Spec == Init /\ [][Next]_vars

-----------------------------------------------------------------------------
(***************************************************************************)
(* What a resize promises.                                                 *)
(***************************************************************************)
Ended == phase \in Ends /\ job = <<>>

\* The layout lies within the geometry (calc_sizes may give more clusters
\* than fit, see LayoutFits).
Fits(n) == n.clusterOffset + n.count * n.cs <= n.length

\* After a resize that returns 1 and lost nothing by consent, a reader finds
\* at the new place the tree that was there before: every file with its
\* contents, every directory with its . and .. entries, no cluster shared
\* (fat_resize; "fs-resize" in tests/t3000-resize-fs.sh).
FilesSurvive ==
  Ended /\ phase = "done" => TreeAt(medium, new.start) = before

\* Until the directory tree is constructed, and for ever if the resize gives
\* up before that, the old file system is whole, whatever interrupts
\* (fat_op_context_create_initial_fat: "to prevent it from being clobbered").
OriginalIsIntact ==
  phase \in EarlyPhases \cup {"aborted"} => TreeAt(medium, old.start) = before

\* The FAT that is written marks the clusters of the tree, and the bad ones,
\* and no others: nothing is leaked (free_root_dir).
NothingIsLeaked ==
  Ended /\ phase = "done" =>
    LET fs   == OpenFs(medium, new.start)
    IN  fs # NULL => \A c \in Clusters(fs) : fs.fat.e[c] # 0 <=> fs.info[c].flag # "free"

\* No assertion of the resizer fails, and every layout was calculated
\* (clstdup.c, resize.c).
NoAssertionFails == phase \notin {"assert", "undefined"}


\* The least size of the constraint that fat_get_resize_constraint returns is
\* enough: from there up to the present size, fat_check_resize_geometry finds
\* the space for some type.
LeastSizeIsEnough ==
  phase = "idle" =>
    \A length \in ResizeConstraintMin(old) .. old.length :
      \E type \in FatTypes(old, length) \ {NULL} :
        NewSizes(old, length, type) # NULL /\ CheckResizeGeometry(old, NewSizes(old, length, type))

\* The clusters of the new file system lie within its geometry.
LayoutFits == new # NULL => Fits(new)
=============================================================================
