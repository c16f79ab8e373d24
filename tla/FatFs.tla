------------------------------- MODULE FatFs -------------------------------
(***************************************************************************)
(* A FAT file system on a medium, and opening it: the allocation table     *)
(* (libparted/fs/r/fat/table.c), the boot sector (bootsector.c), the walk  *)
(* through the directories (traverse.c) and what it says of every cluster  *)
(* and fragment (count.c).                                                 *)
(*                                                                         *)
(* A medium is a function from sectors to tuples:                          *)
(*   <<"boot", b>>   a boot sector with the fields b                       *)
(*   <<"fat", s>>    one sector of a FAT, the sequence s of its entries    *)
(*   <<"dir", s>>    a sector of a directory, DirEntries entries           *)
(*   <<"data", f, i>>  sector i of the file f                              *)
(*   <<"info">>, <<"zero">>, <<"other">>                                   *)
(* A directory entry is NULL when it is all zeros.  Sizes are in sectors.  *)
(***************************************************************************)
EXTENDS FatCalc, Sequences, FiniteSets, TLC

CONSTANTS
  DirEntries,        \* entries of a sector of a directory: 16
  MaxClusters12,     \* 4086
  Info, Backup       \* sectors of the information sector and of the copy of
                     \* the boot sector: 1 and 6

(***************************************************************************)
(* The table.  Codes from BAD on end a chain; only BAD itself is bad.      *)
(***************************************************************************)
BAD == 1000
EOF == 1001

IsEof(code) == code >= BAD

\* fat_table_new, fat_table_clear and fat_table_set_cluster_count.
TableNew(size, count) ==
  [e |-> [c \in 0 .. size - 1 |-> IF c < 2 THEN EOF ELSE 0], count |-> count, last |-> 1]

\* fat_table_set: a cluster outside the file system is refused.
TableSet(ft, cluster, value) ==
  IF cluster >= ft.count + 2 THEN ft ELSE [ft EXCEPT !.e[cluster] = value]

\* fat_table_count_stats.
FreeClusters(ft) == Cardinality({c \in 2 .. ft.count + 1 : ft.e[c] = 0})

\* fat_table_alloc_cluster: the search goes round modulo the number of
\* clusters, so the last two clusters are never found.
Alloc(ft) ==
  LET free == {i \in 1 .. ft.count : ft.e[(i + ft.last) % ft.count] = 0}
  IN  IF free = {} THEN 0
      ELSE ((CHOOSE i \in free : \A j \in free : i <= j) + ft.last) % ft.count

(***************************************************************************)
(* The boot sector.                                                        *)
(***************************************************************************)
\* fat_boot_sector_generate.
BootOf(fs) ==
  [cs |-> fs.cs, reserved |-> fs.fatOffset, rootSectors |-> fs.rootSectors,
   sectors |-> fs.length, fatSectors |-> fs.fatSectors,
   root |-> IF fs.type = 32 THEN fs.rootCluster ELSE 0]

\* The sectors of a file system, as offsets from its start.
Layout(type, cs, count, fatOffset, fatSectors, rootSectors) ==
  [type |-> type, cs |-> cs, count |-> count, fatOffset |-> fatOffset,
   fatSectors |-> fatSectors, rootSectors |-> rootSectors,
   rootOffset |-> IF type = 32 THEN 0 ELSE fatOffset + 2 * fatSectors,
   clusterOffset |-> fatOffset + 2 * fatSectors + rootSectors]

\* fat_boot_sector_probe_type and fat_boot_sector_analyse: the number of
\* clusters is not stored, it is what fits.
Analyse(b, start) ==
  LET type  == IF b.rootSectors = 0 THEN 32 ELSE 16
      first == b.reserved + 2 * b.fatSectors + b.rootSectors
      fits  == (b.sectors - first) \div b.cs
      count == PedMin(fits, b.fatSectors * EntriesPerSector(type) - 2)
  IN  IF type = 16 /\ fits <= MaxClusters12 THEN NULL
      ELSE [start |-> start, length |-> b.sectors, rootCluster |-> b.root, fragSectors |-> b.cs]
           @@ Layout(type, b.cs, count, b.reserved, b.fatSectors, b.rootSectors)

\* fat_table_read of the first FAT; NULL when other things lie there.
TableRead(m, fs) ==
  LET per == EntriesPerSector(fs.type)
      at(i) == m[fs.start + fs.fatOffset + i]
  IN  IF \E i \in 0 .. fs.fatSectors - 1 : at(i)[1] # "fat" \/ Len(at(i)[2]) # per THEN NULL
      ELSE [e |-> [c \in 0 .. fs.fatSectors * per - 1 |-> at(c \div per)[2][(c % per) + 1]],
            count |-> fs.count, last |-> 1]

\* The sectors of table ft as fat_table_write writes them.
TableSectors(ft, fs) ==
  LET per == EntriesPerSector(fs.type)
  IN  [i \in 1 .. fs.fatSectors |-> <<"fat", [k \in 1 .. per |-> ft.e[(i - 1) * per + k - 1]]>>]

(***************************************************************************)
(* Chains and directories.                                                 *)
(***************************************************************************)
\* The clusters of a chain; a 0 ends one that is unterminated, leaves the
\* file system or runs in a circle (flag_traverse_fat refuses all three).
RECURSIVE Chain(_, _, _)
Chain(ft, clst, seen) ==
  IF IsEof(clst) THEN <<>>
  ELSE IF clst \notin 2 .. ft.count + 1 \/ clst \in seen THEN <<0>>
  ELSE <<clst>> \o Chain(ft, ft.e[clst], seen \cup {clst})

IsBroken(chain) == \E i \in DOMAIN chain : chain[i] = 0

\* The sectors of the device that a chain occupies, in order.
ChainSectors(fs, chain) ==
  [i \in 1 .. Len(chain) * fs.cs |->
     fs.start + ClusterToSector(fs, chain[((i - 1) \div fs.cs) + 1]) + ((i - 1) % fs.cs)]

RootSectorsOf(fs) == [i \in 1 .. fs.rootSectors |-> fs.start + fs.rootOffset + i - 1]

JUNK == [name |-> "junk", dir |-> FALSE, first |-> 0, size |-> 0]

\* The entries that the sectors at hold.
EntriesAt(m, at) ==
  [i \in 1 .. Len(at) * DirEntries |->
     LET c == m[at[((i - 1) \div DirEntries) + 1]]
     IN  IF c[1] = "dir" THEN c[2][((i - 1) % DirEntries) + 1]
         ELSE IF c[1] = "zero" THEN NULL ELSE JUNK]

\* The entries before the first null one.
Live(entries) ==
  IF \E i \in DOMAIN entries : entries[i] = NULL
  THEN SubSeq(entries, 1, (CHOOSE i \in DOMAIN entries :
                             entries[i] = NULL /\ \A j \in 1 .. i - 1 : entries[j] # NULL) - 1)
  ELSE entries

IsDots(e) == e.name \in {".", ".."}

\* fat_dir_entry_has_first_cluster.  A deleted entry is the name "deleted".
IsActive(e) == e.name # "deleted"
HasFirstCluster(e) == IsActive(e) /\ e.first # 0 /\ ~IsEof(e.first)

\* The value of the first entry called name among the entries.
FirstOf(entries, name) ==
  LET found == {i \in DOMAIN entries : entries[i].name = name}
  IN  IF found = {} THEN NULL ELSE entries[CHOOSE i \in found : TRUE].first

\* What the walk finds below a directory: one record for every file and
\* directory, with its clusters at.  The record is not sound when the chain
\* is broken, the entry is junk, or . and .. do not name the right clusters.
RECURSIVE Walk(_, _, _, _, _)
Walk(m, fs, path, self, entries) ==
  UNION {
    LET chain == IF HasFirstCluster(e) THEN Chain(fs.fat, e.first, {}) ELSE <<>>
        at    == ChainSectors(fs, chain)
        below == Live(EntriesAt(m, at))
        here  == Append(path, e.name)
    IN  IF e = JUNK \/ IsBroken(chain)
        THEN {[path |-> here, dir |-> e.dir, size |-> e.size, data |-> <<>>, at |-> <<>>, sound |-> FALSE]}
        ELSE IF e.dir
        THEN {[path |-> here, dir |-> TRUE, size |-> e.size, data |-> <<>>, at |-> chain,
               sound |-> FirstOf(below, ".") = e.first /\ FirstOf(below, "..") = self]}
             \cup Walk(m, fs, here, e.first, below)
        ELSE {[path |-> here, dir |-> FALSE, size |-> e.size,
               data |-> [i \in 1 .. PedMin(e.size, Len(at)) |-> m[at[i]]],
               at |-> chain, sound |-> TRUE]}
    : e \in {entries[i] : i \in {j \in DOMAIN entries :
                                   IsActive(entries[j]) /\ ~IsDots(entries[j])}}}

RootChain(fs) == IF fs.type = 32 THEN Chain(fs.fat, fs.rootCluster, {}) ELSE <<>>

RootEntries(m, fs) ==
  Live(EntriesAt(m, IF fs.type = 32 THEN ChainSectors(fs, RootChain(fs)) ELSE RootSectorsOf(fs)))

\* flag_traverse_dir over the whole tree, and the checks that
\* flag_traverse_fat makes of it: NULL if two chains share a cluster.
Nodes(m, fs) ==
  LET found == Walk(m, fs, <<>>, 0, RootEntries(m, fs))
      Of(n) == {n.at[i] : i \in DOMAIN n.at}
      root  == {RootChain(fs)[i] : i \in DOMAIN RootChain(fs)}
  IN  IF IsBroken(RootChain(fs)) THEN NULL
      ELSE IF \E n \in found : ~n.sound \/ Of(n) \cap root # {} THEN NULL
      ELSE IF \E n, k \in found : n # k /\ Of(n) \cap Of(k) # {} THEN NULL
      ELSE found

(***************************************************************************)
(* fat_open: the boot sector, the first FAT and the walk.  NULL when any   *)
(* of them is refused.                                                     *)
(***************************************************************************)
Base(m, start) ==
  LET fs == IF m[start][1] = "boot" THEN Analyse(m[start][2], start) ELSE NULL
  IN  IF fs = NULL THEN NULL
      ELSE IF fs.count < 1 \/ fs.start + fs.length > DevLength THEN NULL
      ELSE IF TableRead(m, fs) = NULL THEN NULL
      ELSE [fat |-> TableRead(m, fs)] @@ fs

\* The tree that a reader finds at start, without where it is.
TreeAt(m, start) ==
  LET fs == Base(m, start)
      nodes == IF fs = NULL THEN NULL ELSE Nodes(m, fs)
  IN  IF nodes = NULL THEN NULL
      ELSE {[path |-> n.path, dir |-> n.dir, size |-> n.size, data |-> n.data] : n \in nodes}

\* The part of the last cluster of a chain that is used, in 64ths, with 0 for
\* 64 (the field has six bits), and as sectors again.
UnitsUsed(size, cs) == DivRoundUp(64 * (IF size % cs = 0 THEN cs ELSE size % cs), cs) % 64
Usage(units, cs) == ((IF units = 0 THEN 64 ELSE units) * cs) \div 64

\* fat_collect_cluster_info: what every cluster is used for, and how much.
ClusterInfo(fs, nodes) ==
  LET flag(c) == IF fs.fat.e[c] = BAD THEN "bad"
                 ELSE IF \E i \in DOMAIN RootChain(fs) : RootChain(fs)[i] = c THEN "dir"
                 ELSE IF \E n \in nodes : \E i \in DOMAIN n.at : n.at[i] = c
                 THEN IF (CHOOSE n \in nodes : \E i \in DOMAIN n.at : n.at[i] = c).dir THEN "dir" ELSE "file"
                 ELSE "free"
      last(c) == {n \in nodes : n.at # <<>> /\ n.at[Len(n.at)] = c}
  IN  [c \in Clusters(fs) |->
         [flag |-> flag(c),
          usage |-> IF last(c) = {} THEN fs.cs
                    ELSE Usage(UnitsUsed((CHOOSE n \in last(c) : TRUE).size, fs.cs), fs.cs)]]

OpenFs(m, start) ==
  LET fs    == Base(m, start)
      nodes == IF fs = NULL THEN NULL ELSE Nodes(m, fs)
      info  == ClusterInfo(fs, nodes)
  IN  IF nodes = NULL THEN NULL
      ELSE [info |-> info,
            dirClusters |-> Cardinality({c \in Clusters(fs) : info[c].flag = "dir"}),
            fat |-> [free |-> FreeClusters(fs.fat)] @@ fs.fat] @@ fs

\* fat_get_fragment_flag.
FragFlag(fs, frag) ==
  LET c == fs.info[FragToCluster(fs, frag)]
  IN  IF c.flag \notin {"file", "dir"} THEN c.flag
      ELSE IF frag % ClusterFrags(fs) > (c.usage - 1) \div fs.fragSectors THEN "free"
      ELSE c.flag

IsFragActive(fs, frag) == FragFlag(fs, frag) \in {"file", "dir"}
=============================================================================
