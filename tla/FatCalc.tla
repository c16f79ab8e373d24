------------------------------ MODULE FatCalc ------------------------------
(***************************************************************************)
(* The arithmetic of FAT file systems (libparted/fs/r/fat/calc.c, and the  *)
(* search for the least size in fat.c).  Constants stand for the numbers   *)
(* that are compiled in; a file system is a record whose fields are those  *)
(* of FatSpecific and of its geometry.  The types are 16 and 32.           *)
(***************************************************************************)
EXTENDS Geometry

CONSTANTS
  Entries16, Entries32,        \* FAT entries in a sector: 256 and 128
  Reserved16, Reserved32,      \* sectors before the first FAT: 1 and 32
  MaxClusters16,               \* 0xfff0
  MaxClusters32,               \* 0x0ffffff0
  MinCluster16, MinCluster32,  \* sectors of the smallest clusters: 2 and 8
  Leeway                       \* added to the least size: 64

DivRoundUp(a, b) == (a + b - 1) \div b

EntriesPerSector(type) == IF type = 32 THEN Entries32 ELSE Entries16
MinReserved(type) == IF type = 32 THEN Reserved32 ELSE Reserved16
MaxClusterCount(type) == IF type = 32 THEN MaxClusters32 ELSE MaxClusters16
MinClusterCount(type) == IF type = 32 THEN MaxClusters16 ELSE MaxClusters16 \div 2
MinClusterSize(type) == IF type = 32 THEN MinCluster32 ELSE MinCluster16

\* The sectors of a FAT with room for count clusters.
FatSpace(count, type) == DivRoundUp(count + 2, EntriesPerSector(type))

Sizes(cs, count, fat) == [cs |-> cs, count |-> count, fatSectors |-> fat]

\* calc_sizes: two rounds of guessing the size of the FAT from the number of
\* clusters and back; then the FAT, not the clusters, is made to fit.  A
\* negative space is a huge unsigned number of clusters, which is refused.
CalcSizes(size, align, type, root, cs) ==
  LET data   == size - MinReserved(type) - align - (IF type = 16 THEN root ELSE 0)
      fat1   == FatSpace(data \div cs, type)
      space2 == data - (IF type = 32 THEN 1 ELSE 2) * fat1
      fat2   == FatSpace(space2 \div cs, type)
      count  == (data - 2 * fat2) \div cs
  IN  IF data < 0 \/ space2 < 0 THEN NULL
      ELSE IF count > MaxClusterCount(type) \/ count < MinClusterCount(type) THEN NULL
      ELSE Sizes(cs, count, PedMax(fat2, FatSpace(count, type)))

\* fat_calc_resize_sizes: the cluster size may only go down.
CalcResizeSizes(size, align, type, root, cs) ==
  LET try[c \in 0 .. cs] ==
        IF c < MinClusterSize(type) THEN NULL
        ELSE IF CalcSizes(size, align, type, root, c) # NULL
             THEN CalcSizes(size, align, type, root, c)
        ELSE try[c \div 2]
  IN  try[cs]

\* fat_check_resize_geometry, with the space that the FAT of fs says is free.
CheckResizeGeometry(fs, sizes) ==
  fs.fat.free * fs.cs >= fs.fat.count * fs.cs - sizes.count * sizes.cs + fs.dirClusters * fs.cs

\* fat_calc_align_sectors: the sectors left out before the first FAT, so that
\* the clusters of both file systems start at matching sectors and the end of
\* the partition is used.
CalcAlignSectors(fs, start, length, type, root, sizes) ==
  LET meta   == MinReserved(type) + 2 * sizes.fatSectors + (IF type = 16 THEN root ELSE 0)
      oldEnd == fs.start + fs.clusterOffset
      newEnd == start + meta
      align  == IF oldEnd > newEnd THEN (oldEnd - newEnd) % sizes.cs
                ELSE (sizes.cs - ((newEnd - oldEnd) % sizes.cs)) % sizes.cs
      spare  == length - meta - sizes.count * sizes.cs - align
  IN  IF spare < sizes.cs THEN align ELSE align + (spare \div sizes.cs) * sizes.cs

(***************************************************************************)
(* Clusters, fragments and sectors of a file system.                       *)
(***************************************************************************)
ClusterFrags(fs) == fs.cs \div fs.fragSectors
FragCount(fs) == fs.count * ClusterFrags(fs)
Clusters(fs) == 2 .. fs.count + 1
Frags(fs) == 0 .. FragCount(fs) - 1

ClusterToFrag(fs, cluster) == (cluster - 2) * ClusterFrags(fs)
FragToCluster(fs, frag) == frag \div ClusterFrags(fs) + 2
FragToSector(fs, frag) == frag * fs.fragSectors + fs.clusterOffset
ClusterToSector(fs, cluster) == (cluster - 2) * fs.cs + fs.clusterOffset
SectorToCluster(fs, sector) == (sector - fs.clusterOffset) \div fs.cs + 2
IsSectorInClusters(fs, sector) ==
  sector >= fs.clusterOffset /\ sector < fs.clusterOffset + fs.cs * fs.count

(***************************************************************************)
(* The least size a file system can be resized to.                         *)
(***************************************************************************)
\* _calc_resize_data_size.
ResizeDataSize(fs, sizes) == sizes.cs * sizes.count - (fs.fatSectors - sizes.fatSectors) * 2

\* _test_resize_size.
TestResizeSize(fs, length, minData) ==
  \E type \in {16, 32} :
    LET sizes == CalcResizeSizes(length, fs.cs, type, IF type = 16 THEN fs.rootSectors ELSE 0, fs.cs)
    IN  sizes # NULL /\ ResizeDataSize(fs, sizes) >= minData

\* _get_min_resize_size: a binary search, and some leeway.
MinResizeSize(fs, minData) ==
  LET least[lo, hi \in 0 .. fs.length] ==
        LET mid == (lo + hi) \div 2
        IN  IF lo >= hi - 1 THEN hi
            ELSE IF TestResizeSize(fs, mid, minData) THEN least[lo, mid] ELSE least[mid, hi]
  IN  least[0, fs.length] + Leeway

\* fat_get_copy_constraint: what must fit, and the least size.
MinDataSize(fs) == (fs.fat.count - fs.fat.free + fs.dirClusters) * fs.cs
ResizeConstraintMin(fs) == MinResizeSize(fs, MinDataSize(fs))
=============================================================================
