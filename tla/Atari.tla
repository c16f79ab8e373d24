-------------------------------- MODULE Atari --------------------------------
(***************************************************************************)
(* The Atari label (libparted/labels/atari.c).  The root sector has four   *)
(* AHDI slots; a fifth primary partition moves the disk to the ICD format  *)
(* (eight more slots), an extended one to the XGM format (a chain of       *)
(* auxiliary root sectors, one per logical partition); the two exclude     *)
(* each other.  Numbers are positions in the tables: logical partitions    *)
(* are numbered in between the primary ones, the extended one is 0.        *)
(***************************************************************************)
EXTENDS LabelBase

CONSTANTS
  NAhdi,         \* N_AHDI: slots of the main table
  NIcd,          \* N_ICD: slots of the ICD table
  MaximumParts,  \* MAXIMUM_PARTS: partitions of an XGM disk
  GemMax         \* GEM_MAX: sectors from which fat16 is a big partition

\* atr_disk_reset: a bad sector list of one sector after the root sector.
FreshSpec == [format |-> "AHDI", bsl |-> [start |-> 1, count |-> 1]]

Alloc == EmptyDisk("atari", FreshSpec)

\* atr_xgm_in_icd: no extended partition on an ICD disk.
MayMake(d, part) == part.type = "extended" => d.spec.format # "ICD"

New(part) == [part EXCEPT !.sys = ""]

\* A copy keeps the data of the disk and of each partition.
Duplicate(d) == {[Alloc EXCEPT !.spec = d.spec]}

PartitionDuplicate(part) == part

SetSystem(part, fs) ==
  [part EXCEPT !.fs = fs,
     !.sys = CASE part.type = "extended" -> "XGM"
               [] fs \in {"ext2", "ext3", "jfs", "reiserfs", "hp-ufs", "sun-ufs", "xfs"} -> "LNX"
               [] fs = "fat16" -> IF Length(part) < GemMax THEN "GEM" ELSE "BGM"
               [] fs = "fat32" -> "F32"
               [] fs \in {"hfs", "hfs+", "hfsx"} -> "MAC"
               [] fs = "linux-swap" -> "SWP"
               [] OTHER -> "RAW"]

Flags(d, part) == {"boot"}

SetFlag(d, part, flag, state) ==
  Replace(d, part, [part EXCEPT !.flags = IF state THEN {flag} ELSE {}])

GetFlag(d, part, flag) == flag \in part.flags

LastNum(d) == LET nums == {p.num : p \in Parts(d)} \cup {-1}
              IN  CHOOSE n \in nums : \A m \in nums : m <= n

\* The number of the first logical partition, or -1.
FindFirstLog(d) == LeastOr({p.num : p \in Elements(d.log)}, -1)

(***************************************************************************)
(* Placement.  Every logical partition but the first, by number, has its   *)
(* root sector right before it; the first one's is the start of the        *)
(* extended partition.                                                     *)
(***************************************************************************)
\* The free region around geom, as _partition_get_overlap_constraint walks.
LogRegion(list, part, ext, Ars(_)) ==
  LET n     == Len(list)
      other(i) == list[i].num # part.num
      low[i \in 0 .. n] ==
        IF i = 0 THEN ext.start + 1 + Ars(part)
        ELSE IF other(i) THEN list[i].end + 1 + Ars(part) ELSE low[i - 1]
      passed(i) == list[i].start - Ars(list[i]) < PedMax(part.start - Ars(part), low[i - 1])
      stop  == LeastOr({i \in 1 .. n : ~passed(i)}, n + 1)
      next  == LeastOr({i \in stop .. n : other(i)}, 0)
  IN  [min |-> low[stop - 1],
       max |-> IF next = 0 THEN ext.end ELSE list[next].start - 1 - Ars(list[next])]

RegionOrNull(region) ==
  IF region.min >= region.max THEN NULL
  ELSE NewFromMax([start |-> region.min, end |-> region.max])

LogConstraint(d, part) ==
  LET found == FindFirstLog(d)
      first == IF found = -1 THEN part.num ELSE found
  IN  RegionOrNull(LogRegion(d.log, part, ExtendedPartition(d),
                             LAMBDA p : IF p.num # first THEN 1 ELSE 0))

\* art_min_extended_geom: what the logical partitions and their sectors need.
MinExtendedGeom(d) ==
  LET first == GetPartition(d, FindFirstLog(d))
      grown[i \in 0 .. Len(d.log)] ==
        IF i = 0 THEN [start |-> first.start - 1, end |-> first.end]
        ELSE IF d.log[i] = first THEN grown[i - 1]
        ELSE [start |-> IF d.log[i].start < grown[i - 1].start
                        THEN d.log[i].start - 2 ELSE grown[i - 1].start,
              end   |-> PedMax(d.log[i].end, grown[i - 1].end)]
  IN  grown[Len(d.log)]

ExtConstraint(d) ==
  LET any == GeometryInit(1, DevLength - 1)
  IN  IF d.log = <<>> THEN ConstraintNew(AlignmentAny, AlignmentAny, any, any, 1, DevLength)
      ELSE LET min == MinExtendedGeom(d)
           IN  ConstraintNew(AlignmentAny, AlignmentAny, GeometryInit(1, min.start),
                             GeometryInit(min.end, DevLength - min.end), 1, DevLength)

PrimConstraint(d, part) ==
  IF part.type = "extended" THEN ExtConstraint(d) ELSE NewFromMax(GeometryInit(1, DevLength - 1))

\* What is before and what is after the bad sector list.
Cuts(bsl) ==
  (IF bsl.start > 1 THEN <<GeometryInit(1, bsl.start - 1)>> ELSE <<>>)
  \o (IF bsl.start + bsl.count < DevLength
      THEN <<GeometryInit(bsl.start + bsl.count, DevLength - bsl.start - bsl.count)>> ELSE <<>>)

\* atr_prim_align: the longer of the two solutions is taken.
PrimInternal(bsl, internal) ==
  IF bsl.start = 0 /\ bsl.count = 0 THEN <<internal>>
  ELSE [i \in 1 .. Len(Cuts(bsl)) |-> ConstraintIntersect(internal, NewFromMax(Cuts(bsl)[i]))]

Internal(d, part) ==
  IF IsLogical(part) THEN <<LogConstraint(d, part)>>
  ELSE PrimInternal(d.spec.bsl, PrimConstraint(d, part))

(***************************************************************************)
(* atari_partition_enumerate: the format follows the partitions there will *)
(* be.  An XGM partition whose first logical partition is number 1 takes   *)
(* two slots, the first of which stays empty.                              *)
(***************************************************************************)
XgmFirst(d) == LET p == GetPartition(d, 1) IN p # NULL /\ IsLogical(p)

XgmBegin(d, part) ==
  IF XgmFirst(d) \/ (part.num = -1 /\ IsLogical(part) /\ GetPartition(d, 1) = NULL) THEN 1 ELSE 0

\* The three assertions on entry, which atari_write makes as well.
FormatHolds(d, begin) ==
  CASE d.spec.format = "ICD"  -> ExtendedPartition(d) = NULL
    [] d.spec.format = "XGM"  -> PrimaryCount(d) + begin <= NAhdi
    [] d.spec.format = "AHDI" -> ExtendedPartition(d) = NULL /\ PrimaryCount(d) + begin <= NAhdi

WantIcd(d, part) ==
  PrimaryCount(d) + XgmBegin(d, part)
    + (IF part.num = -1 /\ ~IsLogical(part) THEN 1 ELSE 0) > NAhdi

WantXgm(d, part) == part.type = "extended" \/ ExtendedPartition(d) # NULL

NewFormat(d, part) ==
  IF WantXgm(d, part) THEN "XGM" ELSE IF WantIcd(d, part) THEN "ICD" ELSE "AHDI"

(***************************************************************************)
(* art_room_for_logic: a new logical partition follows the last one, the   *)
(* primary partitions after that move up by one.                           *)
(***************************************************************************)
RoomForLogic(d, part) ==
  LET nums == {p.num : p \in Elements(d.log)}
  IN  IF nums = {} THEN d
      ELSE [d EXCEPT !.prim = [i \in 1 .. Len(@) |->
             IF @[i].type # "extended" /\ \A n \in nums : @[i].num > n
             THEN [@[i] EXCEPT !.num = @ + 1] ELSE @[i]]]

MaxNumber(format) == IF format = "XGM" THEN MaximumParts ELSE NAhdi + NIcd

FreshNumber(d, part) ==
  IF part.type = "extended" THEN Did(d, 0)
  ELSE IF ~IsLogical(part) THEN Did(d, LeastOr(UnusedNumbers(d, 1 .. MaxNumber(d.spec.format)), NoNumber))
  ELSE IF LastNum(d) >= MaximumParts THEN Did(d, NoNumber)
  ELSE LET room == RoomForLogic(d, part)
       IN  Did(room, LeastOr(UnusedNumbers(room, 1 .. MaxNumber(d.spec.format)), NoNumber))

Renumber(d, part) ==
  CASE part.num = 0  -> Did(d, 0)
    [] part.num = -1 -> FreshNumber(d, part)
    [] OTHER -> Did(d, LeastOr(UnusedNumbers(d, 1 .. part.num - 1), part.num))

Enumerate(d, part) ==
  IF ~FormatHolds(d, XgmBegin(d, part)) THEN Did(d, AssertFails)
  ELSE IF WantXgm(d, part) /\ WantIcd(d, part) THEN Did(d, NoNumber)
  ELSE Renumber([d EXCEPT !.spec.format = NewFormat(d, part)], part)

MaxPrimary(d) == IF d.spec.format = "XGM" THEN NAhdi ELSE NAhdi + NIcd

Sector(s) == [start |-> s, end |-> s]

\* Where the root sector of a logical partition is.
ArsOf(d, log) ==
  IF log.num = FindFirstLog(d) THEN ExtendedPartition(d).start ELSE log.start - 1

Metadata(d) ==
  LET bsl == d.spec.bsl
      ext == ExtendedPartition(d)
  IN  {Sector(0)}
      \cup (IF bsl.start = 0 /\ bsl.count = 0 THEN {}
            ELSE {[start |-> bsl.start, end |-> bsl.start + bsl.count - 1]})
      \cup (IF ext = NULL THEN {} ELSE {Sector(ext.start)})
      \cup {Sector(ArsOf(d, log)) : log \in Elements(d.log)}

(***************************************************************************)
(* atari_write: the main table in the order of the numbers, the logical    *)
(* partitions standing for the extended one.  A step of the loop gives the *)
(* slot, the next number, and whether an empty extended partition is still *)
(* to be appended.                                                         *)
(***************************************************************************)
Entry(id, part, base) ==
  [id |-> id, boot |-> "boot" \in part.flags, start |-> part.start - base, size |-> Length(part)]

NextUsed(d, from) == LeastOr({p.num : p \in {q \in Parts(d) : q.num >= from}}, from)

\* The first number from there on that is not a logical partition's.
PastLogical(d, from) ==
  LeastOr({p.num : p \in {q \in Elements(d.prim) : q.num >= from}}, PedMax(from, LastNum(d) + 1))

FillSlot(d, i, from, append) ==
  LET n     == NextUsed(d, from)
      ext   == ExtendedPartition(d)
      found == IF n > 0 THEN GetPartition(d, n) ELSE NULL
      adds  == found = NULL /\ i # 1 /\ append
      part  == IF adds \/ (found # NULL /\ IsLogical(found)) THEN ext ELSE found
  IN  IF part = NULL \/ (i = 1 /\ XgmFirst(d))
      THEN [slot |-> NULL, next |-> n, append |-> append]
      ELSE [slot |-> Entry(part.sys, part, 0),
            next |-> IF part = ext THEN PastLogical(d, n) ELSE n + 1, append |-> append /\ ~adds]

MainTable(d) ==
  LET fill[i \in 0 .. NAhdi] ==
        IF i = 0 THEN [slots |-> <<>>, next |-> 1,
                       append |-> ExtendedPartition(d) # NULL /\ d.log = <<>>]
        ELSE LET prev == fill[i - 1]
                 step == FillSlot(d, i, prev.next, prev.append)
             IN  [slots |-> Append(prev.slots, step.slot), next |-> step.next,
                  append |-> step.append]
  IN  fill[NAhdi]

KnownIcd(id) == id \in {"BGM", "GEM", "LNX", "SWP", "RAW"}

IcdId(part) == IF KnownIcd(part.sys) THEN part.sys ELSE "RAW"

\* The ICD table holds the rest of the primary partitions.
IcdTable(d, from) ==
  LET rest == {p \in Elements(d.prim) : p.num >= from}
      nth(i) == {p \in rest : Cardinality({q \in rest : q.num < p.num}) = i - 1}
  IN  [i \in 1 .. NIcd |->
         IF nth(i) = {} THEN NULL
         ELSE LET p == CHOOSE q \in nth(i) : TRUE IN Entry(IcdId(p), p, 0)]

\* An extended partition without logical ones has an empty root sector.
ArsSectors(d) ==
  {ExtendedPartition(d).start} \cup {ArsOf(d, log) : log \in Elements(d.log)}

ArsAt(d, sector) ==
  LET here == {p \in Elements(d.log) : ArsOf(d, p) = sector}
      log  == CHOOSE p \in here : TRUE
      next == GetPartition(d, log.num + 1)
  IN  IF here = {} THEN [data |-> NULL, next |-> NULL]
      ELSE [data |-> Entry(log.sys, log, sector),
            next |-> IF next = NULL \/ ~IsLogical(next) THEN NULL
                     ELSE next.start - 1 - ExtendedPartition(d).start]

\* No active partition may lie where a root sector goes.
ArsHasRoom(d) ==
  \A p \in Parts(d), s \in ArsSectors(d) : p.type # "extended" => ~TestSectorInside(p, s)

OldArs(raw) ==
  IF raw # NULL /\ raw.label = "atari" THEN raw.ars ELSE [s \in 1 .. DevLength - 1 |-> NULL]

OldIcd(raw) ==
  IF raw # NULL /\ raw.label = "atari" THEN raw.icd ELSE [i \in 1 .. NIcd |-> NULL]

\* Leave XGM or ICD mode if the main table was enough.
Settled(d, main) ==
  IF main.next > LastNum(d) /\ (d.spec.format = "ICD" \/ ExtendedPartition(d) = NULL)
  THEN [d EXCEPT !.spec.format = "AHDI"] ELSE d

\* A table that does not hold all partitions is a bug the code reports.
TablesSuffice(d, main) ==
  \/ main.next > LastNum(d)
  \/ /\ ExtendedPartition(d) = NULL /\ d.spec.format = "ICD"
     /\ Cardinality({p \in Elements(d.prim) : p.num >= main.next}) <= NIcd

\* An ICD table that is no longer in use would still be detected: the user
\* may invalidate it, keep it or give up.
IcdIsStale(d, raw) ==
  d.spec.format = "AHDI" /\ OldIcd(raw)[1] # NULL /\ KnownIcd(OldIcd(raw)[1].id)

WriteIcd(d, raw, main, answer) ==
  IF d.spec.format = "ICD" THEN IcdTable(d, main.next)
  ELSE IF IcdIsStale(d, raw) /\ "invalidate" \in answer THEN [OldIcd(raw) EXCEPT ![1] = NULL]
  ELSE OldIcd(raw)

WriteSettled(d, raw, main, answer) ==
  IF \/ d.spec.format = "XGM" /\ ExtendedPartition(d) # NULL /\ ~ArsHasRoom(d)
     \/ IcdIsStale(d, raw) /\ "cancel" \in answer THEN NULL
  ELSE [label |-> "atari", bsl |-> d.spec.bsl, ahdi |-> main.slots,
        icd |-> WriteIcd(d, raw, main, answer),
        ars |-> IF d.spec.format # "XGM" \/ d.prim = <<>> THEN OldArs(raw)
                ELSE [s \in 1 .. DevLength - 1 |->
                        IF s \in ArsSectors(d) THEN ArsAt(d, s) ELSE OldArs(raw)[s]]]

WriteMain(d, raw, main, answer) ==
  IF TablesSuffice(d, main) THEN WriteSettled(Settled(d, main), raw, main, answer) ELSE NULL

Write(d, raw, answer) == WriteMain(d, raw, MainTable(d), answer)

WriteAborts(d) == ~FormatHolds(d, IF XgmFirst(d) THEN 1 ELSE 0)

\* The format kept with the disk changes as well.
Wrote(d) == Settled(d, MainTable(d))

(***************************************************************************)
(* atari_read.  The partitions are numbered as they are added, in the      *)
(* order of the slots, the logical ones where the XGM slot is.             *)
(***************************************************************************)
Load(type, slot, base) ==
  [PartitionAlloc(type, -1, base + slot.start, base + slot.start + slot.size - 1)
     EXCEPT !.sys = slot.id, !.flags = IF slot.boot THEN {"boot"} ELSE {}]

\* The logical partitions of the chain that starts at exts, up to n.
Chain(raw, exts) ==
  LET walk[k \in 0 .. MaximumParts] ==
        IF k = 0 THEN [parts |-> <<>>, at |-> exts]
        ELSE LET prev == walk[k - 1]
                 ars  == IF prev.at = NULL THEN NULL ELSE raw.ars[prev.at]
             IN  IF ars = NULL \/ ars.data = NULL THEN [prev EXCEPT !.at = NULL]
                 ELSE [parts |-> Append(prev.parts, Load("logical", ars.data, prev.at)),
                       at |-> IF ars.next = NULL THEN NULL ELSE exts + ars.next]
  IN  walk[MaximumParts].parts

LoadMain(raw) ==
  LET load[i \in 0 .. NAhdi] ==
        IF i = 0 THEN <<>>
        ELSE LET slot == raw.ahdi[i]
             IN  IF slot = NULL THEN load[i - 1]
                 ELSE IF slot.id = "XGM"
                 THEN load[i - 1] \o <<Load("extended", slot, 0)>> \o Chain(raw, slot.start)
                 ELSE Append(load[i - 1], Load("normal", slot, 0))
  IN  load[NAhdi]

UsesXgm(raw) == \E i \in 1 .. NAhdi : raw.ahdi[i] # NULL /\ raw.ahdi[i].id = "XGM"

UsesIcd(raw) ==
  /\ ~UsesXgm(raw) /\ \E i \in 1 .. NAhdi : raw.ahdi[i] # NULL
  /\ raw.icd[1] # NULL /\ KnownIcd(raw.icd[1].id)

LoadIcd(raw) ==
  LoadSlots(raw.icd, LAMBDA s : s # NULL /\ KnownIcd(s.id), LAMBDA i : Load("normal", raw.icd[i], 0))

Entries(raw) ==
  ReadOK([FreshSpec EXCEPT !.bsl = raw.bsl],
         Under("exact", LoadMain(raw) \o (IF UsesIcd(raw) THEN LoadIcd(raw) ELSE <<>>)))
=============================================================================
