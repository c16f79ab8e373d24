------------------------------ MODULE LabelBase ------------------------------
(***************************************************************************)
(* What the disk labels other than msdos and gpt have in common            *)
(* (libparted/disk.c, libparted/labels/pt-tools.c).  A label is a module   *)
(* that defines the operations of a PedDiskOps table:                      *)
(*   Alloc              alloc, with the partitions it adds itself          *)
(*   New(part)          partition_new: the label's own data                *)
(*   SetSystem(part,fs) partition_set_system                               *)
(*   Flags(d, part)     partition_is_flag_available                        *)
(*   SetFlag, GetFlag   partition_set_flag, partition_get_flag             *)
(*   Internal(d, part)  partition_align: the constraints it tries in turn  *)
(*   Enumerate(d, part) partition_enumerate                                *)
(*   MaxPrimary(d)      get_max_primary_partition_count                    *)
(*   Metadata(d)        alloc_metadata                                     *)
(*   Write(d, raw)      write: the sectors of the label in its own units   *)
(*   Entries(raw)       read: the partitions it adds, in order             *)
(* A disk is a record [label, prim, log, spec]: the active partitions in   *)
(* list order and the label's disk_specific data.  The placeholders, which *)
(* every update rebuilds from the active partitions, are what Metadata     *)
(* says and the space that is left (module Disk has them in the lists).    *)
(***************************************************************************)
EXTENDS PartList

CONSTANTS
  Heads, SecsPerTrack,  \* dev->bios_geom and dev->hw_geom
  TableSlots            \* slots of the table: 8 on sun and bsd, 16 on pc98, 128 on amiga

ASSUME LabelGeometryAssumption == Heads \in Nat \ {0} /\ SecsPerTrack \in Nat \ {0}

CylSize == Heads * SecsPerTrack

Cylinders == DevLength \div CylSize

(***************************************************************************)
(* _ped_partition_alloc, with the data every label keeps in some form: the *)
(* file system it was told of, the type stored on disk, its flags, a name, *)
(* and one more number (dvh: the file size, pc98: the boot sector).        *)
(***************************************************************************)
PartitionAlloc(type, num, start, end) ==
  [type |-> type, role |-> "active", num |-> num, start |-> start, end |-> end,
   fs |-> NULL, sys |-> NULL, flags |-> {}, name |-> "", aux |-> 0]

EmptyDisk(label, spec) == [label |-> label, prim |-> <<>>, log |-> <<>>, spec |-> spec]

\* A member of a list is replaced by what an operation made of it.
Replace(d, part, new) ==
  LET list == ListOf(d, part)
  IN  WithList(d, part, [i \in 1 .. Len(list) |-> IF list[i] = part THEN new ELSE list[i]])

PrimaryCount(d) == Len(d.prim)

(***************************************************************************)
(* _ped_partition_attempt_align for each of the constraints in turn.       *)
(***************************************************************************)
AttemptAlign(part, external, internal) ==
  SolveNearest(ConstraintIntersect(external, internal), part)

Solutions(part, external, internals) ==
  [i \in 1 .. Len(internals) |-> AttemptAlign(part, external, internals[i])]

\* Start and end on a grid, both in the range max.
OnGrid(startAlign, endAlign, max) ==
  IF max = NULL THEN NULL ELSE ConstraintNew(startAlign, endAlign, max, max, 1, DevLength)

LeastOr(set, none) == IF set = {} THEN none ELSE CHOOSE n \in set : \A m \in set : n <= m

UnusedNumbers(d, set) == {n \in set : GetPartition(d, n) = NULL}

(***************************************************************************)
(* The numbering most labels share: a number is never changed, a new       *)
(* partition gets the lowest one that is free.                             *)
(***************************************************************************)
KeepOrLowest(d, part, numbers) ==
  IF part.num # -1 THEN part.num ELSE LeastOr(UnusedNumbers(d, numbers), -1)

\* The table of a label: slot n holds what Store makes of partition n.
SlotTable(d, n, Store(_), empty) ==
  [i \in 1 .. n |-> LET part == GetPartition(d, i) IN IF part = NULL THEN empty ELSE Store(part)]

\* The slots a reader accepts, in order, as what Load makes of them.
LoadSlots(slots, Used(_), Load(_)) ==
  LET load[i \in 0 .. Len(slots)] ==
        IF i = 0 THEN <<>>
        ELSE IF Used(slots[i]) THEN Append(load[i - 1], Load(i)) ELSE load[i - 1]
  IN  load[Len(slots)]

\* What read returns: whether the table is sound, the disk data, and the
\* partitions to add, each with the constraint it is added under: exactly
\* where it is, anywhere, or anywhere but an error if it had to move.
ReadOK(spec, entries) == [ok |-> TRUE, spec |-> spec, entries |-> entries]
ReadFails == [ok |-> FALSE, spec |-> NULL, entries |-> <<>>]

Under(how, parts) == [i \in 1 .. Len(parts) |-> [part |-> parts[i], how |-> how]]

\* The result of partition_enumerate: the disk, which it may change, and
\* the number; there may be none, or an assertion may have failed.
Did(d, num) == [disk |-> d, num |-> num]
NoNumber == -1
AssertFails == -2

IsSwap(fs) == fs = "linux-swap"
=============================================================================
