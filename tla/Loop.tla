-------------------------------- MODULE Loop --------------------------------
(***************************************************************************)
(* The loop label (libparted/labels/loop.c): the whole device is partition *)
(* 1.  A label with a file system needs no signature, so none is written.  *)
(***************************************************************************)
EXTENDS LabelBase

Whole == PartitionAlloc("normal", 1, 0, DevLength - 1)

Alloc == RawAdd(EmptyDisk("loop", NULL), Whole)

New(part) == part

\* A copy keeps the data of the disk and of each partition.
Duplicate(d) == {[Alloc EXCEPT !.spec = d.spec]}

PartitionDuplicate(part) == part

SetSystem(part, fs) == [part EXCEPT !.fs = fs]

Flags(d, part) == {}

Internal(d, part) == <<ConstraintAny>>

Enumerate(d, part) == Did(d, 1)

MaxPrimary(d) == 1

Metadata(d) == {}

Signed(raw) == raw # NULL /\ raw.label = "loop" /\ raw.signed

\* content is the file system the device as a whole holds, or NULL.
Write(d, raw) ==
  LET part == GetPartition(d, 1)
      old  == IF raw # NULL /\ raw.label = "loop" THEN raw.content ELSE NULL
  IN  IF part # NULL /\ part.fs # NULL THEN [label |-> "loop", signed |-> Signed(raw), content |-> old]
      ELSE [label |-> "loop", signed |-> TRUE, content |-> old]

\* Without a signature only a file system that is found makes a label.
Entries(raw) ==
  IF ~raw.signed /\ raw.content = NULL THEN ReadFails
  ELSE ReadOK(NULL, Under("any", <<[Whole EXCEPT !.fs = raw.content]>>))
=============================================================================
