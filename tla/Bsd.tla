--------------------------------- MODULE Bsd ---------------------------------
(***************************************************************************)
(* The BSD label (libparted/labels/bsd.c) in sector 0: eight slots of      *)
(* start, size and type.  The flags are kept in memory only.               *)
(***************************************************************************)
EXTENDS LabelBase

Alloc == EmptyDisk("bsd", NULL)

New(part) == [part EXCEPT !.sys = "0x00"]

\* A copy keeps the data of the disk and of each partition.
Duplicate(d) == {[Alloc EXCEPT !.spec = d.spec]}

PartitionDuplicate(part) == part

SetSystem(part, fs) == [part EXCEPT !.fs = fs, !.sys = IF IsSwap(fs) THEN "0x01" ELSE "0x08"]

Flags(d, part) == {"boot", "raid", "lvm"}

\* raid and lvm exclude each other; boot stands beside either.
SetFlag(d, part, flag, state) ==
  LET rival == CASE flag = "raid" -> {"lvm"} [] flag = "lvm" -> {"raid"} [] OTHER -> {}
  IN  Replace(d, part, [part EXCEPT !.flags =
        IF state THEN (@ \ rival) \cup {flag} ELSE @ \ {flag}])

GetFlag(d, part, flag) == flag \in part.flags

Internal(d, part) == <<NewFromMax(GeometryInit(1, DevLength - 1))>>

Enumerate(d, part) == Did(d, KeepOrLowest(d, part, 1 .. TableSlots))

MaxPrimary(d) == TableSlots

Metadata(d) == {[start |-> 0, end |-> 0]}

Store(part) == [type |-> part.sys, offset |-> part.start, size |-> Length(part)]

Unused == [type |-> "0x00", offset |-> 0, size |-> 0]

Write(d, raw) == [label |-> "bsd", slots |-> SlotTable(d, TableSlots, Store, Unused)]

Load(i, slot) ==
  [PartitionAlloc("normal", i, slot.offset, slot.offset + slot.size - 1) EXCEPT !.sys = slot.type]

Entries(raw) ==
  ReadOK(NULL, Under("exact",
    LoadSlots(raw.slots, LAMBDA s : s.size # 0 /\ s.type # "0x00",
              LAMBDA i : Load(i, raw.slots[i]))))
=============================================================================
