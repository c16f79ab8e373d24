--------------------------------- MODULE Sun ---------------------------------
(***************************************************************************)
(* The Sun label (libparted/labels/sun.c): eight slots whose starts are    *)
(* cylinder numbers; slot 3 describes the whole disk unless a partition    *)
(* takes it.  The label lies in the boot block, inside the first           *)
(* partition.                                                              *)
(***************************************************************************)
EXTENDS LabelBase

WholeDiskPart == 3

DiskLength == RoundDownTo(DevLength, CylSize)

Alloc == EmptyDisk("sun", [length |-> DiskLength])

New(part) == [part EXCEPT !.sys = "0x00"]

\* A copy keeps the data of the disk and of each partition.
Duplicate(d) == {[Alloc EXCEPT !.spec = d.spec]}

PartitionDuplicate(part) == part

\* The flag that decides the type.
TypeOfFlags(flags, fs) ==
  CASE "boot" \in flags -> "0x01"
    [] "root" \in flags -> "0x02"
    [] "lvm" \in flags  -> "0x8e"
    [] "raid" \in flags -> "0xfd"
    [] OTHER -> IF IsSwap(fs) THEN "0x82" ELSE IF fs = "ufs" THEN "0x06" ELSE "0x83"

FlagsOfType(id) ==
  CASE id = "0x01" -> {"boot"}
    [] id = "0x02" -> {"root"}
    [] id = "0x8e" -> {"lvm"}
    [] id = "0xfd" -> {"raid"}
    [] OTHER -> {}

SetSystem(part, fs) == [part EXCEPT !.fs = fs, !.sys = TypeOfFlags(part.flags, fs)]

Flags(d, part) == {"boot", "root", "lvm", "raid"}

\* Mutant: a flag that is set leaves the others set.
SetFlagAlone(d, part, flag, state) ==
  LET flags == IF state THEN part.flags \cup {flag} ELSE part.flags \ {flag}
  IN  Replace(d, part, SetSystem([part EXCEPT !.flags = flags], part.fs))

\* A flag that is set clears the other three.
SetFlag(d, part, flag, state) ==
  LET flags == IF state THEN {flag} ELSE part.flags \ {flag}
  IN  Replace(d, part, SetSystem([part EXCEPT !.flags = flags], part.fs))

GetFlag(d, part, flag) == flag \in part.flags

StrictConstraint(d) ==
  OnGrid(AlignmentInit(0, CylSize), AlignmentInit(-1, CylSize), GeometryInit(0, d.spec.length))

LaxConstraint(d) ==
  OnGrid(AlignmentInit(0, CylSize), AlignmentAny, GeometryInit(0, d.spec.length))

Internal(d, part) == <<StrictConstraint(d), LaxConstraint(d)>>

(***************************************************************************)
(* The whole-disk slot is given out last, and only to a user who ignores   *)
(* the warning.                                                            *)
(***************************************************************************)
Enumerate(d, part, ignored) ==
  LET num == KeepOrLowest(d, part, (1 .. TableSlots) \ {WholeDiskPart})
  IN  Did(d, IF num = -1 /\ "whole disk" \in ignored
             THEN KeepOrLowest(d, part, {WholeDiskPart}) ELSE num)

MaxPrimary(d) == TableSlots

\* The alternate cylinders at the end of the disk, when there are any.
Metadata(d) ==
  IF d.spec.length \in {0, DevLength} THEN {}
  ELSE {[start |-> d.spec.length, end |-> DevLength - 1]}

Store(part) == [id |-> part.sys, cylinder |-> part.start \div CylSize, sectors |-> Length(part)]

Unused == [id |-> "0x00", cylinder |-> 0, sectors |-> 0]

Write(d, raw) ==
  LET slots == SlotTable(d, TableSlots, Store, Unused)
  IN  [label |-> "sun",
       slots |-> IF GetPartition(d, WholeDiskPart) # NULL THEN slots
                 ELSE [slots EXCEPT ![WholeDiskPart] =
                         [id |-> "0x05", cylinder |-> 0, sectors |-> d.spec.length]]]

Load(i, slot) ==
  [PartitionAlloc("normal", i, slot.cylinder * CylSize, slot.cylinder * CylSize + slot.sectors - 1)
     EXCEPT !.sys = slot.id, !.flags = FlagsOfType(slot.id)]

Entries(raw) ==
  ReadOK([length |-> CylSize * Cylinders], Under("exact",
    LoadSlots(raw.slots, LAMBDA s : s.sectors # 0 /\ s.id \notin {"0x00", "0x05"},
              LAMBDA i : Load(i, raw.slots[i]))))
=============================================================================
