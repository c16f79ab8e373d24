------------------------------- MODULE MCDos -------------------------------
(***************************************************************************)
(* What the msdos label on its medium promises, and the requests TLC       *)
(* explores.                                                               *)
(***************************************************************************)
EXTENDS DosMedium

G(s, e) == [start |-> s, end |-> e]

\* An extended partition with room for three logical ones, and a primary.
ChainAdds == "normal" :> {G(1, 1)} @@ "extended" :> {G(2, 9)} @@ "logical" :> {G(4, 4), G(6, 6), G(8, 9)}
ChainMoves == {G(2, 7), G(4, 5)}
LaterMoves == {G(8, 9)}

NoLeftovers == {NULL}

Request(type, g) == [type |-> type, start |-> g.start, end |-> g.end]
Chain(log) == <<Request("extended", G(2, 9))>> \o [i \in 1 .. Len(log) |-> Request("logical", log[i])]

\* Three logical partitions made in and out of order, or one and a primary.
ChainHistories ==
  {Chain(<<G(4, 4), G(6, 6), G(8, 9)>>), Chain(<<G(6, 6), G(8, 9), G(4, 4)>>),
   <<Request("normal", G(1, 1))>> \o Chain(<<G(6, 6)>>)}

\* Two logical partitions, the second before the first.
SwappedHistory == {Chain(<<G(6, 6), G(4, 4)>>)}

\* `last` labels a step and `reader` is a function of the medium.
DosView == <<disk, medium, job, held, before, edits, commits>>

\* The type byte says what the partition is.
Plain(p) ==
  /\ p.sys \notin {EMPTY, GPT}
  /\ RawPartIsExtended(p.sys) <=> p.type = "extended"

\* Nothing is left to be written.
Committed == held /\ job = <<>> /\ edits = 0

AsStored(parts) == {[p EXCEPT !.fs = NULL] : p \in parts}

(***************************************************************************)
(* What msdos_write stored read_table finds again: every partition with    *)
(* its number, place, type byte and boot flag.  Numbers and the order of   *)
(* the chain must agree for this, the links be relative to the extended    *)
(* partition and the entries to their own table; stale tables of earlier   *)
(* commits must not be reached.  Excepted are type bytes that contradict   *)
(* the kind of the partition.                                              *)
(***************************************************************************)
CommitReadsBack ==
  Committed /\ (\A p \in Active(disk) : Plain(p)) => Found(reader) = AsStored(Active(disk))

Geom(p) == [start |-> p.start, end |-> p.end]
GeomsOf(parts) == {Geom(p) : p \in parts}

\* The change adds partitions in free space and deletes others; those that
\* stay keep their order.
Gentle(old, new) ==
  /\ \A p, q \in old \cup new : IsLogical(p) = IsLogical(q) /\ TestOverlap(p, q) => Geom(p) = Geom(q)
  /\ \A p \in old, q \in new : Geom(p) = Geom(q) => p.type = q.type
  /\ \A p1, p2 \in old, q1, q2 \in new :
       Geom(p1) = Geom(q1) /\ Geom(p2) = Geom(q2) /\ p1.num < p2.num => q1.num < q2.num

Keeps(found, geoms) == found # NULL /\ geoms \subseteq GeomsOf(found)

(***************************************************************************)
(* write_ext_table writes a table after the ones it leads to, and          *)
(* msdos_write the primary table last: whatever prefix of the writes of a  *)
(* gentle change is done, the device can be read and has every partition   *)
(* that both the old and the new table have.                               *)
(***************************************************************************)
InterruptionsKeep ==
  job # <<>> /\ before # NULL /\ (\A p \in Active(disk) : Plain(p)) /\ Gentle(before, Active(disk)) =>
    Keeps(Found(reader), GeomsOf(before) \cap GeomsOf(Active(disk)))

(***************************************************************************)
(* dos.c:2325, the placeholders "ensure that there's enough room to put in *)
(* the extended partition tables": no table is written to a sector of a    *)
(* partition's contents.  write_ext_table takes the start of whatever      *)
(* precedes the partition in the list for that room.                       *)
(***************************************************************************)
TablesStayOutsideData ==
  \A i \in 1 .. Len(job) : \A p \in Active(disk) :
    p.type # "extended" => ~TestSectorInside(p, job[i].sector)

\* doc/parted.texi:991, the "hidden" flag "can be enabled to hide partitions
\* from Microsoft operating systems": parted itself still finds them.
HiddenIsFound == Committed => Found(reader) = AsStored(Active(disk))

\* disk.c:1375, "Set the state (1 or 0) of a flag on a partition."
FlagsAreSet ==
  \A p \in Active(disk), f \in Flags :
    IsFlagAvailable(p, f) => GetFlag(SetOwnFlag(p, f, TRUE), f)
=============================================================================
