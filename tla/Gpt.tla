-------------------------------- MODULE Gpt --------------------------------
(***************************************************************************)
(* The GPT label on its medium (libparted/labels/gpt.c, ped_disk_new,      *)
(* ped_disk_clobber and ped_disk_commit_to_dev of libparted/disk.c):       *)
(* reading it with one of its two copies damaged, writing it sector by     *)
(* sector, failed writes, and the program being killed or the power going  *)
(* off between two of them.                                                *)
(*                                                                         *)
(* A partition entry array is a table or Torn, which no header's checksum  *)
(* matches; checksums do not collide.  The backup is at "end", the last    *)
(* sector of the device, or at "old", the end of the device before it was  *)
(* enlarged.  A header without the signature is NULL.                      *)
(***************************************************************************)
EXTENDS Naturals

CONSTANTS
  NULL,
  Tables,         \* contents of a partition entry array
  Empty,          \* the array of zeros
  Torn,           \* an array that is a mixture of two tables
  Interruptions,  \* what may happen: "kill", "power", "error"
  Grown,          \* the device has been enlarged
  MaxInterrupts,  \* bound on the interruptions of a behaviour
  Labels,         \* mklabel may be called
  Answers         \* whether Fix is answered where it is offered

VARIABLES
  cache,       \* the device as the kernel shows it
  platter,     \* the device as it survives a power failure
  disk,        \* the PedDisk, or NULL
  pc,          \* "idle" or the next write
  allowed,     \* the tables that an interruption may leave
  guarded,     \* the commit started with a current backup at the end
  interrupts,  \* writes that failed and kills
  outages      \* power failures

vars == <<cache, platter, disk, pc, allowed, guarded, interrupts, outages>>

Places == {"end", "old"}
Usable == {"full", "short"}   \* data_area ends at the end of the device, or before
Arrays == Tables \cup {Torn}
Header == [alt : Places, usable : Usable, crc : Tables]
Medium == [pmbr : BOOLEAN, pri : Header \cup {NULL}, ptes : Arrays,
           bak : [Places -> Header \cup {NULL}], bakptes : [Places -> Arrays]]
Disk   == [table : Tables, alt : Places, usable : Usable, clobber : BOOLEAN,
           reading : BOOLEAN]   \* inside ped_disk_new

ASSUME GptAssumption ==
  /\ Empty \in Tables /\ Torn \notin Tables
  /\ NULL \notin Tables /\ NULL \notin Header /\ NULL \notin Disk
  /\ Interruptions \subseteq {"kill", "power", "error"}
  /\ Labels \in BOOLEAN /\ Answers \subseteq BOOLEAN

(***************************************************************************)
(* Reading.                                                                *)
(***************************************************************************)
\* gpt_probe: sector 1 is readable, so the last sector is not looked at.
Probe(m) == m.pmbr /\ m.pri # NULL

\* _header_is_valid.
ValidPrimary(m) == m.pri # NULL /\ m.ptes = m.pri.crc
ValidBackup(m, place) == m.bak[place] # NULL /\ m.bakptes[place] = m.bak[place].crc

\* gpt_read_headers: where the backup is looked for.
AlternateLBA(m) == IF ValidPrimary(m) THEN m.pri.alt ELSE "end"

Readable(m) == Probe(m) /\ (ValidPrimary(m) \/ ValidBackup(m, AlternateLBA(m)))

\* The header gpt_read goes by.
ChosenHeader(m) == IF ValidPrimary(m) THEN m.pri ELSE m.bak["end"]

Recovered(m) == IF Readable(m) THEN ChosenHeader(m).crc ELSE NULL

\* The backup is neither at the end of the device nor of the usable area.
Misplaced(m) ==
  /\ ValidPrimary(m) /\ ValidBackup(m, m.pri.alt)
  /\ m.pri.alt = "old" /\ m.pri.usable = "full"

\* ped_disk_new; the user answers OK to the loss of one copy, and fix says
\* whether Fix is answered where it is offered.  Fix clears the old backup
\* and then commits a disk that still has needs_clobber set.
Open(fix) ==
  /\ pc = "idle" /\ disk = NULL /\ Readable(cache)
  /\ LET hdr   == ChosenHeader(cache)
         alt   == AlternateLBA(cache)
         fixed == fix /\ (Misplaced(cache) \/ hdr.usable = "short")
     IN  /\ disk' = [table |-> hdr.crc, alt |-> IF fixed THEN "end" ELSE alt,
                     usable |-> IF fixed THEN "full" ELSE hdr.usable,
                     clobber |-> fixed, reading |-> fixed]
         /\ cache' = IF fixed THEN [cache EXCEPT !.bak[alt] = NULL] ELSE cache
         /\ pc' = IF fixed THEN "clobber_head" ELSE "idle"
         /\ allowed' = {hdr.crc}
         /\ guarded' = FALSE
  /\ UNCHANGED <<platter, interrupts, outages>>

(***************************************************************************)
(* Changing the disk in memory.                                            *)
(***************************************************************************)
Edit(table) ==
  /\ pc = "idle" /\ disk # NULL
  /\ disk' = [disk EXCEPT !.table = table]
  /\ UNCHANGED <<cache, platter, pc, allowed, guarded, interrupts, outages>>

\* ped_disk_new_fresh and gpt_alloc.
Mklabel ==
  /\ Labels /\ pc = "idle"
  /\ disk' = [table |-> Empty, alt |-> "end", usable |-> "full", clobber |-> TRUE,
              reading |-> FALSE]
  /\ UNCHANGED <<cache, platter, pc, allowed, guarded, interrupts, outages>>

\* gpt_duplicate: AlternateLBA is gpt_alloc's.
Duplicate ==
  /\ pc = "idle" /\ disk # NULL
  /\ disk' = [disk EXCEPT !.alt = "end"]
  /\ UNCHANGED <<cache, platter, pc, allowed, guarded, interrupts, outages>>

Destroy ==
  /\ pc = "idle" /\ disk # NULL
  /\ disk' = NULL
  /\ UNCHANGED <<cache, platter, pc, allowed, guarded, interrupts, outages>>

\* An array of which some sectors have been replaced.
Mixture(old, new) == IF old = new THEN old ELSE Torn

(***************************************************************************)
(* Writing: ped_disk_commit_to_dev.                                        *)
(***************************************************************************)
\* Mutant: both headers are written before the arrays.
AfterHeadersFirst(step) ==
  CASE step = "clobber_head" -> "clobber_tail"
    [] step = "clobber_tail" -> "pmbr"
    [] step = "pmbr"         -> "pri"
    [] step = "pri"          -> "bak"
    [] step = "bak"          -> "ptes"
    [] step = "ptes"         -> "bakptes"
    [] step = "bakptes"      -> "sync"

\* Mutant: the backup is left to be repaired later.
AfterPrimaryOnly(step) ==
  CASE step = "clobber_head" -> "clobber_tail"
    [] step = "clobber_tail" -> "pmbr"
    [] step = "pmbr"         -> "pri"
    [] step = "pri"          -> "ptes"
    [] step = "ptes"         -> "sync"

\* The order of the writes.
After(step) ==
  CASE step = "clobber_head" -> "clobber_tail"
    [] step = "clobber_tail" -> "pmbr"
    [] step = "pmbr"         -> "pri"
    [] step = "pri"          -> "ptes"
    [] step = "ptes"         -> "bak"
    [] step = "bak"          -> "bakptes"
    [] step = "bakptes"      -> "sync"

\* Mutant: a label on the device is always clobbered first.
CommitClobbering ==
  /\ pc = "idle" /\ disk # NULL
  /\ pc' = "clobber_head"
  /\ allowed' = {Recovered(cache), disk.table}
  /\ guarded' = (/\ ~disk.clobber /\ disk.alt = "end" /\ Readable(cache)
                 /\ ValidBackup(cache, "end") /\ cache.bak["end"].crc = Recovered(cache))
  /\ UNCHANGED <<cache, platter, disk, interrupts, outages>>

Commit ==
  /\ pc = "idle" /\ disk # NULL
  /\ pc' = IF disk.clobber THEN "clobber_head" ELSE "pmbr"
  /\ allowed' = {Recovered(cache), disk.table}
  /\ guarded' = (/\ ~disk.clobber /\ disk.alt = "end" /\ Readable(cache)
                 /\ ValidBackup(cache, "end") /\ cache.bak["end"].crc = Recovered(cache))
  /\ UNCHANGED <<cache, platter, disk, interrupts, outages>>

\* _generate_header.
GenerateHeader == [alt |-> disk.alt, usable |-> disk.usable, crc |-> disk.table]

\* One ped_device_write after the other.
Write ==
  /\ pc \notin {"idle", "sync"}
  /\ cache' \in CASE pc = "clobber_head" ->
                       {[cache EXCEPT !.pri = NULL, !.ptes = p, !.pmbr = @ /\ Probe(cache)] :
                          p \in {Empty, Mixture(cache.ptes, Empty)}}
                  [] pc = "clobber_tail" ->
                       {[cache EXCEPT !.bak["end"] = NULL, !.bakptes["end"] = p] :
                          p \in {cache.bakptes["end"], Mixture(cache.bakptes["end"], Empty)}}
                  [] pc = "pmbr"    -> {[cache EXCEPT !.pmbr = TRUE]}
                  [] pc = "pri"     -> {[cache EXCEPT !.pri = GenerateHeader]}
                  [] pc = "ptes"    -> {[cache EXCEPT !.ptes = disk.table]}
                  [] pc = "bak"     -> {[cache EXCEPT !.bak[disk.alt] = GenerateHeader]}
                  [] pc = "bakptes" -> {[cache EXCEPT !.bakptes[disk.alt] = disk.table]}
  /\ disk' = [disk EXCEPT !.clobber = @ /\ pc # "clobber_tail"]
  /\ pc' = After(pc)
  /\ UNCHANGED <<platter, allowed, guarded, interrupts, outages>>

Sync ==
  /\ pc = "sync"
  /\ platter' = cache
  /\ pc' = "idle"
  /\ disk' = [disk EXCEPT !.reading = FALSE]
  /\ allowed' = {disk.table}
  /\ UNCHANGED <<cache, guarded, interrupts, outages>>

(***************************************************************************)
(* Interruptions.                                                          *)
(***************************************************************************)
\* A write of several sectors that was begun may have done a part of them.
Begun(m) ==
  {m} \cup CASE pc = "clobber_head" -> {[m EXCEPT !.pri = NULL, !.pmbr = @ /\ Probe(m)]}
             [] pc = "clobber_tail" -> {[m EXCEPT !.bakptes["end"] = Mixture(@, Empty)]}
             [] pc = "ptes"    -> {[m EXCEPT !.ptes = Mixture(@, disk.table)]}
             [] pc = "bakptes" -> {[m EXCEPT !.bakptes[disk.alt] = Mixture(@, disk.table)]}
             [] OTHER -> {}

\* A write fails: the commit returns 0, and the caller keeps the disk.
\* gpt_read ignores it, and ped_disk_new then clears needs_clobber.
WriteError ==
  /\ "error" \in Interruptions /\ interrupts + outages < MaxInterrupts
  /\ pc # "idle"
  /\ cache' \in Begun(cache)
  /\ pc' = "idle"
  /\ disk' = [disk EXCEPT !.clobber = @ /\ ~disk.reading, !.reading = FALSE]
  /\ interrupts' = interrupts + 1
  /\ UNCHANGED <<platter, allowed, guarded, outages>>

\* The program dies; the kernel still has what it wrote.
Kill ==
  /\ "kill" \in Interruptions /\ interrupts + outages < MaxInterrupts
  /\ cache' \in Begun(cache)
  /\ disk' = NULL /\ pc' = "idle"
  /\ interrupts' = interrupts + 1
  /\ UNCHANGED <<platter, allowed, guarded, outages>>

\* Some of the writes since the last sync reached the platter: all of the
\* arrays in new, none of those in old, a part of the others.
Mixed(pmbr, pri, ptes, kept, old, new) ==
  [pmbr |-> pmbr, pri |-> pri, ptes |-> ptes,
   bak     |-> [p \in Places |-> IF p \in kept THEN platter.bak[p] ELSE cache.bak[p]],
   bakptes |-> [p \in Places |-> IF p \in old THEN platter.bakptes[p]
                                ELSE IF p \in new THEN cache.bakptes[p]
                                ELSE Mixture(platter.bakptes[p], cache.bakptes[p])]]

PowerFailure ==
  /\ "power" \in Interruptions /\ interrupts + outages < MaxInterrupts
  /\ \E pmbr \in {platter.pmbr, cache.pmbr}, pri \in {platter.pri, cache.pri},
        ptes \in {platter.ptes, cache.ptes, Mixture(platter.ptes, cache.ptes)} :
       \E kept, old, new \in SUBSET Places : cache' = Mixed(pmbr, pri, ptes, kept, old, new)
  /\ platter' = cache'
  /\ disk' = NULL /\ pc' = "idle"
  /\ guarded' = FALSE
  /\ outages' = outages + 1
  /\ UNCHANGED <<allowed, interrupts>>
-----------------------------------------------------------------------------
\* A device with a sound GPT; one that was enlarged may have its usable area
\* already extended by another program.
SoundMedium(table, place, usable) ==
  LET hdr == [alt |-> place, usable |-> usable, crc |-> table]
  IN  [pmbr |-> TRUE, pri |-> hdr, ptes |-> table,
       bak |-> [p \in Places |-> IF p = place THEN hdr ELSE NULL],
       bakptes |-> [p \in Places |-> IF p = place THEN table ELSE Empty]]

Init ==
  /\ \E table \in Tables : \E usable \in Usable :
       /\ usable = "short" => Grown
       /\ cache = SoundMedium(table, IF Grown THEN "old" ELSE "end", usable)
       /\ allowed = {table}
  /\ platter = cache
  /\ disk = NULL /\ pc = "idle" /\ guarded = FALSE
  /\ interrupts = 0 /\ outages = 0

Next ==
  \/ \E fix \in Answers : Open(fix)
  \/ \E table \in Tables : Edit(table)
  \/ Mklabel \/ Duplicate \/ Destroy
  \/ Commit \/ Write \/ Sync
  \/ WriteError \/ Kill \/ PowerFailure

Spec == Init /\ [][Next]_vars
-----------------------------------------------------------------------------
TypeOK ==
  /\ cache \in Medium /\ platter \in Medium
  /\ disk \in Disk \cup {NULL}
  /\ pc \in {"idle", "clobber_head", "clobber_tail", "pmbr", "pri", "ptes", "bak", "bakptes", "sync"}
  /\ pc # "idle" => disk # NULL
  /\ guarded \in BOOLEAN

(***************************************************************************)
(* gpt_write's order of writes keeps the table: from the moment a disk     *)
(* with a current backup in the last sector is committed, whatever         *)
(* prefix of the writes is done, gpt_read finds the old table or the new.  *)
(***************************************************************************)
CommitIsRecoverable == guarded => Recovered(cache) \in allowed

(***************************************************************************)
(* A commit that was synced left two copies of one table, and the primary  *)
(* header points at the other.                                             *)
(***************************************************************************)
SyncedIsSound ==
  [][pc = "sync" /\ pc' = "idle" /\ platter' = cache =>
       /\ ValidPrimary(cache) /\ ValidBackup(cache, cache.pri.alt)
       /\ cache.bak[cache.pri.alt].crc = cache.pri.crc]_vars

\* A commit is under way from Commit, or from an Open that repairs, to the
\* step that makes the caller idle.
Atomic == INSTANCE AtomicTable WITH
  table     <- Recovered(cache),
  new       <- IF pc = "idle" THEN NULL ELSE disk.table,
  protected <- pc # "idle" /\ guarded,
  failures  <- interrupts

(***************************************************************************)
(* gpt_write, one sector after the other, implements a table that is       *)
(* replaced in one step: opening, editing and duplicating never change     *)
(* what gpt_read finds, a commit that succeeds leaves its table, and one   *)
(* that started with a current backup goes from the old table to the new   *)
(* one once and not back, wherever it is cut off.                          *)
(***************************************************************************)
CommitIsAtomic == Atomic!Spec

(***************************************************************************)
(* doc/parted.texi:115: Parted "was designed to avoid data loss during     *)
(* interruptions (like power failure)": a device that had a table still    *)
(* has one when nobody is working on it.                                   *)
(***************************************************************************)
TableSurvives == disk = NULL => Readable(cache)
=============================================================================
