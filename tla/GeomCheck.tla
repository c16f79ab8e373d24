----------------------------- MODULE GeomCheck -----------------------------
(***************************************************************************)
(* ped_geometry_check (libparted/cs/geom.c): a region is read one buffer   *)
(* at a time; the buffer that cannot be read is searched granule by        *)
(* granule, and when no granule fails the whole scan is repeated.          *)
(* ped_exception_fetch_all and leave_all bracket every pass.               *)
(***************************************************************************)
EXTENDS Integers

CONSTANTS
  Length,       \* geom->length
  offset, count, buffer_size, granularity,
  MaxGlitches   \* group reads that fail though every sector is good

ASSUME CheckAssumption ==
  /\ {Length, count, buffer_size, granularity} \subseteq Nat \ {0}
  /\ {offset, MaxGlitches} \subseteq Nat
  /\ offset + count <= Length

VARIABLES
  bad,        \* the sectors that cannot be read
  glitches, pc, group, i, result,
  fetched     \* ex_fetch_count, as this call changes it

vars == <<bad, glitches, pc, group, i, result, fetched>>

Sectors(start, len) == start .. start + len - 1

\* ped_geometry_read also fails outside the geometry.
Readable(start, len) == start + len <= Length /\ Sectors(start, len) \cap bad = {}

ReadLen == IF buffer_size < offset + count - group THEN buffer_size
                                                   ELSE offset + count - group

\* retry:
Retry ==
  /\ pc = "retry"
  /\ fetched' = fetched + 1 /\ group' = offset /\ pc' = "scan"
  /\ UNCHANGED <<bad, glitches, i, result>>

ReadGroup ==
  /\ pc = "scan" /\ group < offset + count
  /\ Readable(group, ReadLen)
  /\ group' = group + buffer_size
  /\ UNCHANGED <<bad, glitches, pc, i, result, fetched>>

\* goto found_error
GroupFails ==
  /\ pc = "scan" /\ group < offset + count
  /\ \/ ~Readable(group, ReadLen) /\ UNCHANGED glitches
     \/ glitches < MaxGlitches /\ glitches' = glitches + 1
  /\ i' = group /\ pc' = "search"
  /\ UNCHANGED <<bad, group, result, fetched>>

NoError ==
  /\ pc = "scan" /\ group >= offset + count
  /\ fetched' = fetched - 1 /\ result' = 0 /\ pc' = "done"
  /\ UNCHANGED <<bad, glitches, group, i>>

ReadGranule ==
  /\ pc = "search" /\ i + granularity < group + count
  /\ Readable(i, granularity)
  /\ i' = i + granularity
  /\ UNCHANGED <<bad, glitches, pc, group, result, fetched>>

GranuleFails ==
  /\ pc = "search" /\ i + granularity < group + count
  /\ ~Readable(i, granularity)
  /\ fetched' = fetched - 1 /\ result' = i /\ pc' = "done"
  /\ UNCHANGED <<bad, glitches, group, i>>

\* Mutant: the search starts over without reading the group again.
SearchForever ==
  /\ pc = "search" /\ i + granularity >= group + count
  /\ i' = group
  /\ UNCHANGED <<bad, glitches, pc, group, result, fetched>>

\* "weird: failure on group read, but not individually"
SearchAgain ==
  /\ pc = "search" /\ i + granularity >= group + count
  /\ fetched' = fetched - 1 /\ pc' = "retry"
  /\ UNCHANGED <<bad, glitches, group, i, result>>
-----------------------------------------------------------------------------
Region == Sectors(offset, count)

Init ==
  /\ bad \in SUBSET Region
  /\ glitches = 0 /\ pc = "retry" /\ group = offset /\ i = offset
  /\ result = 0 /\ fetched = 0

Next == \/ Retry \/ ReadGroup \/ GroupFails \/ NoError
        \/ ReadGranule \/ GranuleFails \/ SearchAgain

Spec == Init /\ [][Next]_vars /\ WF_vars(Next)
-----------------------------------------------------------------------------
(***************************************************************************)
(* The answer of ped_geometry_check: 0 means that no sector of the region  *)
(* is bad, another one that no sector before it is and that its granule    *)
(* holds a bad one -- unless a group read failed for no lasting reason.    *)
(***************************************************************************)
AnswerIsFirstBad ==
  pc = "done" /\ offset > 0 =>
    IF result = 0
    THEN bad = {}
    ELSE /\ \A s \in bad : s >= result
         /\ glitches = 0 => Sectors(result, granularity) \cap bad # {}

(***************************************************************************)
(* geom.c:404: "\return the first bad sector, or 0 if there were no        *)
(* physical errors".  The function returns.                                *)
(***************************************************************************)
AlwaysReturns == <>(pc = "done")

(***************************************************************************)
(* geom.c:404, with a region that begins at sector 0 of the geometry.      *)
(***************************************************************************)
ZeroMeansNoError == pc = "done" /\ result = 0 => bad = {}

(***************************************************************************)
(* geom.c:400-402: "The first bad sector to be returned will always be in  *)
(* the form: offset + n * granularity".                                    *)
(***************************************************************************)
AnswerIsGranule ==
  pc = "done" /\ result # 0 => (result - offset) % granularity = 0
=============================================================================
