----------------------------- MODULE GptProofs -----------------------------
(***************************************************************************)
(* gpt_write's order of writes keeps a table on the device, for any set of *)
(* tables and any number of commits and interruptions.                     *)
(***************************************************************************)
EXTENDS Gpt, TLAPS

(***************************************************************************)
(* What has been written is where the next write leaves it.                *)
(***************************************************************************)
Staged ==
  /\ pc \in {"pri", "ptes", "bak", "bakptes", "sync"} => cache.pmbr
  /\ pc \in {"ptes", "bak", "bakptes", "sync"} => cache.pri = GenerateHeader
  /\ pc \in {"bak", "bakptes", "sync"} => cache.ptes = disk.table
  /\ pc \in {"bakptes", "sync"} => cache.bak[disk.alt] = GenerateHeader
  /\ pc = "sync" => cache.bakptes[disk.alt] = disk.table

(***************************************************************************)
(* Until the primary is complete the backup answers for it.                *)
(***************************************************************************)
Covered ==
  guarded =>
    /\ Probe(cache) /\ Recovered(cache) \in allowed
    /\ pc \notin {"clobber_head", "clobber_tail"}
    /\ pc # "idle" => disk.alt = "end" /\ disk.table \in allowed
    /\ pc \in {"pmbr", "pri", "ptes"} => ValidBackup(cache, "end") /\ cache.bak["end"].crc \in allowed
    /\ pc \in {"pmbr", "pri"} => cache.bak["end"].crc = Recovered(cache)

IInv == TypeOK /\ Staged /\ Covered

(***************************************************************************)
(* Facts about one medium.                                                 *)
(***************************************************************************)
LEMMA PrimaryAnswers ==
  ASSUME NEW m \in Medium, Probe(m), ValidPrimary(m)
  PROVE  Recovered(m) = m.pri.crc
  BY DEF Recovered, Readable, ChosenHeader

LEMMA BackupAnswers ==
  ASSUME NEW m \in Medium, Probe(m), ~ValidPrimary(m), ValidBackup(m, "end")
  PROVE  Recovered(m) = m.bak["end"].crc
  BY DEF Recovered, Readable, ChosenHeader, AlternateLBA

\* The header that gpt_read goes by is a header.
LEMMA ChosenIsHeader ==
  ASSUME NEW m \in Medium, Readable(m)
  PROVE  ChosenHeader(m) \in Header /\ AlternateLBA(m) \in Places
  BY DEF Readable, ChosenHeader, AlternateLBA, ValidPrimary, ValidBackup, Medium, Places, Header

LEMMA GeneratedIsHeader ==
  ASSUME disk \in Disk
  PROVE  /\ GenerateHeader \in Header /\ GenerateHeader # NULL
         /\ GenerateHeader.crc = disk.table /\ GenerateHeader.alt = disk.alt
<1>1. GenerateHeader \in Header
  BY DEF GenerateHeader, Disk, Header
<1>2. GenerateHeader # NULL
  BY <1>1, GptAssumption
<1> QED  BY <1>1, <1>2 DEF GenerateHeader

LEMMA MixtureIsArray ==
  ASSUME NEW a \in Arrays, NEW b \in Arrays
  PROVE  Mixture(a, b) \in Arrays
  BY DEF Mixture, Arrays

\* Replacing one part of a medium by one of its kind gives a medium.
LEMMA ReplacePart ==
  ASSUME NEW m \in Medium, NEW h \in Header \cup {NULL}, NEW a \in Arrays,
         NEW b \in BOOLEAN, NEW p \in Places
  PROVE  /\ [m EXCEPT !.pmbr = b] \in Medium
         /\ [m EXCEPT !.pri = h] \in Medium
         /\ [m EXCEPT !.ptes = a] \in Medium
         /\ [m EXCEPT !.bak[p] = h] \in Medium
         /\ [m EXCEPT !.bakptes[p] = a] \in Medium
         /\ [m EXCEPT !.pri = h, !.pmbr = b] \in Medium
         /\ [m EXCEPT !.pri = h, !.ptes = a, !.pmbr = b] \in Medium
         /\ [m EXCEPT !.bak[p] = h, !.bakptes[p] = a] \in Medium
  BY DEF Medium

\* One write, seen through the stages.
LEMMA WriteCases ==
  ASSUME TypeOK, Write
  PROVE  /\ disk \in Disk /\ disk # NULL /\ disk' # NULL
         /\ disk'.table = disk.table /\ disk'.alt = disk.alt /\ disk'.usable = disk.usable
         /\ disk' \in Disk
         /\ \/ pc = "clobber_head" /\ pc' = "clobber_tail"
            \/ pc = "clobber_tail" /\ pc' = "pmbr"
            \/ pc = "pmbr" /\ pc' = "pri" /\ cache' = [cache EXCEPT !.pmbr = TRUE]
            \/ pc = "pri" /\ pc' = "ptes" /\ cache' = [cache EXCEPT !.pri = GenerateHeader]
            \/ pc = "ptes" /\ pc' = "bak" /\ cache' = [cache EXCEPT !.ptes = disk.table]
            \/ pc = "bak" /\ pc' = "bakptes" /\ cache' = [cache EXCEPT !.bak[disk.alt] = GenerateHeader]
            \/ pc = "bakptes" /\ pc' = "sync" /\ cache' = [cache EXCEPT !.bakptes[disk.alt] = disk.table]
<1>1. disk \in Disk /\ disk # NULL
  BY GptAssumption DEF TypeOK, Write
<1>2. disk' = [disk EXCEPT !.clobber = @ /\ pc # "clobber_tail"]
  BY DEF Write
<1>3. disk' \in Disk /\ disk'.table = disk.table /\ disk'.alt = disk.alt /\ disk'.usable = disk.usable
  BY <1>1, <1>2 DEF Disk
<1>4. disk' # NULL
  BY <1>3, GptAssumption
<1>5. pc \in {"clobber_head", "clobber_tail", "pmbr", "pri", "ptes", "bak", "bakptes"}
  BY DEF TypeOK, Write
<1>6. /\ pc = "clobber_head" => pc' = "clobber_tail"
      /\ pc = "clobber_tail" => pc' = "pmbr"
  BY DEF Write, After
<1>7. /\ pc = "pmbr" => pc' = "pri" /\ cache' = [cache EXCEPT !.pmbr = TRUE]
      /\ pc = "pri" => pc' = "ptes" /\ cache' = [cache EXCEPT !.pri = GenerateHeader]
      /\ pc = "ptes" => pc' = "bak" /\ cache' = [cache EXCEPT !.ptes = disk.table]
      /\ pc = "bak" => pc' = "bakptes" /\ cache' = [cache EXCEPT !.bak[disk.alt] = GenerateHeader]
      /\ pc = "bakptes" => pc' = "sync" /\ cache' = [cache EXCEPT !.bakptes[disk.alt] = disk.table]
  BY DEF Write, After
<1> QED  BY <1>1, <1>3, <1>4, <1>5, <1>6, <1>7

(***************************************************************************)
(* The type invariant.                                                     *)
(***************************************************************************)
\* Every outcome of a write is a medium.
LEMMA WriteType ==
  ASSUME TypeOK, Write
  PROVE  cache' \in Medium
<1> USE DEF TypeOK
<1>1. disk \in Disk /\ disk.table \in Arrays /\ disk.alt \in Places /\ "end" \in Places
  BY WriteCases DEF Disk, Arrays, Places
<1>2. GenerateHeader \in Header \cup {NULL} /\ NULL \in Header \cup {NULL}
  BY <1>1, GeneratedIsHeader
<1>3. Empty \in Arrays /\ cache.ptes \in Arrays /\ cache.bakptes["end"] \in Arrays
  BY <1>1, GptAssumption DEF Arrays, Medium
<1>4. CASE pc = "clobber_head"
  <2>1. PICK a \in {Empty, Mixture(cache.ptes, Empty)} :
          cache' = [cache EXCEPT !.pri = NULL, !.ptes = a, !.pmbr = @ /\ Probe(cache)]
    BY <1>4 DEF Write
  <2>2. a \in Arrays
    BY <1>3, MixtureIsArray
  <2>3. cache' = [cache EXCEPT !.pri = NULL, !.ptes = a, !.pmbr = cache.pmbr /\ Probe(cache)]
    BY <2>1
  <2>4. (cache.pmbr /\ Probe(cache)) \in BOOLEAN
    OBVIOUS
  <2> QED  BY <2>2, <2>3, <2>4, <1>2, <1>1, ReplacePart
<1>5. CASE pc = "clobber_tail"
  <2>1. PICK a \in {cache.bakptes["end"], Mixture(cache.bakptes["end"], Empty)} :
          cache' = [cache EXCEPT !.bak["end"] = NULL, !.bakptes["end"] = a]
    BY <1>5 DEF Write
  <2>2. a \in Arrays
    BY <1>3, MixtureIsArray
  <2> QED  BY <2>1, <2>2, <1>2, <1>1, ReplacePart
<1>6. CASE pc \notin {"clobber_head", "clobber_tail"}
  <2>1. /\ [cache EXCEPT !.pmbr = TRUE] \in Medium
        /\ [cache EXCEPT !.pri = GenerateHeader] \in Medium
        /\ [cache EXCEPT !.ptes = disk.table] \in Medium
        /\ [cache EXCEPT !.bak[disk.alt] = GenerateHeader] \in Medium
        /\ [cache EXCEPT !.bakptes[disk.alt] = disk.table] \in Medium
    BY <1>1, <1>2, ReplacePart
  <2> QED  BY <2>1, <1>6, WriteCases
<1> QED  BY <1>4, <1>5, <1>6

\* An interrupted write leaves a medium.
LEMMA BegunType ==
  ASSUME TypeOK, NEW m \in Begun(cache)
  PROVE  m \in Medium
<1> USE DEF TypeOK
<1>1. Empty \in Arrays /\ cache.ptes \in Arrays /\ "end" \in Places /\ NULL \in Header \cup {NULL}
      /\ \A p \in Places : cache.bakptes[p] \in Arrays
  BY GptAssumption DEF Arrays, Medium, Places
<1>2. CASE pc = "clobber_head"
  <2>1. (cache.pmbr /\ Probe(cache)) \in BOOLEAN
    OBVIOUS
  <2>2. m = cache \/ m = [cache EXCEPT !.pri = NULL, !.pmbr = cache.pmbr /\ Probe(cache)]
    BY <1>2 DEF Begun
  <2>3. ASSUME NEW b \in BOOLEAN
        PROVE  [cache EXCEPT !.pri = NULL, !.pmbr = b] \in Medium
    BY <1>1, ReplacePart
  <2> HIDE DEF TypeOK
  <2>4. cache \in Medium
    BY DEF TypeOK
  <2> QED  BY <2>1, <2>2, <2>3, <2>4
<1>3. CASE pc = "clobber_tail"
  <2>1. m = cache \/ m = [cache EXCEPT !.bakptes["end"] = Mixture(cache.bakptes["end"], Empty)]
    BY <1>3 DEF Begun
  <2>2. Mixture(cache.bakptes["end"], Empty) \in Arrays
    BY <1>1, MixtureIsArray
  <2>3. [cache EXCEPT !.bakptes["end"] = Mixture(cache.bakptes["end"], Empty)] \in Medium
    BY <2>2, <1>1 DEF Medium
  <2> QED  BY <2>1, <2>3
<1>4. CASE pc \in {"ptes", "bakptes"}
  <2>1. disk \in Disk
    BY <1>4
  <2>2. disk.table \in Arrays /\ disk.alt \in Places
    BY <2>1 DEF Disk, Arrays
  <2>3. Mixture(cache.ptes, disk.table) \in Arrays /\ Mixture(cache.bakptes[disk.alt], disk.table) \in Arrays
    BY <2>2, <1>1, MixtureIsArray
  <2>4. \/ m = cache
        \/ m = [cache EXCEPT !.ptes = Mixture(cache.ptes, disk.table)]
        \/ m = [cache EXCEPT !.bakptes[disk.alt] = Mixture(cache.bakptes[disk.alt], disk.table)]
    BY <1>4 DEF Begun
  <2>5. /\ [cache EXCEPT !.ptes = Mixture(cache.ptes, disk.table)] \in Medium
        /\ [cache EXCEPT !.bakptes[disk.alt] = Mixture(cache.bakptes[disk.alt], disk.table)] \in Medium
    BY <2>2, <2>3 DEF Medium
  <2> QED  BY <2>4, <2>5
<1>5. CASE pc \notin {"clobber_head", "clobber_tail", "ptes", "bakptes"}
  BY <1>5 DEF Begun
<1> QED  BY <1>2, <1>3, <1>4, <1>5

\* A power failure leaves a medium.
LEMMA MixedType ==
  ASSUME TypeOK,
         NEW b \in {platter.pmbr, cache.pmbr}, NEW h \in {platter.pri, cache.pri},
         NEW a \in {platter.ptes, cache.ptes, Mixture(platter.ptes, cache.ptes)},
         NEW kept \in SUBSET Places, NEW old \in SUBSET Places, NEW new \in SUBSET Places
  PROVE  Mixed(b, h, a, kept, old, new) \in Medium
<1> USE DEF TypeOK
<1>1. b \in BOOLEAN /\ h \in Header \cup {NULL}
  BY DEF Medium
<1>2. a \in Arrays
  BY MixtureIsArray DEF Medium
<1>3. \A p \in Places : /\ platter.bak[p] \in Header \cup {NULL} /\ cache.bak[p] \in Header \cup {NULL}
                        /\ platter.bakptes[p] \in Arrays /\ cache.bakptes[p] \in Arrays
                        /\ Mixture(platter.bakptes[p], cache.bakptes[p]) \in Arrays
  BY MixtureIsArray DEF Medium
<1> QED  BY <1>1, <1>2, <1>3 DEF Medium, Mixed

LEMMA InitType == Init => TypeOK
<1> SUFFICES ASSUME Init PROVE TypeOK
  OBVIOUS
<1>1. PICK table \in Tables : \E place \in Places : \E usable \in Usable :
        cache = SoundMedium(table, place, usable)
  BY DEF Init, Places
<1>2. PICK place \in Places : \E usable \in Usable : cache = SoundMedium(table, place, usable)
  BY <1>1
<1>3. PICK usable \in Usable : cache = SoundMedium(table, place, usable)
  BY <1>2
<1>4. [alt |-> place, usable |-> usable, crc |-> table] \in Header
  BY DEF Header
<1>5. cache \in Medium
  BY <1>3, <1>4, GptAssumption DEF SoundMedium, Medium, Arrays
<1> QED  BY <1>5 DEF Init, TypeOK

LEMMA TypeStep == TypeOK /\ [Next]_vars => TypeOK'
<1> SUFFICES ASSUME TypeOK, [Next]_vars PROVE TypeOK'
  OBVIOUS
<1> USE DEF TypeOK
<1>1. ASSUME NEW fix \in Answers, Open(fix) PROVE TypeOK'
  <2> DEFINE hdr == ChosenHeader(cache)
             alt == AlternateLBA(cache)
             fixed == fix /\ (Misplaced(cache) \/ hdr.usable = "short")
  <2>1. hdr \in Header /\ alt \in Places
    BY <1>1, ChosenIsHeader DEF Open
  <2>2. fixed \in BOOLEAN
    OBVIOUS
  <2>3. /\ disk' = [table |-> hdr.crc, alt |-> IF fixed THEN "end" ELSE alt,
                    usable |-> IF fixed THEN "full" ELSE hdr.usable,
                    clobber |-> fixed, reading |-> fixed]
        /\ cache' = IF fixed THEN [cache EXCEPT !.bak[alt] = NULL] ELSE cache
        /\ pc' = IF fixed THEN "clobber_head" ELSE "idle"
        /\ guarded' = FALSE /\ platter' = platter
    BY <1>1 DEF Open
  <2> HIDE DEF hdr, alt, fixed
  <2>4. disk' \in Disk
    BY <2>1, <2>2, <2>3 DEF Disk, Header, Places, Usable
  <2>5. cache' \in Medium
    BY <2>1, <2>3 DEF Medium
  <2>6. disk' # NULL
    BY <2>4, GptAssumption
  <2> QED  BY <2>2, <2>3, <2>4, <2>5, <2>6
<1>2. ASSUME NEW table \in Tables, Edit(table) PROVE TypeOK'
  BY <1>2 DEF Edit, Disk
<1>3. CASE Mklabel
  BY <1>3, GptAssumption DEF Mklabel, Disk, Places, Usable
<1>4. CASE Duplicate
  BY <1>4 DEF Duplicate, Disk, Places
<1>5. CASE Destroy
  BY <1>5 DEF Destroy
<1>6. CASE Commit
  BY <1>6 DEF Commit
<1>7. CASE Write
  <2>1. cache' \in Medium
    BY <1>7, WriteType
  <2>2. platter' = platter /\ guarded' = guarded
    BY <1>7 DEF Write
  <2> QED  BY <2>1, <2>2, <1>7, WriteCases
<1>8. CASE Sync
  <2>1. disk \in Disk
    BY <1>8 DEF Sync
  <2>2. disk' \in Disk
    BY <1>8, <2>1 DEF Sync, Disk
  <2> QED  BY <1>8, <2>2 DEF Sync
<1>9. CASE WriteError
  <2>1. disk \in Disk
    BY <1>9 DEF WriteError
  <2>2. disk' = [disk EXCEPT !.clobber = disk.clobber /\ ~disk.reading, !.reading = FALSE]
    BY <1>9 DEF WriteError
  <2>3. disk' \in Disk
    BY <2>1, <2>2 DEF Disk
  <2>4. cache' \in Medium
    BY <1>9, BegunType DEF WriteError
  <2> QED  BY <1>9, <2>3, <2>4 DEF WriteError
<1>10. CASE Kill
  <2>1. cache' \in Medium
    BY <1>10, BegunType DEF Kill
  <2> QED  BY <1>10, <2>1 DEF Kill
<1>11. CASE PowerFailure
  <2>1. cache' \in Medium
    BY <1>11, MixedType DEF PowerFailure
  <2> QED  BY <1>11, <2>1 DEF PowerFailure
<1>12. CASE UNCHANGED vars
  BY <1>12 DEF vars
<1> QED  BY <1>1, <1>2, <1>3, <1>4, <1>5, <1>6, <1>7, <1>8, <1>9, <1>10, <1>11, <1>12 DEF Next

(***************************************************************************)
(* Stages.                                                                 *)
(***************************************************************************)
LEMMA StageStep == TypeOK /\ Staged /\ [Next]_vars => Staged'
<1> SUFFICES ASSUME TypeOK, Staged, [Next]_vars PROVE Staged'
  OBVIOUS
<1>1. CASE Write
  <2>1. GenerateHeader' = GenerateHeader /\ disk'.table = disk.table /\ disk'.alt = disk.alt
    BY <1>1, WriteCases DEF GenerateHeader
  <2>2. cache \in Medium /\ disk.alt \in Places
    BY <1>1, WriteCases DEF TypeOK, Disk
  <2>3. CASE pc \in {"clobber_head", "clobber_tail", "pmbr"}
    <3>1. \/ pc' \in {"clobber_tail", "pmbr"}
          \/ pc' = "pri" /\ cache' = [cache EXCEPT !.pmbr = TRUE]
      BY <1>1, <2>3, WriteCases
    <3> QED  BY <3>1, <2>2 DEF Staged, Medium
  <2>4. CASE pc = "pri"
    <3>1. pc' = "ptes" /\ cache' = [cache EXCEPT !.pri = GenerateHeader]
      BY <1>1, <2>4, WriteCases
    <3> QED  BY <3>1, <2>1, <2>2, <2>4 DEF Staged, Medium
  <2>5. CASE pc = "ptes"
    <3>1. pc' = "bak" /\ cache' = [cache EXCEPT !.ptes = disk.table]
      BY <1>1, <2>5, WriteCases
    <3> QED  BY <3>1, <2>1, <2>2, <2>5 DEF Staged, Medium
  <2>6. CASE pc = "bak"
    <3>1. pc' = "bakptes" /\ cache' = [cache EXCEPT !.bak[disk.alt] = GenerateHeader]
      BY <1>1, <2>6, WriteCases
    <3> QED  BY <3>1, <2>1, <2>2, <2>6 DEF Staged, Medium
  <2>7. CASE pc = "bakptes"
    <3>1. pc' = "sync" /\ cache' = [cache EXCEPT !.bakptes[disk.alt] = disk.table]
      BY <1>1, <2>7, WriteCases
    <3> QED  BY <3>1, <2>1, <2>2, <2>7 DEF Staged, Medium
  <2> QED  BY <1>1, <2>3, <2>4, <2>5, <2>6, <2>7, WriteCases
<1>2. ASSUME pc' \in {"idle", "clobber_head", "pmbr"} PROVE Staged'
  BY <1>2 DEF Staged
<1>3. ASSUME NEW fix \in Answers, Open(fix) PROVE Staged'
  <2>1. pc' \in {"idle", "clobber_head"}
    BY <1>3 DEF Open
  <2> QED  BY <2>1, <1>2
<1>4. ASSUME NEW table \in Tables, Edit(table) PROVE Staged'
  BY <1>2, <1>4 DEF Edit
<1>5. CASE Mklabel \/ Duplicate \/ Destroy \/ Commit \/ Sync \/ WriteError \/ Kill \/ PowerFailure
  BY <1>2, <1>5 DEF Mklabel, Duplicate, Destroy, Commit, Sync, WriteError, Kill, PowerFailure
<1>6. CASE UNCHANGED vars
  BY <1>6 DEF vars, Staged, GenerateHeader
<1> QED  BY <1>1, <1>3, <1>4, <1>5, <1>6 DEF Next

(***************************************************************************)
(* Recoverability.                                                         *)
(***************************************************************************)
\* While the backup stands in, what the primary says must be allowed.
LEMMA BackupCovers ==
  ASSUME NEW m \in Medium, NEW S, Probe(m), ValidBackup(m, "end"), m.bak["end"].crc \in S,
         ValidPrimary(m) => m.pri.crc \in S
  PROVE  Recovered(m) \in S
  BY PrimaryAnswers, BackupAnswers

LEMMA CoverWrite ==
  ASSUME IInv, Write, guarded
  PROVE  Covered'
<1> USE DEF IInv
<1>1. guarded' = guarded /\ allowed' = allowed /\ TypeOK /\ cache \in Medium
  BY DEF Write, TypeOK
<1>2. cache' \in Medium
  BY WriteType
<1>3. disk \in Disk /\ disk.alt = "end" /\ disk.table \in allowed
      /\ disk'.alt = "end" /\ disk'.table \in allowed'
  BY <1>1, WriteCases DEF Covered, Write
<1>4. GenerateHeader # NULL /\ GenerateHeader.crc = disk.table
  BY <1>3, GeneratedIsHeader
<1>5. Probe(cache) /\ pc \notin {"clobber_head", "clobber_tail"}
  BY DEF Covered
<1>6. CASE pc = "pmbr"
  <2>1. pc' = "pri" /\ cache' = [cache EXCEPT !.pmbr = TRUE]
    BY <1>6, WriteCases
  <2>2. /\ cache'.pri = cache.pri /\ cache'.ptes = cache.ptes /\ cache'.pmbr
        /\ cache'.bak = cache.bak /\ cache'.bakptes = cache.bakptes
    BY <2>1, <1>1 DEF Medium
  <2>3. Probe(cache') /\ ValidBackup(cache', "end") /\ cache'.bak["end"].crc \in allowed
    BY <2>2, <1>5, <1>6 DEF Covered, Probe, ValidBackup
  <2>4. ValidPrimary(cache') => cache'.pri.crc \in allowed
    BY <2>2, <1>1, <1>5, PrimaryAnswers DEF Covered, ValidPrimary
  <2>5. Recovered(cache') \in allowed
    BY <2>3, <2>4, <1>2, BackupCovers
  <2>6. cache' = cache
    BY <2>1, <1>1, <1>5 DEF Medium, Probe
  <2> QED  BY <2>1, <2>3, <2>5, <2>6, <1>1, <1>3, <1>6 DEF Covered
<1>7. CASE pc = "pri"
  <2>1. pc' = "ptes" /\ cache' = [cache EXCEPT !.pri = GenerateHeader]
    BY <1>7, WriteCases
  <2>2. /\ cache'.pri = GenerateHeader /\ cache'.pmbr = cache.pmbr
        /\ cache'.bak = cache.bak /\ cache'.bakptes = cache.bakptes
    BY <2>1, <1>1 DEF Medium
  <2>3. Probe(cache') /\ ValidBackup(cache', "end") /\ cache'.bak["end"].crc \in allowed
    BY <2>2, <1>4, <1>5, <1>7 DEF Covered, Probe, ValidBackup
  <2>4. Recovered(cache') \in allowed
    BY <2>2, <2>3, <1>2, <1>3, <1>4, BackupCovers
  <2> QED  BY <2>1, <2>3, <2>4, <1>1, <1>3 DEF Covered
<1>8. CASE pc \in {"ptes", "bak", "bakptes"}
  <2>1. /\ pc' \in {"bak", "bakptes", "sync"}
        /\ cache'.pri = cache.pri /\ cache'.pmbr = cache.pmbr /\ cache'.ptes = disk.table
    BY <1>8, <1>1, WriteCases DEF Medium, Staged
  <2>2. cache.pri = GenerateHeader
    BY <1>8 DEF Staged
  <2>3. Probe(cache') /\ ValidPrimary(cache')
    BY <2>1, <2>2, <1>4, <1>5 DEF Probe, ValidPrimary
  <2>4. Recovered(cache') = disk.table
    BY <2>1, <2>2, <2>3, <1>2, <1>4, PrimaryAnswers
  <2> QED  BY <2>1, <2>3, <2>4, <1>1, <1>3 DEF Covered
<1> QED  BY <1>5, <1>6, <1>7, <1>8, WriteCases

\* An interrupted write is covered as well as a finished one.
LEMMA CoverBegun ==
  ASSUME IInv, guarded, NEW m \in Begun(cache)
  PROVE  Probe(m) /\ Recovered(m) \in allowed
<1> USE DEF IInv
<1>1. cache \in Medium /\ m \in Medium
  BY BegunType DEF TypeOK
<1>2. Probe(cache) /\ Recovered(cache) \in allowed /\ pc \notin {"clobber_head", "clobber_tail"}
  BY DEF Covered
<1>3. CASE m = cache
  BY <1>2, <1>3
<1>4. CASE m # cache /\ pc = "ptes"
  <2>1. disk \in Disk /\ disk.table \in allowed
    BY <1>4 DEF Covered, TypeOK
  <2>2. m = [cache EXCEPT !.ptes = Mixture(cache.ptes, disk.table)]
    BY <1>4 DEF Begun
  <2>3. m.pri = cache.pri /\ m.pmbr = cache.pmbr /\ m.bak = cache.bak /\ m.bakptes = cache.bakptes
    BY <2>2, <1>1 DEF Medium
  <2>4. m.pri.crc = disk.table
    BY <2>1, <2>3, <1>4, GeneratedIsHeader DEF Staged
  <2>5. Probe(m) /\ ValidBackup(m, "end") /\ m.bak["end"].crc \in allowed
    BY <2>3, <1>2, <1>4 DEF Covered, Probe, ValidBackup
  <2> QED  BY <2>1, <2>4, <2>5, <1>1, BackupCovers
<1>5. CASE m # cache /\ pc = "bakptes"
  <2>1. disk \in Disk /\ disk.table \in allowed
    BY <1>5 DEF Covered, TypeOK
  <2>2. m = [cache EXCEPT !.bakptes[disk.alt] = Mixture(cache.bakptes[disk.alt], disk.table)]
    BY <1>5 DEF Begun
  <2>3. m.pri = cache.pri /\ m.pmbr = cache.pmbr /\ m.ptes = cache.ptes
    BY <2>2, <1>1 DEF Medium
  <2>4. m.pri.crc = disk.table /\ m.ptes = disk.table
    BY <2>1, <2>3, <1>5, GeneratedIsHeader DEF Staged
  <2>5. Probe(m) /\ ValidPrimary(m)
    BY <2>3, <2>4, <1>2 DEF Probe, ValidPrimary
  <2> QED  BY <2>1, <2>4, <2>5, <1>1, PrimaryAnswers
<1> QED  BY <1>2, <1>3, <1>4, <1>5 DEF Begun

LEMMA CoverStep == IInv /\ [Next]_vars => Covered'
<1> SUFFICES ASSUME IInv, [Next]_vars PROVE Covered'
  OBVIOUS
<1>1. ASSUME ~guarded' PROVE Covered'
  BY <1>1 DEF Covered
<1>2. ASSUME cache' = cache, allowed' = allowed, guarded' = guarded, pc' = "idle" PROVE Covered'
  BY <1>2 DEF IInv, Covered
<1>3. CASE Write
  <2>1. guarded' = guarded
    BY <1>3 DEF Write
  <2> QED  BY <1>1, <1>3, <2>1, CoverWrite
<1>4. CASE Commit
  <2> SUFFICES ASSUME guarded' PROVE Covered'
    BY <1>1
  <2>1. /\ ~disk.clobber /\ disk.alt = "end" /\ Readable(cache)
        /\ ValidBackup(cache, "end") /\ cache.bak["end"].crc = Recovered(cache)
        /\ pc' = "pmbr" /\ cache' = cache /\ disk' = disk
        /\ allowed' = {Recovered(cache), disk.table}
    BY <1>4 DEF Commit
  <2> QED  BY <2>1 DEF Covered, Readable
<1>5. CASE Sync
  <2>1. pc = "sync" /\ pc' = "idle" /\ cache' = cache /\ guarded' = guarded /\ allowed' = {disk.table}
    BY <1>5 DEF Sync
  <2>2. disk \in Disk /\ cache \in Medium
    BY <2>1 DEF IInv, TypeOK
  <2>3. cache.pri = GenerateHeader /\ cache.ptes = disk.table
    BY <2>1 DEF IInv, Staged
  <2>4. ValidPrimary(cache) /\ cache.pri.crc = disk.table
    BY <2>2, <2>3, GeneratedIsHeader DEF ValidPrimary
  <2>5. Probe(cache) => Recovered(cache) = disk.table
    BY <2>2, <2>4, PrimaryAnswers
  <2> QED  BY <2>1, <2>5 DEF IInv, Covered
<1>6. CASE WriteError \/ Kill
  <2>1. cache' \in Begun(cache) /\ pc' = "idle" /\ allowed' = allowed /\ guarded' = guarded
    BY <1>6 DEF WriteError, Kill
  <2>2. guarded => Probe(cache') /\ Recovered(cache') \in allowed
    BY <2>1, CoverBegun
  <2> QED  BY <2>1, <2>2 DEF Covered
<1>7. CASE PowerFailure
  BY <1>1, <1>7 DEF PowerFailure
<1>8. ASSUME NEW fix \in Answers, Open(fix) PROVE Covered'
  <2>1. ~guarded'
    BY <1>8 DEF Open
  <2> QED  BY <1>1, <2>1
<1>9. ASSUME NEW table \in Tables, Edit(table) PROVE Covered'
  BY <1>2, <1>9 DEF Edit
<1>10. CASE Mklabel \/ Duplicate \/ Destroy
  BY <1>2, <1>10 DEF Mklabel, Duplicate, Destroy
<1>11. CASE UNCHANGED vars
  BY <1>11 DEF vars, IInv, Covered
<1> QED  BY <1>3, <1>4, <1>5, <1>6, <1>7, <1>8, <1>9, <1>10, <1>11 DEF Next

(***************************************************************************)
(* The theorems.                                                           *)
(***************************************************************************)
\* Stages and coverage are invariants of reading, editing and committing.
THEOREM Invariance == Spec => []IInv
<1>1. Init => IInv
  BY InitType DEF Init, IInv, Staged, Covered
<1>2. IInv /\ [Next]_vars => IInv'
  BY TypeStep, StageStep, CoverStep DEF IInv
<1> QED  BY <1>1, <1>2, PTL DEF Spec

\* The medium, the PedDisk and the commit's progress keep their types.
THEOREM TypeCorrect == Spec => []TypeOK
<1>1. IInv => TypeOK
  BY DEF IInv
<1> QED  BY <1>1, Invariance, PTL

\* A commit that starts with a current backup in the last sector can be
\* killed after any write, and gpt_read finds the old table or the new one.
THEOREM Recoverability == Spec => []CommitIsRecoverable
<1>1. IInv => CommitIsRecoverable
  BY DEF IInv, Covered, CommitIsRecoverable
<1> QED  BY <1>1, Invariance, PTL

\* gpt_write returns success only with two agreeing copies on the device.
THEOREM SyncedSound == Spec => SyncedIsSound
<1>1. IInv /\ [Next]_vars =>
        [pc = "sync" /\ pc' = "idle" /\ platter' = cache =>
           /\ ValidPrimary(cache) /\ ValidBackup(cache, cache.pri.alt)
           /\ cache.bak[cache.pri.alt].crc = cache.pri.crc]_vars
  <2> SUFFICES ASSUME IInv, pc = "sync"
               PROVE  /\ ValidPrimary(cache) /\ ValidBackup(cache, cache.pri.alt)
                      /\ cache.bak[cache.pri.alt].crc = cache.pri.crc
    OBVIOUS
  <2>1. disk \in Disk
    BY DEF IInv, TypeOK
  <2>2. /\ cache.pri = GenerateHeader /\ cache.ptes = disk.table
        /\ cache.bak[disk.alt] = GenerateHeader /\ cache.bakptes[disk.alt] = disk.table
    BY DEF IInv, Staged
  <2> QED  BY <2>1, <2>2, GeneratedIsHeader DEF ValidPrimary, ValidBackup
<1> QED  BY <1>1, Invariance, PTL DEF Spec, SyncedIsSound

(***************************************************************************)
(* The refinement.  What a reader finds at the stages of a commit.         *)
(***************************************************************************)
LEMMA RecoveredType ==
  ASSUME NEW m \in Medium
  PROVE  Recovered(m) \in Tables \cup {NULL}
<1>1. CASE Readable(m)
  <2>1. ChosenHeader(m) \in Header
    BY <1>1, ChosenIsHeader
  <2> QED  BY <1>1, <2>1 DEF Recovered, Header
<1>2. CASE ~Readable(m)
  BY <1>2 DEF Recovered
<1> QED  BY <1>1, <1>2

\* From the moment the primary array is written it is the new table.
LEMMA PrimaryWritten ==
  ASSUME IInv, pc \in {"bak", "bakptes", "sync"}
  PROVE  Recovered(cache) = disk.table
<1>1. disk \in Disk /\ cache \in Medium
  BY DEF IInv, TypeOK
<1>2. cache.pri = GenerateHeader /\ cache.ptes = disk.table /\ cache.pmbr
  BY DEF IInv, Staged
<1>3. Probe(cache) /\ ValidPrimary(cache) /\ cache.pri.crc = disk.table
  BY <1>1, <1>2, GeneratedIsHeader DEF Probe, ValidPrimary
<1> QED  BY <1>1, <1>3, PrimaryAnswers

\* A protected commit that is cut off leaves what was there or its table.
LEMMA CutOff ==
  ASSUME IInv, guarded, pc # "idle", NEW m \in Begun(cache)
  PROVE  Recovered(m) \in {Recovered(cache), disk.table}
<1>1. cache \in Medium /\ m \in Medium /\ disk \in Disk
  BY BegunType DEF IInv, TypeOK
<1>2. CASE m = cache
  BY <1>2
<1>3. CASE m # cache /\ pc = "ptes"
  <2>1. m = [cache EXCEPT !.ptes = Mixture(cache.ptes, disk.table)]
    BY <1>3 DEF Begun
  <2>2. /\ m.pri = cache.pri /\ m.pmbr = cache.pmbr /\ m.bak = cache.bak /\ m.bakptes = cache.bakptes
        /\ m.ptes = Mixture(cache.ptes, disk.table)
    BY <2>1, <1>1 DEF Medium
  <2>3. cache.pri = GenerateHeader /\ cache.pri.crc = disk.table
    BY <1>1, <1>3, GeneratedIsHeader DEF IInv, Staged
  <2>4. Probe(cache) /\ Probe(m) /\ ValidBackup(cache, "end") /\ ValidBackup(m, "end")
    BY <2>2, <1>3 DEF IInv, Covered, Probe, ValidBackup
  <2>5. ValidPrimary(cache) => ValidPrimary(m)
    BY <2>2, <2>3 DEF ValidPrimary, Mixture
  <2>6. ValidPrimary(m) => Recovered(m) = disk.table
    BY <2>2, <2>3, <2>4, <1>1, PrimaryAnswers
  <2>7. ~ValidPrimary(m) => Recovered(m) = cache.bak["end"].crc /\ Recovered(cache) = cache.bak["end"].crc
    BY <2>2, <2>4, <2>5, <1>1, BackupAnswers
  <2> QED  BY <2>6, <2>7
<1>4. CASE m # cache /\ pc = "bakptes"
  <2>1. m = [cache EXCEPT !.bakptes[disk.alt] = Mixture(cache.bakptes[disk.alt], disk.table)]
    BY <1>4 DEF Begun
  <2>2. m.pri = cache.pri /\ m.pmbr = cache.pmbr /\ m.ptes = cache.ptes
    BY <2>1, <1>1 DEF Medium
  <2>3. cache.pri = GenerateHeader /\ cache.ptes = disk.table /\ cache.pmbr
    BY <1>4 DEF IInv, Staged
  <2>4. Probe(m) /\ ValidPrimary(m) /\ m.pri.crc = disk.table
    BY <2>2, <2>3, <1>1, GeneratedIsHeader DEF Probe, ValidPrimary
  <2> QED  BY <2>4, <1>1, PrimaryAnswers
<1>5. CASE m # cache /\ pc \notin {"ptes", "bakptes"}
  <2>1. pc \notin {"clobber_head", "clobber_tail"}
    BY DEF IInv, Covered
  <2> QED  BY <1>5, <2>1 DEF Begun
<1> QED  BY <1>2, <1>3, <1>4, <1>5

\* The one write that replaces the table of a protected commit is that of
\* the primary array.
LEMMA WriteMoves ==
  ASSUME IInv, guarded, Write
  PROVE  Recovered(cache') \in {Recovered(cache), disk.table}
<1>1. cache \in Medium /\ cache' \in Medium /\ disk \in Disk
  BY WriteType, WriteCases DEF IInv, TypeOK
<1>2. Probe(cache) /\ pc \notin {"clobber_head", "clobber_tail"}
  BY DEF IInv, Covered
<1>3. GenerateHeader # NULL /\ GenerateHeader.crc = disk.table
  BY <1>1, GeneratedIsHeader
<1>4. CASE pc = "pmbr"
  <2>1. cache' = [cache EXCEPT !.pmbr = TRUE]
    BY <1>4, WriteCases DEF IInv
  <2>2. cache' = cache
    BY <2>1, <1>1, <1>2 DEF Medium, Probe
  <2> QED  BY <2>2
<1>5. CASE pc = "pri"
  <2>1. cache' = [cache EXCEPT !.pri = GenerateHeader]
    BY <1>5, WriteCases DEF IInv
  <2>2. /\ cache'.pri = GenerateHeader /\ cache'.pmbr = cache.pmbr
        /\ cache'.bak = cache.bak /\ cache'.bakptes = cache.bakptes
    BY <2>1, <1>1 DEF Medium
  <2>3. Probe(cache') /\ ValidBackup(cache', "end") /\ cache'.bak["end"].crc = Recovered(cache)
    BY <2>2, <1>2, <1>3, <1>5 DEF IInv, Covered, Probe, ValidBackup
  <2> QED  BY <2>2, <2>3, <1>1, <1>3, BackupCovers
<1>6. CASE pc \in {"ptes", "bak", "bakptes"}
  <2>1. cache'.pri = cache.pri /\ cache'.pmbr = cache.pmbr /\ cache'.ptes = disk.table
    BY <1>6, <1>1, WriteCases DEF Medium, IInv, Staged
  <2>2. cache.pri = GenerateHeader /\ cache.pmbr
    BY <1>6 DEF IInv, Staged
  <2>3. Probe(cache') /\ ValidPrimary(cache') /\ cache'.pri.crc = disk.table
    BY <2>1, <2>2, <1>3 DEF Probe, ValidPrimary
  <2> QED  BY <2>3, <1>1, PrimaryAnswers
<1> QED  BY <1>2, <1>4, <1>5, <1>6, WriteCases DEF IInv

\* Every step is a step of the abstract table or leaves it alone.
LEMMA RefinementStep == IInv /\ IInv' /\ [Next]_vars => [Atomic!Next]_(Atomic!vars)
<1> SUFFICES ASSUME IInv, IInv', [Next]_vars PROVE [Atomic!Next]_(Atomic!vars)
  OBVIOUS
<1> DEFINE new == IF pc = "idle" THEN NULL ELSE disk.table
           safe == pc # "idle" /\ guarded
<1>1. Recovered(cache) \in Tables \cup {NULL} /\ Recovered(cache') \in Tables \cup {NULL}
  BY RecoveredType DEF IInv, TypeOK
<1>2. guarded \in BOOLEAN /\ guarded' \in BOOLEAN
  BY DEF IInv, TypeOK
<1>3. pc # "idle" => new \in Tables /\ new # NULL
  BY GptAssumption DEF IInv, TypeOK, Disk
<1>4. pc' # "idle" => new' \in Tables
  BY GptAssumption DEF IInv, TypeOK, Disk
<1>5. /\ pc = "idle" => new = NULL /\ safe = FALSE
      /\ pc' = "idle" => new' = NULL /\ safe' = FALSE
      /\ pc # "idle" => new = disk.table /\ safe = guarded
      /\ pc' # "idle" => new' = disk'.table /\ safe' = guarded'
  BY <1>2
<1> HIDE DEF new, safe
<1>6. ASSUME pc = "idle", pc' = "idle", cache' = cache, interrupts' = interrupts, outages' = outages
      PROVE  UNCHANGED Atomic!vars
  <2>1. new' = new /\ safe' = safe
    BY <1>5, <1>6
  <2> QED  BY <1>6, <2>1 DEF Atomic!vars, new, safe
<1>7. ASSUME pc = "idle", pc' # "idle", guarded' => cache' = cache,
             interrupts' = interrupts, outages' = outages
      PROVE  Atomic!Start
  <2>1. new = NULL /\ new' \in Tables /\ safe' \in BOOLEAN /\ (safe' => cache' = cache)
    BY <1>2, <1>4, <1>5, <1>7
  <2> QED  BY <1>1, <1>7, <2>1 DEF Atomic!Start, Atomic!Contents, new, safe
<1>8. ASSUME NEW fix \in Answers, Open(fix) PROVE [Atomic!Next]_(Atomic!vars)
  <2>1. /\ pc = "idle" /\ guarded' = FALSE /\ interrupts' = interrupts /\ outages' = outages
        /\ pc' = "idle" => cache' = cache
    BY <1>8 DEF Open
  <2> QED  BY <2>1, <1>6, <1>7 DEF Atomic!Next
<1>9. ASSUME NEW t \in Tables, Edit(t) PROVE UNCHANGED Atomic!vars
  BY <1>6, <1>9 DEF Edit
<1>10. CASE Mklabel \/ Duplicate \/ Destroy
  BY <1>6, <1>10 DEF Mklabel, Duplicate, Destroy
<1>11. CASE Commit
  <2>1. pc = "idle" /\ pc' # "idle" /\ cache' = cache /\ interrupts' = interrupts /\ outages' = outages
    BY <1>11 DEF Commit
  <2> QED  BY <2>1, <1>7 DEF Atomic!Next
<1>12. CASE Write
  <2>1. pc # "idle" /\ pc' # "idle" /\ disk'.table = disk.table
    BY <1>12, WriteCases DEF IInv
  <2>2. guarded' = guarded /\ interrupts' = interrupts /\ outages' = outages
    BY <1>12 DEF Write
  <2>3. new # NULL /\ new' = new /\ safe' = safe
    BY <2>1, <2>2, <1>3, <1>5
  <2>4. Recovered(cache') \in IF safe THEN {Recovered(cache), new} ELSE Tables \cup {NULL}
    BY <2>1, <1>1, <1>5, <1>12, WriteMoves
  <2>5. Atomic!Write
    BY <2>2, <2>3, <2>4 DEF Atomic!Write, Atomic!Moves, Atomic!Contents, new, safe
  <2> QED  BY <2>5 DEF Atomic!Next
<1>13. CASE Sync
  <2>1. pc = "sync" /\ pc' = "idle" /\ cache' = cache /\ interrupts' = interrupts /\ outages' = outages
    BY <1>13 DEF Sync
  <2>2. new # NULL /\ new = Recovered(cache) /\ new' = NULL /\ safe' = FALSE
    BY <2>1, <1>3, <1>5, PrimaryWritten
  <2>3. Atomic!Succeed
    BY <2>1, <2>2 DEF Atomic!Succeed, new, safe
  <2> QED  BY <2>3 DEF Atomic!Next
<1>14. CASE WriteError \/ Kill
  <2>1. pc' = "idle" /\ cache' \in Begun(cache) /\ interrupts' = interrupts + 1 /\ outages' = outages
    BY <1>14 DEF WriteError, Kill
  <2>2. new' = NULL /\ safe' = FALSE
    BY <2>1, <1>5
  <2>3. CASE pc # "idle"
    <3>1. new # NULL
      BY <2>3, <1>3
    <3>2. Recovered(cache') \in IF safe THEN {Recovered(cache), new} ELSE Tables \cup {NULL}
      BY <2>1, <2>3, <1>1, <1>5, CutOff
    <3>3. Atomic!Fail
      BY <2>1, <2>2, <3>1, <3>2 DEF Atomic!Fail, Atomic!Moves, Atomic!Contents, new, safe
    <3> QED  BY <3>3 DEF Atomic!Next
  <2>4. CASE pc = "idle"
    <3>1. cache' = cache
      BY <2>1, <2>4 DEF Begun
    <3>2. new = NULL /\ safe = FALSE
      BY <2>4, <1>5
    <3>3. Atomic!Die
      BY <2>1, <2>2, <3>1, <3>2 DEF Atomic!Die, new, safe
    <3> QED  BY <3>3 DEF Atomic!Next
  <2> QED  BY <2>3, <2>4
<1>15. CASE PowerFailure
  <2>1. pc' = "idle" /\ outages' = outages + 1 /\ interrupts' = interrupts
    BY <1>15 DEF PowerFailure
  <2>2. new' = NULL /\ safe' = FALSE
    BY <2>1, <1>5
  <2>3. Atomic!Outage
    BY <1>1, <2>1, <2>2 DEF Atomic!Outage, Atomic!Contents, new, safe
  <2> QED  BY <2>3 DEF Atomic!Next
<1>16. CASE UNCHANGED vars
  BY <1>16 DEF vars, Atomic!vars
<1> QED  BY <1>8, <1>9, <1>10, <1>11, <1>12, <1>13, <1>14, <1>15, <1>16 DEF Next

\* A sound medium is read as its table.
LEMMA InitialTable ==
  ASSUME Init
  PROVE  Atomic!Init
<1>1. PICK t \in Tables : \E place \in Places : \E usable \in Usable :
        cache = SoundMedium(t, place, usable)
  BY DEF Init, Places
<1>2. PICK place \in Places : \E usable \in Usable : cache = SoundMedium(t, place, usable)
  BY <1>1
<1>3. PICK usable \in Usable : cache = SoundMedium(t, place, usable)
  BY <1>2
<1> DEFINE hdr == [alt |-> place, usable |-> usable, crc |-> t]
<1>4. hdr \in Header
  BY DEF Header
<1>5. hdr # NULL /\ hdr.crc = t
  BY <1>4, GptAssumption
<1>6. cache.pmbr /\ cache.pri = hdr /\ cache.ptes = t
  BY <1>3 DEF SoundMedium
<1>7. Probe(cache) /\ ValidPrimary(cache) /\ cache.pri.crc = t
  BY <1>5, <1>6 DEF Probe, ValidPrimary
<1>8. cache \in Medium
  BY InitType DEF TypeOK
<1>9. Recovered(cache) = t
  BY <1>7, <1>8, PrimaryAnswers
<1> QED  BY <1>9 DEF Init, Atomic!Init

\* gpt_write implements the table that is replaced in one step: the
\* refinement holds for every set of tables and any number of failures.
THEOREM Atomicity == Spec => CommitIsAtomic
<1>1. Init => Atomic!Init
  BY InitialTable
<1>2. IInv /\ IInv' /\ [Next]_vars => [Atomic!Next]_(Atomic!vars)
  BY RefinementStep
<1> QED  BY <1>1, <1>2, Invariance, PTL DEF Spec, CommitIsAtomic, Atomic!Spec
=============================================================================
