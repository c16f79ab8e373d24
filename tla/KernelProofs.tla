---------------------------- MODULE KernelProofs ----------------------------
(***************************************************************************)
(* Proofs about KernelSync, for any tables, any numbers of partitions and  *)
(* tries, and whatever is mounted meanwhile.                               *)
(***************************************************************************)
EXTENDS KernelSync, TLAPS

Region == [start : Int, end : Int]
Entry  == [start : Sectors, end : Sectors, ext : BOOLEAN]

TypeOK ==
  /\ table \in [Nums -> Entry \cup {NULL}]
  /\ kernel \in [Nums -> Region \cup {NULL}]
  /\ pc \in {"remove", "add", "report", "done"}
  /\ i \in Nums
  /\ pc = "add" => i <= Lpn2
  /\ ok \in [Nums -> BOOLEAN]
  /\ errnum \in [Nums -> {"none", "EBUSY"}]
  /\ ret \in [value : BOOLEAN, asked : BOOLEAN]

\* What the first pass leaves of a number: nothing in the kernel, a partition
\* the second pass can go on from, or an error.
Cleared(n) ==
  IF ok[n] THEN kernel[n] = NULL \/ Kept(n) ELSE errnum[n] = "EBUSY"

\* The kernel has the partition of the table, or has none as the table.
Agrees(n) ==
  IF table[n] = NULL THEN kernel[n] = NULL
  ELSE kernel[n] # NULL /\ kernel[n].start = table[n].start
       /\ (kernel[n] = KernelGeom(table, n) \/ SameLength(n))

\* What the second pass leaves of it, unless the user was asked.
Settled(n) == Agrees(n) \/ (~ok[n] /\ errnum[n] = "EBUSY")

Passes ==
  /\ pc = "remove" => \A n \in Nums : n < i => Cleared(n)
  /\ pc = "add" => \A n \in Nums : i <= n => Cleared(n)
  /\ pc = "add" /\ ~ret.asked => \A n \in Nums : n < i => Settled(n)
  /\ pc = "report" /\ ~ret.asked => \A n \in 1 .. Lpn2 : Settled(n)
  /\ pc = "done" /\ ~ret.asked => \A n \in 1 .. Lpn2 : Agrees(n)

IInv == TypeOK /\ Passes

\* The numbers the two loops of _disk_sync_part_table run over.
LEMMA Numbers ==
  /\ Lpn \in Nat /\ Lpn2 \in Nat /\ 1 <= Lpn2 /\ Lpn2 <= Lpn
  /\ 1 .. Lpn2 \subseteq Nums /\ Nums \subseteq Nat
  BY SyncAssumption DEF Lpn, Lpn2, Nums, PedMax, PedMin

\* What is asked of the kernel for a partition is a region with its start.
LEMMA GeomType ==
  ASSUME NEW t \in [Nums -> Entry \cup {NULL}], NEW n \in Nums, t[n] # NULL
  PROVE  KernelGeom(t, n) \in Region /\ KernelGeom(t, n) # NULL /\ KernelGeom(t, n).start = t[n].start
<1>1. t[n] \in Entry
  OBVIOUS
<1>2. t[n].start \in Int /\ t[n].end \in Int
  BY <1>1, DevLengthAssumption DEF Entry, Sectors
<1> QED BY <1>2, SyncAssumption DEF KernelGeom, Region

\* What is said of a number depends on what the call and the kernel have of it.
LEMMA Frame ==
  ASSUME NEW n \in Nums, table' = table, kernel'[n] = kernel[n]
  PROVE  /\ SameStart(n)' = SameStart(n) /\ SameLength(n)' = SameLength(n)
         /\ Kept(n)' = Kept(n) /\ Agrees(n)' = Agrees(n)
         /\ ok'[n] = ok[n] /\ errnum'[n] = errnum[n] =>
              Cleared(n)' = Cleared(n) /\ Settled(n)' = Settled(n)
<1>1. SameStart(n)' = SameStart(n) /\ SameLength(n)' = SameLength(n)
  BY DEF SameStart, SameLength, Length
<1>2. Kept(n)' = Kept(n)
  BY <1>1 DEF Kept
<1>3. KernelGeom(table, n)' = KernelGeom(table, n)
  BY DEF KernelGeom
<1>4. Agrees(n)' = Agrees(n)
  BY <1>1, <1>3 DEF Agrees
<1> QED BY <1>1, <1>2, <1>4 DEF Cleared, Settled

\* The first pass, when it is done with number i.
LEMMA FirstPass ==
  ASSUME IInv, pc = "remove", Advance(Lpn, "add"), TypeOK', NEW k \in Nums, k = i, Cleared(k)',
         UNCHANGED <<table, ret>>,
         \A n \in Nums \ {k} : kernel'[n] = kernel[n] /\ ok'[n] = ok[n] /\ errnum'[n] = errnum[n]
  PROVE  IInv'
<1>1. \A n \in Nums : n <= i => Cleared(n)'
  <2> SUFFICES ASSUME NEW n \in Nums, n < i PROVE Cleared(n)'
    BY Numbers DEF IInv, TypeOK
  <2> QED BY Frame, Numbers DEF IInv, TypeOK, Passes
<1>2. CASE i < Lpn
  <2>1. pc' = "remove" /\ i' = i + 1
    BY <1>2 DEF Advance
  <2>2. \A n \in Nums : n < i' => Cleared(n)'
    BY <1>1, <2>1, Numbers DEF IInv, TypeOK
  <2> QED BY <2>1, <2>2 DEF IInv, Passes
<1>3. CASE ~(i < Lpn)
  <2>1. \A n \in Nums : n <= i
    BY <1>3, Numbers DEF IInv, TypeOK, Nums
  <2>2. pc' = "add" /\ i' = 1
    BY <1>3 DEF Advance
  <2>3. \A n \in Nums : Cleared(n)' /\ ~(n < i')
    BY <1>1, <2>1, <2>2, Numbers DEF Nums
  <2> QED BY <2>2, <2>3 DEF IInv, Passes
<1> QED BY <1>2, <1>3

\* The second pass, when it is done with number i.
LEMMA SecondPass ==
  ASSUME IInv, pc = "add", Advance(Lpn2, "report"), TypeOK', NEW k \in Nums, k = i,
         ~ret'.asked => ~ret.asked /\ Settled(k)', table' = table,
         \A n \in Nums \ {k} : kernel'[n] = kernel[n] /\ ok'[n] = ok[n] /\ errnum'[n] = errnum[n]
  PROVE  IInv'
<1>1. ~ret'.asked => \A n \in Nums : n <= i => Settled(n)'
  <2> SUFFICES ASSUME ~ret'.asked, NEW n \in Nums, n < i PROVE Settled(n)'
    BY Numbers DEF IInv, TypeOK
  <2> QED BY Frame, Numbers DEF IInv, TypeOK, Passes
<1>2. \A n \in Nums : i < n => Cleared(n)'
  BY Frame, Numbers DEF IInv, TypeOK, Passes
<1>3. CASE i < Lpn2
  BY <1>1, <1>2, <1>3, Numbers DEF IInv, TypeOK, Passes, Advance
<1>4. CASE ~(i < Lpn2)
  BY <1>1, <1>4, Numbers DEF IInv, TypeOK, Passes, Advance
<1> QED BY <1>3, <1>4

\* The counter stays a number, and one of the second pass in it.
LEMMA AdvanceType ==
  ASSUME TypeOK, \/ pc = "remove" /\ Advance(Lpn, "add")
                 \/ pc = "add" /\ Advance(Lpn2, "report")
  PROVE  /\ pc' \in {"remove", "add", "report"} /\ i' \in Nums
         /\ pc' = "add" => i' <= Lpn2
  BY Numbers DEF TypeOK, Advance, Nums

\* The first pass keeps a partition that starts where the table has one.
LEMMA KeepStep == IInv /\ Keep => IInv'
<1> SUFFICES ASSUME IInv, Keep PROVE IInv'
  OBVIOUS
<1>1. PICK k \in Nums : k = i
  BY DEF IInv, TypeOK
<1>2. TypeOK'
  BY AdvanceType DEF IInv, TypeOK, Keep
<1>3. Cleared(k)'
  BY <1>1, Frame DEF IInv, TypeOK, Keep, Cleared
<1> QED BY <1>1, <1>2, <1>3, FirstPass DEF IInv, TypeOK, Keep

\* The first pass removes another one.
LEMMA RemoveStep == IInv /\ Remove => IInv'
<1> SUFFICES ASSUME IInv, Remove PROVE IInv'
  OBVIOUS
<1>1. PICK k \in Nums : k = i
  BY DEF IInv, TypeOK
<1>2. TypeOK'
  BY AdvanceType DEF IInv, TypeOK, Remove
<1>3. Cleared(k)'
  BY <1>1 DEF IInv, TypeOK, Remove, Cleared
<1> QED BY <1>1, <1>2, <1>3, FirstPass DEF IInv, TypeOK, Remove

\* The first pass meets one that is in use, and tries again or gives up.
LEMMA RemoveBusyStep == IInv /\ RemoveBusy => IInv'
<1> SUFFICES ASSUME IInv, RemoveBusy PROVE IInv'
  OBVIOUS
<1>1. CASE tries + 1 < MaxTries
  <2>1. UNCHANGED <<table, kernel, pc, i, ok, errnum, ret>>
    BY <1>1 DEF RemoveBusy
  <2>2. TypeOK'
    BY <2>1 DEF IInv, TypeOK
  <2>3. Passes'
    BY <2>1, Frame, Numbers DEF IInv, Passes
  <2> QED BY <2>2, <2>3 DEF IInv
<1>2. CASE ~(tries + 1 < MaxTries)
  <2>1. PICK k \in Nums : k = i
    BY DEF IInv, TypeOK
  <2>2. /\ pc = "remove" /\ Advance(Lpn, "add") /\ UNCHANGED <<table, kernel, ret>>
        /\ ok' = [ok EXCEPT ![i] = FALSE] /\ errnum' = [errnum EXCEPT ![i] = "EBUSY"]
    BY <1>2 DEF RemoveBusy
  <2>3. TypeOK'
    BY <2>2, AdvanceType DEF IInv, TypeOK
  <2>4. Cleared(k)'
    BY <2>1, <2>2 DEF IInv, TypeOK, Cleared
  <2> QED BY <2>1, <2>2, <2>3, <2>4, FirstPass DEF IInv, TypeOK
<1> QED BY <1>1, <1>2

\* The second pass has nothing to do for a number.
LEMMA SkipStep == IInv /\ Skip => IInv'
<1> SUFFICES ASSUME IInv, Skip PROVE IInv'
  OBVIOUS
<1>1. PICK k \in Nums : k = i
  BY DEF IInv, TypeOK
<1>2. TypeOK'
  BY AdvanceType DEF IInv, TypeOK, Skip
<1>3. Settled(k)'
  <2>1. Cleared(k)
    BY <1>1, Numbers DEF IInv, Passes, Skip
  <2>2. CASE table[k] = NULL
    BY <1>1, <2>1, <2>2 DEF Skip, Cleared, Settled, Agrees, Kept, SameStart
  <2>3. CASE table[k] # NULL
    <3>1. Agrees(k)
      BY <1>1, <2>3 DEF Skip, Agrees, SameStart
    <3> QED BY <3>1, Frame DEF Skip, Settled
  <2> QED BY <2>2, <2>3
<1> QED BY <1>1, <1>2, <1>3, SecondPass DEF IInv, TypeOK, Skip

\* The second pass resizes a partition that was kept.
LEMMA ResizeStep == IInv /\ Resize => IInv'
<1> SUFFICES ASSUME IInv, Resize PROVE IInv'
  OBVIOUS
<1>1. PICK k \in Nums : k = i
  BY DEF IInv, TypeOK
<1>2. table[k] # NULL
  BY <1>1 DEF Resize, ToResize, SameStart
<1>3. KernelGeom(table, k) \in Region /\ KernelGeom(table, k) # NULL /\ KernelGeom(table, k).start = table[k].start
  BY <1>2, GeomType DEF IInv, TypeOK
<1>4. TypeOK'
  BY <1>1, <1>3, AdvanceType DEF IInv, TypeOK, Resize, ToResize
<1>5. kernel'[k] = KernelGeom(table, k) /\ table' = table
  BY <1>1 DEF IInv, TypeOK, Resize
<1>6. Settled(k)'
  <2>1. KernelGeom(table, k)' = KernelGeom(table, k)
    BY <1>5 DEF KernelGeom
  <2> QED BY <1>2, <1>3, <1>5, <2>1 DEF Settled, Agrees
<1> QED BY <1>1, <1>4, <1>6, SecondPass DEF IInv, TypeOK, Resize, ToResize

\* The user ignores a resize that failed.
LEMMA ResizeIgnoredStep == IInv /\ ResizeIgnored => IInv'
<1> SUFFICES ASSUME IInv, ResizeIgnored PROVE IInv'
  OBVIOUS
<1>1. PICK k \in Nums : k = i
  BY DEF IInv, TypeOK
<1>2. TypeOK' /\ ret'.asked
  BY AdvanceType DEF IInv, TypeOK, ResizeIgnored, ToResize
<1> QED BY <1>1, <1>2, SecondPass DEF IInv, TypeOK, ResizeIgnored, ToResize

\* The second pass adds a partition.
LEMMA AddStep == IInv /\ Add => IInv'
<1> SUFFICES ASSUME IInv, Add PROVE IInv'
  OBVIOUS
<1>1. PICK k \in Nums : k = i
  BY DEF IInv, TypeOK
<1>2. /\ pc = "add" /\ table[k] # NULL /\ table' = table /\ Advance(Lpn2, "report")
      /\ ret' \in [value : BOOLEAN, asked : BOOLEAN] /\ (~ret'.asked => ~ret.asked)
  BY <1>1 DEF IInv, TypeOK, Add
<1>3. CASE CanAdd(k)
  <2>1. kernel' = [kernel EXCEPT ![k] = KernelGeom(table, k)] /\ UNCHANGED <<ok, errnum>>
    BY <1>1, <1>3 DEF Add, AddPartition
  <2>2. KernelGeom(table, k) \in Region /\ KernelGeom(table, k) # NULL /\ KernelGeom(table, k).start = table[k].start
    BY <1>2, GeomType DEF IInv, TypeOK
  <2>3. TypeOK'
    BY <1>2, <2>1, <2>2, AdvanceType DEF IInv, TypeOK
  <2>4. Settled(k)'
    <3>1. KernelGeom(table, k)' = KernelGeom(table, k)
      BY <1>2 DEF KernelGeom
    <3>2. kernel'[k] = KernelGeom(table, k)
      BY <2>1 DEF IInv, TypeOK
    <3> QED BY <1>2, <2>2, <3>1, <3>2 DEF Settled, Agrees
  <2> QED BY <1>1, <1>2, <2>1, <2>3, <2>4, SecondPass DEF IInv, TypeOK
<1>4. CASE ~CanAdd(k)
  <2>1. /\ UNCHANGED kernel
        /\ ok' = [ok EXCEPT ![k] = FALSE] /\ errnum' = [errnum EXCEPT ![k] = "EBUSY"]
    BY <1>1, <1>4 DEF Add, AddPartition
  <2>2. TypeOK'
    BY <1>2, <2>1, AdvanceType DEF IInv, TypeOK
  <2>3. Settled(k)'
    BY <2>1 DEF IInv, TypeOK, Settled
  <2> QED BY <1>1, <1>2, <2>1, <2>2, <2>3, SecondPass DEF IInv, TypeOK
<1> QED BY <1>3, <1>4

\* The user is told of the numbers that are busy, or the call ends in silence.
LEMMA ReportStep ==
  ASSUME IInv, NEW ignore \in BOOLEAN, Report(ignore)
  PROVE  IInv'
<1>1. TypeOK'
  BY DEF IInv, TypeOK, Report
<1>2. ASSUME ~ret'.asked, NEW n \in 1 .. Lpn2 PROVE Agrees(n)'
  <2>1. n \in Nums /\ ~ret.asked /\ n \notin Bad
    BY <1>2, Numbers DEF IInv, TypeOK, Report
  <2>2. ok[n] \/ errnum[n] = "ENXIO"
    BY <1>2, <2>1 DEF Bad
  <2>3. Agrees(n)
    BY <2>1, <2>2 DEF IInv, TypeOK, Passes, Report, Settled
  <2> QED BY <2>1, <2>3, Frame DEF Report
<1> QED BY <1>1, <1>2 DEF IInv, Passes, Report

\* Users do not touch the kernel's table.
LEMMA UserStep ==
  ASSUME IInv, UNCHANGED <<table, kernel, pc, i, ok, errnum, ret>>
  PROVE  IInv'
<1>1. TypeOK'
  BY DEF IInv, TypeOK
<1>2. Passes'
  BY Frame, Numbers DEF IInv, Passes
<1> QED BY <1>1, <1>2 DEF IInv

\* Every step preserves the invariant.
LEMMA NextStep == IInv /\ [Next]_vars => IInv'
<1> SUFFICES ASSUME IInv, [Next]_vars PROVE IInv'
  OBVIOUS
<1>1. CASE Sync
  BY <1>1, KeepStep, RemoveStep, RemoveBusyStep, SkipStep, ResizeStep, ResizeIgnoredStep, AddStep, ReportStep
     DEF Sync
<1>2. ASSUME NEW n \in Nums, Mount(n) \/ Unmount(n) PROVE IInv'
  BY <1>2, UserStep DEF Mount, Unmount
<1>3. CASE UNCHANGED vars
  BY <1>3, UserStep DEF vars
<1> QED BY <1>1, <1>2, <1>3 DEF Next

\* Before the first pass nothing is claimed.
LEMMA InitInv == Init => IInv
<1> SUFFICES ASSUME Init PROVE IInv
  OBVIOUS
<1>1. \A t \in Tables : t \in [Nums -> Entry \cup {NULL}]
  BY DEF Tables, Entry
<1>2. PICK t \in Tables : kernel = KernelOf(t)
  BY DEF Init
<1>3. kernel \in [Nums -> Region \cup {NULL}]
  BY <1>1, <1>2, GeomType DEF KernelOf
<1>4. TypeOK
  BY <1>1, <1>3, Numbers DEF Init, TypeOK
<1>5. Passes
  BY Numbers DEF Init, Passes, Nums
<1> QED BY <1>4, <1>5 DEF IInv

\* No pass leaves its invariant, whatever is mounted or unmounted meanwhile.
THEOREM Invariance == Spec => []IInv
  BY InitInv, NextStep, PTL DEF Spec

(***************************************************************************)
(* _disk_sync_part_table that returns without having asked has made the    *)
(* kernel's partitions those of the table, for tables and limits of any    *)
(* size.                                                                   *)
(***************************************************************************)
THEOREM Agreement == Spec => []SilenceMeansAgreement
<1>1. IInv => SilenceMeansAgreement
  BY Numbers DEF IInv, Passes, Agrees, SilenceMeansAgreement
<1> QED BY <1>1, Invariance, PTL

(***************************************************************************)
(* Neither pass removes or changes a partition that the kernel has as the  *)
(* table has it (the first loop of _disk_sync_part_table).                 *)
(***************************************************************************)
THEOREM Stability == Spec => UnchangedStay
<1>1. ASSUME IInv, [Next]_vars, NEW n \in Nums, SameStart(n), SameLength(n)
      PROVE  kernel'[n] = kernel[n]
  <2>1. Kept(n)
    BY <1>1 DEF Kept
  <2>2. CASE Sync
    BY <1>1, <2>1, <2>2
       DEF IInv, TypeOK, Sync, Keep, Remove, RemoveBusy, Skip, Resize, ToResize, ResizeIgnored, Add, AddPartition, Report
  <2>3. CASE UNCHANGED kernel
    BY <2>3
  <2> QED BY <1>1, <2>2, <2>3 DEF Next, Mount, Unmount, vars
<1>2. IInv /\ [Next]_vars =>
        [\A n \in Nums : SameStart(n) /\ SameLength(n) /\ ~table[n].ext => kernel'[n] = kernel[n]]_vars
  BY <1>1
<1> QED BY <1>2, Invariance, PTL DEF Spec, UnchangedStay
=============================================================================
