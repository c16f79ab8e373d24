----------------------------- MODULE KernelSync -----------------------------
(***************************************************************************)
(* _disk_sync_part_table (libparted/arch/linux.c): telling the kernel of a *)
(* new partition table, one BLKPG call after the other, while partitions   *)
(* are being mounted and unmounted.  The kernel's side of BLKPG and of     *)
(* sysfs is external, modelled from the answers the code expects.          *)
(***************************************************************************)
EXTENDS Geometry, FiniteSets

CONSTANTS
  LabelMax,   \* partitions the label supports
  PartRange,  \* partitions the kernel supports on this device
  HasResize,  \* BLKPG_RESIZE_PARTITION is known
  MaxTries    \* attempts to remove a busy partition (101 in the code)

ASSUME SyncAssumption ==
  /\ LabelMax \in Nat \ {0} /\ PartRange \in Nat \ {0} /\ HasResize \in BOOLEAN /\ MaxTries \in Nat \ {0}
  /\ NULL \notin [start : Int, end : Int]

VARIABLES
  table,    \* the PedDisk: number -> partition or NULL
  kernel,   \* the kernel's partitions: number -> geometry or NULL
  busy,     \* numbers of the kernel's partitions that are in use
  pc,       \* "remove", "add", "done"
  i,        \* the loop counter of the pass
  tries,    \* attempts at removing i
  ok,       \* ok[n]
  errnum,   \* errnums[n]
  ret       \* what the call returned, and whether the user was asked

vars == <<table, kernel, busy, pc, i, tries, ok, errnum, ret>>

Lpn  == PedMax(LabelMax, PartRange)   \* for the remove pass
Lpn2 == PedMin(LabelMax, PartRange)   \* for the add pass
Nums == 1 .. Lpn

\* The length _blkpg_add_partition and _blkpg_resize_partition give an
\* extended partition: two sectors, or one when a logical takes the second.
KernelGeom(t, n) ==
  LET p      == t[n]
      second == \E m \in Nums \ {n} : t[m] # NULL /\ t[m].start = p.start + 1
  IN  [start |-> p.start,
       end |-> IF ~p.ext THEN p.end ELSE IF second THEN p.start ELSE p.start + 1]

\* Tables in which partitions are disjoint or lie inside the extended one,
\* which has a lower number.
Tables ==
  LET entry == {NULL} \cup [start : Sectors, end : Sectors, ext : BOOLEAN]
      inside(p, q) == p.ext /\ ~q.ext /\ q.start > p.start /\ q.end <= p.end
  IN  {t \in [Nums -> entry] :
         /\ \A n \in Nums : t[n] # NULL => n <= LabelMax /\ t[n].start <= t[n].end
         /\ Cardinality({n \in Nums : t[n] # NULL /\ t[n].ext}) <= 1
         /\ \A n \in Nums : t[n] # NULL /\ t[n].ext => t[n].end > t[n].start
         /\ \A m, n \in Nums : m # n /\ t[m] # NULL /\ t[n] # NULL =>
              ~TestOverlap(t[m], t[n]) \/ (IF m < n THEN inside(t[m], t[n]) ELSE inside(t[n], t[m]))}

\* What the kernel holds after a table has been synced.
KernelOf(t) == [n \in Nums |-> IF t[n] = NULL \/ n > PartRange THEN NULL ELSE KernelGeom(t, n)]

(***************************************************************************)
(* The kernel.                                                             *)
(***************************************************************************)
Clashes(g, n) == \E m \in Nums \ {n} : kernel[m] # NULL /\ TestOverlap(kernel[m], g)

CanAdd(n)    == kernel[n] = NULL /\ n <= PartRange /\ ~Clashes(KernelGeom(table, n), n)
CanResize(n) == ~Clashes(KernelGeom(table, n), n)

Mount(n) == kernel[n] # NULL /\ busy' = busy \cup {n} /\ UNCHANGED <<table, kernel, pc, i, tries, ok, errnum, ret>>

Unmount(n) == n \in busy /\ busy' = busy \ {n} /\ UNCHANGED <<table, kernel, pc, i, tries, ok, errnum, ret>>

(***************************************************************************)
(* Pass 1.                                                                 *)
(***************************************************************************)
SameStart(n) == table[n] # NULL /\ kernel[n] # NULL /\ kernel[n].start = table[n].start
SameLength(n) == Length(kernel[n]) = Length(table[n])

\* Mutant: every partition is removed and added again.
KeptNever(n) == FALSE

\* Unchanged, or will be resized.
Kept(n) ==
  /\ SameStart(n)
  /\ SameLength(n) \/ (HasResize /\ n < Lpn2)

\* On to the next number or, after the last, to the next pass.
Advance(last, next) ==
  /\ tries' = 0
  /\ IF i < last THEN i' = i + 1 /\ pc' = pc ELSE i' = 1 /\ pc' = next

Keep ==
  /\ pc = "remove" /\ Kept(i)
  /\ ok' = [ok EXCEPT ![i] = TRUE]
  /\ Advance(Lpn, "add")
  /\ UNCHANGED <<table, kernel, busy, errnum, ret>>

\* remove_partition succeeds, or says that there is none (ENXIO).
Remove ==
  /\ pc = "remove" /\ ~Kept(i) /\ i \notin busy
  /\ kernel' = [kernel EXCEPT ![i] = NULL]
  /\ ok' = [ok EXCEPT ![i] = TRUE]
  /\ Advance(Lpn, "add")
  /\ UNCHANGED <<table, busy, errnum, ret>>

\* Mutant: a partition that stays busy is waited for.
RemoveBusyForever ==
  /\ pc = "remove" /\ ~Kept(i) /\ i \in busy
  /\ UNCHANGED vars

RemoveBusy ==
  /\ pc = "remove" /\ ~Kept(i) /\ i \in busy
  /\ IF tries + 1 < MaxTries
     THEN tries' = tries + 1 /\ UNCHANGED <<pc, i, ok, errnum>>
     ELSE /\ ok' = [ok EXCEPT ![i] = FALSE]
          /\ errnum' = [errnum EXCEPT ![i] = "EBUSY"]
          /\ Advance(Lpn, "add")
  /\ UNCHANGED <<table, kernel, busy, ret>>

(***************************************************************************)
(* Pass 2.                                                                 *)
(***************************************************************************)
\* No partition of this number, or one the kernel knows already.
Skip ==
  /\ pc = "add" /\ (table[i] = NULL \/ (SameStart(i) /\ SameLength(i)))
  /\ ok' = IF table[i] = NULL THEN ok ELSE [ok EXCEPT ![i] = TRUE]
  /\ Advance(Lpn2, "report")
  /\ UNCHANGED <<table, kernel, busy, errnum, ret>>

ToResize == pc = "add" /\ SameStart(i) /\ ~SameLength(i) /\ HasResize

Resize ==
  /\ ToResize /\ CanResize(i)
  /\ kernel' = [kernel EXCEPT ![i] = KernelGeom(table, i)]
  /\ ok' = [ok EXCEPT ![i] = TRUE]
  /\ Advance(Lpn2, "report")
  /\ UNCHANGED <<table, busy, errnum, ret>>

\* The user is asked; Ignore counts as success.
ResizeIgnored ==
  /\ ToResize /\ ~CanResize(i)
  /\ ok' = [ok EXCEPT ![i] = TRUE]
  /\ ret' = [ret EXCEPT !.asked = TRUE]
  /\ Advance(Lpn2, "report")
  /\ UNCHANGED <<table, kernel, busy, errnum>>

\* Mutant: the failure of BLKPG_ADD_PARTITION is not recorded.
AddUnchecked(n) ==
  /\ kernel' = IF CanAdd(n) THEN [kernel EXCEPT ![n] = KernelGeom(table, n)] ELSE kernel
  /\ UNCHANGED <<ok, errnum>>

\* add_partition; success leaves ok as the first pass set it.
AddPartition(n) ==
  IF CanAdd(n)
  THEN kernel' = [kernel EXCEPT ![n] = KernelGeom(table, n)] /\ UNCHANGED <<ok, errnum>>
  ELSE /\ ok' = [ok EXCEPT ![n] = FALSE]
       /\ errnum' = [errnum EXCEPT ![n] = "EBUSY"]
       /\ UNCHANGED kernel

\* A failed resize the user cancelled goes on to add.
Add ==
  /\ pc = "add" /\ table[i] # NULL
  /\ ~(SameStart(i) /\ SameLength(i))
  /\ ToResize => ~CanResize(i)
  /\ AddPartition(i)
  /\ ret' = [ret EXCEPT !.asked = @ \/ ToResize]
  /\ Advance(Lpn2, "report")
  /\ UNCHANGED <<table, busy>>

Bad == {n \in 1 .. Lpn2 : ~ok[n] /\ errnum[n] # "ENXIO"}

Report(ignore) ==
  /\ pc = "report"
  /\ ret' = [value |-> Bad = {} \/ ignore, asked |-> ret.asked \/ Bad # {}]
  /\ pc' = "done"
  /\ UNCHANGED <<table, kernel, busy, i, tries, ok, errnum>>

Init ==
  /\ table \in Tables
  /\ \E t \in Tables : kernel = KernelOf(t)
  /\ busy \in SUBSET {n \in Nums : kernel[n] # NULL}
  /\ pc = "remove" /\ i = 1 /\ tries = 0
  /\ ok = [n \in Nums |-> FALSE] /\ errnum = [n \in Nums |-> "none"]
  /\ ret = [value |-> FALSE, asked |-> FALSE]

Sync ==
  \/ Keep \/ Remove \/ RemoveBusy
  \/ Skip \/ Resize \/ ResizeIgnored \/ Add
  \/ \E ignore \in BOOLEAN : Report(ignore)

Next == Sync \/ \E n \in Nums : Mount(n) \/ Unmount(n)

\* The process calling parted is scheduled; users mount when they like.
Spec == Init /\ [][Next]_vars /\ WF_vars(Sync)
-----------------------------------------------------------------------------
(***************************************************************************)
(* The warning is the only sign that the kernel works with other           *)
(* partitions than the disk has: a commit that asks nothing has made the   *)
(* kernel's partitions those of the table, up to the number both support.  *)
(***************************************************************************)
SilenceMeansAgreement ==
  pc = "done" /\ ~ret.asked =>
    \A n \in 1 .. Lpn2 :
      IF table[n] = NULL THEN kernel[n] = NULL
      ELSE kernel[n] # NULL /\ kernel[n].start = table[n].start
           /\ (kernel[n] = KernelGeom(table, n) \/ SameLength(n))

(***************************************************************************)
(* A partition that the new table has where the kernel has it is not taken *)
(* away, not even for a moment: whoever is using it, or about to, does not *)
(* notice that the table was written.                                      *)
(***************************************************************************)
UnchangedStay ==
  [][\A n \in Nums : SameStart(n) /\ SameLength(n) /\ ~table[n].ext =>
       kernel'[n] = kernel[n]]_vars

(***************************************************************************)
(* The call returns, however long partitions stay in use.                  *)
(***************************************************************************)
Returns == <>(pc = "done")

(***************************************************************************)
(* linux.c:3064: the add pass throws "a warning if we cannot because step  *)
(* 1 failed to remove it": once the remove pass has dealt with every       *)
(* partition, every partition of the table is added.                       *)
(***************************************************************************)
OnlyUnremovedFail == [][pc = "add" /\ (\A n \in Nums : ok[n]) => \A n \in Nums : ok'[n]]_vars
=============================================================================
