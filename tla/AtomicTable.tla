---------------------------- MODULE AtomicTable ----------------------------
(***************************************************************************)
(* What a caller of ped_disk_commit_to_dev may rely on, without sectors,   *)
(* copies or headers: the table that a reader of the device finds changes  *)
(* only while a commit runs.  A commit that succeeds leaves its table.  A  *)
(* protected one goes from the old table to the new one in a single step   *)
(* and never back, also when it fails or its program dies.                 *)
(***************************************************************************)
EXTENDS Naturals

CONSTANTS NULL, Tables

VARIABLES
  table,       \* what a reader finds, NULL if nothing
  new,         \* the table being committed, or NULL
  protected,   \* the running commit promises to be atomic
  failures,    \* commits that failed, programs that died
  outages      \* power failures

vars == <<table, new, protected, failures, outages>>

Contents == Tables \cup {NULL}

Init == table \in Tables /\ new = NULL /\ protected = FALSE /\ failures = 0 /\ outages = 0

Moves == table' \in IF protected THEN {table, new} ELSE Contents

\* A repair begins by erasing, so a commit without protection may do harm
\* with its first step.
Start ==
  /\ new = NULL
  /\ new' \in Tables /\ protected' \in BOOLEAN /\ table' \in Contents
  /\ protected' => table' = table
  /\ UNCHANGED <<failures, outages>>

Write == new # NULL /\ Moves /\ UNCHANGED <<new, protected, failures, outages>>

Succeed ==
  /\ new # NULL /\ table = new
  /\ new' = NULL /\ protected' = FALSE
  /\ UNCHANGED <<table, failures, outages>>

Fail ==
  /\ new # NULL /\ Moves
  /\ new' = NULL /\ protected' = FALSE /\ failures' = failures + 1
  /\ UNCHANGED outages

\* A program dies that is not committing.
Die == new = NULL /\ failures' = failures + 1 /\ UNCHANGED <<table, new, protected, outages>>

Outage ==
  /\ table' \in Contents /\ new' = NULL /\ protected' = FALSE
  /\ outages' = outages + 1
  /\ UNCHANGED failures

Next == Start \/ Write \/ Succeed \/ Fail \/ Die \/ Outage

Spec == Init /\ [][Next]_vars
=============================================================================
