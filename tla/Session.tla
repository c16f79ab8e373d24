------------------------------ MODULE Session ------------------------------
(***************************************************************************)
(* The parted program (parted/parted.c, the command loops of parted/ui.c): *)
(* commands that change the PedDisk in memory, commit it to the device and *)
(* tell the kernel, and what is left in memory when one of these fails or  *)
(* the user says no half-way.                                              *)
(***************************************************************************)
EXTENDS Integers

CONSTANTS
  NULL,
  Devices,
  Nums,       \* partition numbers
  MaxSize,    \* partition sizes
  ReopenFails \* whether `print devices' may fail to open the device again

ASSUME SessionAssumption == MaxSize \in Nat \ {0} /\ ReopenFails \in BOOLEAN

VARIABLES
  mode,      \* "interactive", "command_line" or "script" (with -s)
  status,    \* "running", "succeeded", "failed": the exit status
  dev,       \* *dev, the selected device
  opened,    \* open counts of the devices, without those of running calls
  onDev,     \* the table on each device, or NULL
  os,        \* the kernel's idea of it
  disk,      \* *diskp, the table in memory or NULL
  pc,        \* "prompt" or "rescue"
  found,     \* the table do_rescue works on
  dangling,  \* the device of *diskp has been freed
  unwritten  \* the disk's last commit failed and its command succeeded

vars == <<mode, status, dev, opened, onDev, os, disk, pc, found, dangling, unwritten>>

Partition == [size : 1 .. MaxSize, flag : BOOLEAN]
Table     == [Nums -> Partition \cup {NULL}]
Blank     == [n \in Nums |-> NULL]

(***************************************************************************)
(* ped_disk_commit: what it leaves on the device and in the kernel, and    *)
(* whether it succeeds.  The user may tell the kernel's failure to be      *)
(* ignored.  A failed write leaves the old table, the new one or none.     *)
(***************************************************************************)
Outcomes == {"done", "ignored", "not_written", "kernel_refused"}

Success(outcome) == outcome \in {"done", "ignored"}

DiskCommit(table, outcome) ==
  /\ outcome = "ignored" => mode # "script"
  /\ \E written \in IF outcome = "not_written" THEN {onDev[dev], table, NULL} ELSE {table} :
       onDev' = [onDev EXCEPT ![dev] = written]
  /\ os' = IF outcome = "done" THEN [os EXCEPT ![dev] = table] ELSE os

\* The PedDisk a command works on: *diskp, or ped_disk_new (*dev).
Loaded == IF disk # NULL THEN disk ELSE onDev[dev]

Ends(ok) == ~ok /\ mode # "interactive"

\* Mutant: interactive_mode keeps the disk of a failed command.
KeepFailed(ok, table, lost) ==
  /\ disk' = table /\ unwritten' = lost
  /\ status' = IF Ends(ok) THEN "failed" ELSE "running"
  /\ opened' = IF Ends(ok) THEN [opened EXCEPT ![dev] = @ - 1] ELSE opened

\* What the two loops do with the result of command_run: after a failure
\* the disk is destroyed, and outside interactive mode _done closes the
\* device and parted exits.
CommandResult(ok, table, lost) ==
  /\ disk' = IF ok THEN table ELSE NULL
  /\ unwritten' = (ok /\ lost)
  /\ status' = IF Ends(ok) THEN "failed" ELSE "running"
  /\ opened' = IF Ends(ok) THEN [opened EXCEPT ![dev] = @ - 1] ELSE opened

\* A disk whose device is gone is used by no further action of the model.
Ready == status = "running" /\ pc = "prompt" /\ ~dangling

Same == UNCHANGED <<mode, dev, pc, found, dangling>>

\* A command that ends before it changes anything it keeps: no label, a
\* wrong argument, a question answered with No, a geometry that is refused.
GiveUp ==
  /\ Ready
  /\ CommandResult(FALSE, Loaded, unwritten)
  /\ Same /\ UNCHANGED <<onDev, os>>

\* do_print and do_align_check, which load the disk.
ShowTable ==
  /\ Ready /\ Loaded # NULL
  /\ CommandResult(TRUE, Loaded, unwritten)
  /\ Same /\ UNCHANGED <<onDev, os>>

\* `print devices' frees every device, the selected one included, and opens
\* a new object for the same path.
PrintDevices(ok) ==
  /\ Ready /\ (ok \/ ReopenFails)
  /\ opened' = [d \in Devices |->
       IF d # dev THEN 0 ELSE IF ok THEN 1 ELSE IF Ends(ok) THEN -1 ELSE 0]
  /\ disk' = IF ok THEN disk ELSE NULL
  /\ dangling' = (disk' # NULL)
  /\ unwritten' = (ok /\ unwritten)
  /\ status' = IF Ends(ok) THEN "failed" ELSE "running"
  /\ UNCHANGED <<mode, dev, onDev, os, pc, found>>

\* The end of do_mklabel, do_mkpart, do_rm, do_set, do_name, do_type.
CommitCommand(table, outcome) ==
  /\ DiskCommit(table, outcome)
  /\ CommandResult(Success(outcome), table, FALSE)
  /\ Same

Mklabel(outcome) == Ready /\ CommitCommand(Blank, outcome)

Mkpart(n, size, outcome) ==
  /\ Ready /\ Loaded # NULL /\ Loaded[n] = NULL
  /\ CommitCommand([Loaded EXCEPT ![n] = [size |-> size, flag |-> FALSE]], outcome)

Rm(n, outcome) ==
  /\ Ready /\ Loaded # NULL /\ Loaded[n] # NULL
  /\ CommitCommand([Loaded EXCEPT ![n] = NULL], outcome)

\* do_set, do_toggle, do_name and do_type.
SetFlag(n, state, outcome) ==
  /\ Ready /\ Loaded # NULL /\ Loaded[n] # NULL
  /\ CommitCommand([Loaded EXCEPT ![n].flag = state], outcome)

\* The partition is resized in memory before the user is asked about the
\* loss of data, and the result of the commit is not looked at.
Resizepart(n, size, sure, outcome) ==
  /\ Ready /\ Loaded # NULL /\ Loaded[n] # NULL
  /\ LET table   == [Loaded EXCEPT ![n].size = size]
         refused == size < Loaded[n].size /\ ~(sure /\ mode # "script")
     IN  IF refused
         THEN CommandResult(FALSE, table, unwritten) /\ UNCHANGED <<onDev, os>>
         ELSE /\ DiskCommit(table, outcome)
              /\ CommandResult(TRUE, table, outcome = "not_written")
  /\ Same

\* Mutant: the device that was selected is not closed.
SelectStaysOpen(d) ==
  /\ Ready
  /\ dev' = d
  /\ opened' = [opened EXCEPT ![d] = @ + 1]
  /\ disk' = NULL /\ unwritten' = FALSE
  /\ UNCHANGED <<mode, status, onDev, os, pc, found, dangling>>

\* The new device is opened before the old one, perhaps the same, is closed.
Select(d) ==
  /\ Ready
  /\ dev' = d
  /\ opened' = [[opened EXCEPT ![d] = @ + 1] EXCEPT ![dev] = @ - 1]
  /\ disk' = NULL /\ unwritten' = FALSE
  /\ UNCHANGED <<mode, status, onDev, os, pc, found, dangling>>

(***************************************************************************)
(* do_rescue: the disk in memory is given up for one of its own; every     *)
(* file system that is found is offered to the user.                       *)
(***************************************************************************)
RescueBegin ==
  /\ Ready /\ onDev[dev] # NULL
  /\ disk' = NULL /\ unwritten' = FALSE
  /\ found' = onDev[dev] /\ pc' = "rescue"
  /\ UNCHANGED <<mode, status, dev, opened, onDev, os, dangling>>

\* A file system is found, and the answer is Yes, or there is none in script
\* mode: the table with it is committed.  If that fails the partition is
\* removed from the table in memory and the search goes on.
RescueYes(n, size, outcome) ==
  /\ pc = "rescue" /\ status = "running" /\ found[n] = NULL
  /\ DiskCommit([found EXCEPT ![n] = [size |-> size, flag |-> FALSE]], outcome)
  /\ pc' = IF Success(outcome) THEN "prompt" ELSE "rescue"
  /\ found' = IF Success(outcome) THEN NULL ELSE found
  /\ UNCHANGED <<mode, status, dev, opened, disk, dangling, unwritten>>

\* The end of the range, or Cancel.
RescueEnd(cancel) ==
  /\ pc = "rescue" /\ status = "running"
  /\ cancel => mode # "script"
  /\ CommandResult(~cancel, NULL, FALSE)
  /\ pc' = "prompt" /\ found' = NULL
  /\ UNCHANGED <<mode, dev, onDev, os, dangling>>

\* do_quit, Ctrl-C at the prompt, or the end of the command line.
Quit ==
  /\ Ready
  /\ status' = "succeeded" /\ disk' = NULL /\ unwritten' = FALSE
  /\ opened' = [opened EXCEPT ![dev] = @ - 1]
  /\ UNCHANGED <<mode, dev, onDev, os, pc, found, dangling>>
-----------------------------------------------------------------------------
Init ==
  /\ mode \in {"interactive", "command_line", "script"} /\ status = "running"
  /\ dev \in Devices /\ opened = [d \in Devices |-> IF d = dev THEN 1 ELSE 0]
  /\ onDev \in [Devices -> {Blank, NULL}] /\ os = onDev
  /\ disk = NULL /\ pc = "prompt" /\ found = NULL
  /\ dangling = FALSE /\ unwritten = FALSE

Next ==
  \/ GiveUp \/ ShowTable \/ RescueBegin \/ Quit
  \/ \E ok \in BOOLEAN : PrintDevices(ok)
  \/ \E cancel \in BOOLEAN : RescueEnd(cancel)
  \/ \E d \in Devices : Select(d)
  \/ \E outcome \in Outcomes :
       \/ Mklabel(outcome)
       \/ \E n \in Nums :
            \/ Rm(n, outcome)
            \/ \E state \in BOOLEAN : SetFlag(n, state, outcome)
            \/ \E size \in 1 .. MaxSize :
                 \/ Mkpart(n, size, outcome) \/ RescueYes(n, size, outcome)
                 \/ \E sure \in BOOLEAN : Resizepart(n, size, sure, outcome)

Spec == Init /\ [][Next]_vars
-----------------------------------------------------------------------------
(***************************************************************************)
(* Between commands, the disk parted works on and prints is the one on     *)
(* the selected device: nothing the user declined, and nothing of a        *)
(* failed command, is there to be written by a later one.  The commit of   *)
(* do_resizepart that fails is excepted.                                   *)
(***************************************************************************)
MemoryIsDevice == Ready /\ disk # NULL /\ ~unwritten => disk = onDev[dev]

(***************************************************************************)
(* The selected device is held open by exactly one reference, whatever     *)
(* was selected before; no other device is, and none after the end.        *)
(***************************************************************************)
OneDeviceIsHeld ==
  \A d \in Devices : opened[d] = IF d = dev /\ status = "running" THEN 1 ELSE 0

(***************************************************************************)
(* doc/parted.texi:345-346: "commands are entered one at a time at a       *)
(* prompt, and modify the disk immediately".  After a command that         *)
(* succeeded the disk in memory is the one on the device.                  *)
(***************************************************************************)
SuccessIsWritten == Ready /\ disk # NULL => disk = onDev[dev]

(***************************************************************************)
(* include/parted/disk.in.h:198 calls PedDisk's dev "the device where the  *)
(* partition table lies".  The device of the disk in memory exists.        *)
(***************************************************************************)
DiskHasDevice == ~dangling

(***************************************************************************)
(* ped_device_close asserts dev->open_count > 0: every close the program   *)
(* makes, the last one in _done included, is of an open device.            *)
(***************************************************************************)
ClosesAreOfOpen == \A d \in Devices : opened[d] >= 0
=============================================================================
