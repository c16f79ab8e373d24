--------------------------- MODULE SessionProofs ---------------------------
(***************************************************************************)
(* Proofs about Session, for any devices, numbers and sizes.               *)
(***************************************************************************)
EXTENDS Session, TLAPS

TypeOK ==
  /\ mode \in {"interactive", "command_line", "script"}
  /\ status \in {"running", "succeeded", "failed"}
  /\ pc \in {"prompt", "rescue"}
  /\ dev \in Devices
  /\ opened \in [Devices -> Int]
  /\ DOMAIN onDev = Devices /\ onDev = [d \in Devices |-> onDev[d]]

(***************************************************************************)
(* What is in memory when the program still runs on a device it has, also  *)
(* in the middle of do_rescue, which changes the device under no disk.     *)
(***************************************************************************)
Memory ==
  /\ status = "running" /\ ~dangling /\ disk # NULL /\ ~unwritten => disk = onDev[dev]
  /\ pc = "rescue" => disk = NULL

MInv == TypeOK /\ Memory

\* A commit that was written put its table on the selected device.
LEMMA CommitWrites ==
  ASSUME TypeOK, NEW table, NEW outcome \in Outcomes, DiskCommit(table, outcome)
  PROVE  /\ DOMAIN onDev' = Devices /\ onDev' = [d \in Devices |-> onDev'[d]]
         /\ outcome # "not_written" => onDev'[dev] = table
  BY DEF TypeOK, DiskCommit

\* The loops close the selected device once, when the program ends.
LEMMA ResultType ==
  ASSUME TypeOK, NEW ok \in BOOLEAN, NEW table, NEW lost, CommandResult(ok, table, lost)
  PROVE  status' \in {"running", "failed"} /\ opened' \in [Devices -> Int]
  BY DEF TypeOK, CommandResult

\* The commands that end in a commit.
LEMMA CommitStep ==
  ASSUME MInv, Ready, NEW table, NEW outcome \in Outcomes, CommitCommand(table, outcome)
  PROVE  MInv'
<1>1. DiskCommit(table, outcome) /\ CommandResult(Success(outcome), table, FALSE) /\ Same
  BY DEF CommitCommand
<1>2. Success(outcome) \in BOOLEAN
  BY DEF Success
<1>3. TypeOK'
  BY <1>1, <1>2, CommitWrites, ResultType DEF MInv, TypeOK, Same
<1>4. Memory'
  <2>1. CASE Success(outcome)
    BY <1>1, <2>1, CommitWrites DEF MInv, Memory, CommandResult, Same, Ready, Success
  <2>2. CASE ~Success(outcome)
    BY <1>1, <2>2 DEF CommandResult, Memory
  <2> QED BY <2>1, <2>2
<1> QED BY <1>3, <1>4 DEF MInv

\* resizepart, whose failed commit is remembered as unwritten.
LEMMA ResizeStep ==
  ASSUME MInv, NEW n \in Nums, NEW size \in 1 .. MaxSize, NEW sure \in BOOLEAN, NEW outcome \in Outcomes,
         Resizepart(n, size, sure, outcome)
  PROVE  MInv'
<1> DEFINE table   == [Loaded EXCEPT ![n].size = size]
           refused == size < Loaded[n].size /\ ~(sure /\ mode # "script")
<1>1. CASE refused
  <2>1. CommandResult(FALSE, table, unwritten) /\ UNCHANGED <<onDev, os>> /\ Same
    BY <1>1 DEF Resizepart
  <2>2. TypeOK'
    BY <2>1, ResultType DEF MInv, TypeOK, Same
  <2>3. Memory'
    BY <2>1 DEF CommandResult, Memory
  <2> QED BY <2>2, <2>3 DEF MInv
<1>2. CASE ~refused
  <2>1. DiskCommit(table, outcome) /\ CommandResult(TRUE, table, outcome = "not_written") /\ Same /\ Ready
    BY <1>2 DEF Resizepart
  <2> HIDE DEF table
  <2>2. TypeOK'
    BY <2>1, CommitWrites, ResultType DEF MInv, TypeOK, Same
  <2>3. Memory'
    BY <2>1, CommitWrites DEF MInv, Memory, CommandResult, Same, Ready
  <2> QED BY <2>2, <2>3 DEF MInv
<1> QED BY <1>1, <1>2

\* Every command preserves the invariant.
LEMMA MemoryStep == MInv /\ [Next]_vars => MInv'
<1> SUFFICES ASSUME MInv, [Next]_vars PROVE MInv'
  OBVIOUS
<1>1. CASE GiveUp
  <2>1. TypeOK'
    BY <1>1, ResultType DEF MInv, TypeOK, GiveUp, Same
  <2>2. Memory'
    BY <1>1 DEF GiveUp, CommandResult, Memory
  <2> QED BY <2>1, <2>2 DEF MInv
<1>2. CASE ShowTable
  <2>1. TypeOK'
    BY <1>2, ResultType DEF MInv, TypeOK, ShowTable, Same
  <2>2. Memory'
    BY <1>2 DEF MInv, ShowTable, CommandResult, Memory, Same, Ready, Loaded
  <2> QED BY <2>1, <2>2 DEF MInv
<1>3. CASE RescueBegin
  BY <1>3 DEF MInv, TypeOK, Memory, RescueBegin
<1>4. CASE Quit
  BY <1>4 DEF MInv, TypeOK, Memory, Quit, Ready
<1>5. ASSUME NEW ok \in BOOLEAN, PrintDevices(ok) PROVE MInv'
  BY <1>5 DEF MInv, TypeOK, Memory, PrintDevices, Ready
<1>6. ASSUME NEW cancel \in BOOLEAN, RescueEnd(cancel) PROVE MInv'
  <2>1. TypeOK'
    BY <1>6, ResultType DEF MInv, TypeOK, RescueEnd
  <2>2. Memory'
    BY <1>6 DEF RescueEnd, CommandResult, Memory
  <2> QED BY <2>1, <2>2 DEF MInv
<1>7. ASSUME NEW d \in Devices, Select(d) PROVE MInv'
  BY <1>7 DEF MInv, TypeOK, Memory, Select, Ready
<1>8. ASSUME NEW outcome \in Outcomes, Mklabel(outcome) PROVE MInv'
  BY <1>8, CommitStep DEF Mklabel
<1>9. ASSUME NEW outcome \in Outcomes, NEW n \in Nums, Rm(n, outcome) PROVE MInv'
  BY <1>9, CommitStep DEF Rm
<1>10. ASSUME NEW outcome \in Outcomes, NEW n \in Nums, NEW state \in BOOLEAN, SetFlag(n, state, outcome)
       PROVE  MInv'
  BY <1>10, CommitStep DEF SetFlag
<1>11. ASSUME NEW outcome \in Outcomes, NEW n \in Nums, NEW size \in 1 .. MaxSize, Mkpart(n, size, outcome)
       PROVE  MInv'
  BY <1>11, CommitStep DEF Mkpart
<1>12. ASSUME NEW outcome \in Outcomes, NEW n \in Nums, NEW size \in 1 .. MaxSize, RescueYes(n, size, outcome)
       PROVE  MInv'
  <2> DEFINE table == [found EXCEPT ![n] = [size |-> size, flag |-> FALSE]]
  <2>1. DiskCommit(table, outcome)
    BY <1>12 DEF RescueYes
  <2>2. DOMAIN onDev' = Devices /\ onDev' = [d \in Devices |-> onDev'[d]]
    BY <2>1, CommitWrites DEF MInv
  <2> QED BY <1>12, <2>2 DEF MInv, TypeOK, Memory, RescueYes
<1>13. CASE UNCHANGED vars
  BY <1>13 DEF MInv, TypeOK, Memory, vars
<1> QED
  BY <1>1, <1>2, <1>3, <1>4, <1>5, <1>6, <1>7, <1>8, <1>9, <1>10, <1>11, <1>12, <1>13, ResizeStep DEF Next

\* parted starts without a disk in memory.
LEMMA MemoryInit == Init => MInv
  BY DEF Init, MInv, TypeOK, Memory

(***************************************************************************)
(* Between two commands parted never has in memory what the device does    *)
(* not have, but for the resize whose commit failed (do_resizepart).       *)
(***************************************************************************)
THEOREM MemoryFollowsDevice == Spec => []MemoryIsDevice
<1>1. MInv => MemoryIsDevice
  BY DEF MInv, Memory, MemoryIsDevice, Ready
<1> QED BY <1>1, MemoryInit, MemoryStep, PTL DEF Spec

-----------------------------------------------------------------------------
\* A command that returns to the loops keeps the one reference, or gives it up
\* with the program.
LEMMA ResultHeld ==
  ASSUME TypeOK, OneDeviceIsHeld, status = "running", dev' = dev,
         NEW ok \in BOOLEAN, NEW table, NEW lost, CommandResult(ok, table, lost)
  PROVE  OneDeviceIsHeld'
<1>1. opened[dev] = 1 /\ \A d \in Devices \ {dev} : opened[d] = 0
  BY DEF TypeOK, OneDeviceIsHeld
<1>2. CASE Ends(ok)
  BY <1>1, <1>2 DEF TypeOK, OneDeviceIsHeld, CommandResult
<1>3. CASE ~Ends(ok)
  BY <1>1, <1>3 DEF TypeOK, OneDeviceIsHeld, CommandResult
<1> QED BY <1>2, <1>3

\* The commands that end in a commit do not touch the references.
LEMMA CommitHeld ==
  ASSUME TypeOK, OneDeviceIsHeld, Ready, NEW table, NEW outcome \in Outcomes, CommitCommand(table, outcome)
  PROVE  OneDeviceIsHeld'
<1>1. Success(outcome) \in BOOLEAN
  BY DEF Success
<1>2. status = "running" /\ dev' = dev /\ CommandResult(Success(outcome), table, FALSE)
  BY DEF CommitCommand, Ready, Same
<1> QED BY <1>1, <1>2, ResultHeld

\* Every command preserves the one reference.
LEMMA HeldStep ==
  ASSUME ReopenFails = FALSE, TypeOK, OneDeviceIsHeld, [Next]_vars
  PROVE  OneDeviceIsHeld'
<1>1. CASE GiveUp
  BY <1>1, ResultHeld DEF GiveUp, Ready, Same
<1>2. CASE ShowTable
  BY <1>2, ResultHeld DEF ShowTable, Ready, Same
<1>3. CASE RescueBegin
  BY <1>3 DEF RescueBegin, OneDeviceIsHeld
<1>4. CASE Quit
  BY <1>4 DEF Quit, Ready, TypeOK, OneDeviceIsHeld
<1>5. ASSUME NEW ok \in BOOLEAN, PrintDevices(ok) PROVE OneDeviceIsHeld'
  BY <1>5 DEF PrintDevices, Ready, Ends, TypeOK, OneDeviceIsHeld
<1>6. ASSUME NEW cancel \in BOOLEAN, RescueEnd(cancel) PROVE OneDeviceIsHeld'
  BY <1>6, ResultHeld DEF RescueEnd
<1>7. ASSUME NEW d \in Devices, Select(d) PROVE OneDeviceIsHeld'
  <2>1. opened[dev] = 1 /\ \A e \in Devices \ {dev} : opened[e] = 0
    BY <1>7 DEF Select, Ready, TypeOK, OneDeviceIsHeld
  <2>2. CASE d = dev
    BY <1>7, <2>1, <2>2 DEF Select, Ready, TypeOK, OneDeviceIsHeld
  <2>3. CASE d # dev
    BY <1>7, <2>1, <2>3 DEF Select, Ready, TypeOK, OneDeviceIsHeld
  <2> QED BY <2>2, <2>3
<1>8. ASSUME NEW outcome \in Outcomes, Mklabel(outcome) PROVE OneDeviceIsHeld'
  BY <1>8, CommitHeld DEF Mklabel
<1>9. ASSUME NEW outcome \in Outcomes, NEW n \in Nums, Rm(n, outcome) PROVE OneDeviceIsHeld'
  BY <1>9, CommitHeld DEF Rm
<1>10. ASSUME NEW outcome \in Outcomes, NEW n \in Nums, NEW state \in BOOLEAN, SetFlag(n, state, outcome)
       PROVE  OneDeviceIsHeld'
  BY <1>10, CommitHeld DEF SetFlag
<1>11. ASSUME NEW outcome \in Outcomes, NEW n \in Nums, NEW size \in 1 .. MaxSize, Mkpart(n, size, outcome)
       PROVE  OneDeviceIsHeld'
  BY <1>11, CommitHeld DEF Mkpart
<1>12. ASSUME NEW outcome \in Outcomes, NEW n \in Nums, NEW size \in 1 .. MaxSize, RescueYes(n, size, outcome)
       PROVE  OneDeviceIsHeld'
  BY <1>12 DEF RescueYes, OneDeviceIsHeld
<1>13. ASSUME NEW outcome \in Outcomes, NEW n \in Nums, NEW size \in 1 .. MaxSize, NEW sure \in BOOLEAN,
              Resizepart(n, size, sure, outcome)
       PROVE  OneDeviceIsHeld'
  <2>1. status = "running" /\ dev' = dev
    BY <1>13 DEF Resizepart, Ready, Same
  <2>2. \E ok \in BOOLEAN : \E table, lost : CommandResult(ok, table, lost)
    BY <1>13 DEF Resizepart
  <2> QED BY <2>1, <2>2, ResultHeld
<1>14. CASE UNCHANGED vars
  BY <1>14 DEF vars, OneDeviceIsHeld
<1> QED
  BY <1>1, <1>2, <1>3, <1>4, <1>5, <1>6, <1>7, <1>8, <1>9, <1>10, <1>11, <1>12, <1>13, <1>14 DEF Next

(***************************************************************************)
(* As long as `print devices' can open the device again, parted holds the  *)
(* selected device once and no other, and none when it has ended           *)
(* (do_select, interactive_mode, non_interactive_mode, _done).             *)
(***************************************************************************)
THEOREM SelectedIsHeld ==
  ASSUME ReopenFails = FALSE
  PROVE  Spec => []OneDeviceIsHeld
<1>1. Init => OneDeviceIsHeld
  BY DEF Init, OneDeviceIsHeld
<1>2. MInv /\ OneDeviceIsHeld /\ [Next]_vars => OneDeviceIsHeld'
  BY HeldStep DEF MInv
<1> QED BY <1>1, <1>2, MemoryInit, MemoryStep, PTL DEF Spec
=============================================================================
