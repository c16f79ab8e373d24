------------------------------- MODULE Calls -------------------------------
(***************************************************************************)
(* Library and program calls that take exceptions into their own hands     *)
(* (ped_exception_fetch_all, catch and leave_all of libparted/exception.c) *)
(* and that open and close the device on the way: probing for a label or a *)
(* file system, reading a label, making a device, checking a region, and   *)
(* the commands and the partprobe program that nest them.                  *)
(*                                                                         *)
(* The stack holds the calls in progress.  What a label or file system     *)
(* finds on the device, which operations fail and what the user answers    *)
(* are nondeterministic; a request that is retried has the outcome of its  *)
(* last try.  ex_fetch_count is the fetched of GeomCheck, whose            *)
(* ped_geometry_check is one of the calls.                                 *)
(***************************************************************************)
EXTENDS GeomCheck, Sequences, FiniteSets

CONSTANTS
  NULL,
  LabelTypes,   \* number of disk types, the loop label being the last
  FsTypes,      \* number of file system types
  Errors,       \* distances between a region and the file system found in it
  MinError,     \* min_error of _best_match
  IntRange,     \* number of values of an int
  Parts,        \* partitions that a label read probes for file systems
  Starts        \* starts that a rescue tries

VARIABLES
  stack,     \* calls in progress, the innermost first
  ret,       \* whether the call that ended last succeeded
  pending,   \* ped_exception: an exception was thrown and not caught
  opens,     \* open_count of the device
  detected,  \* detected and detected_error of ped_file_system_probe
  match      \* what the last _best_match answered

callVars == <<stack, ret, pending, opens, detected, match>>
allVars  == <<callVars, vars>>

Top == Head(stack)
At(fn, pcs) == stack # <<>> /\ Top.fn = fn /\ Top.pc \in pcs

Frame(fn) == [fn |-> fn, pc |-> "start", walk |-> 1]
Goto(p) == stack' = <<[Top EXCEPT !.pc = p]>> \o Tail(stack)
Step(p) == stack' = <<[Top EXCEPT !.pc = p, !.walk = @ + 1]>> \o Tail(stack)
Call(fn, p) == stack' = <<Frame(fn), [Top EXCEPT !.pc = p]>> \o Tail(stack)
Return(ok) == stack' = Tail(stack) /\ ret' = ok

(***************************************************************************)
(* ped_exception_throw and do_throw: under a fetch the exception stays     *)
(* pending and is unhandled; else the handler, which may leave it          *)
(* unhandled too, answers and it is freed.  An earlier one is freed first. *)
(***************************************************************************)
Throw(answer) ==
  IF fetched > 0 THEN answer = "unhandled" /\ pending' = TRUE ELSE pending' = FALSE

Tell == Throw("unhandled")

\* An operation that may or may not throw on its way.
MayTell == Tell \/ UNCHANGED pending

Fetch == fetched' = fetched + 1
Leave == fetched' = fetched - 1
Catch == pending' = FALSE

Opened == opens' = opens + 1
Closed == opens' = opens - 1

\* GeomCheck's variables but for the fetch count.
Quiet == UNCHANGED <<bad, glitches, pc, group, i, result>>

(***************************************************************************)
(* ped_disk_probe, with loop_probe, which looks for a file system.         *)
(***************************************************************************)
DiskProbeOpens ==
  /\ At("disk_probe", {"start"})
  /\ \/ Opened /\ Fetch /\ Goto("probe") /\ UNCHANGED <<ret, pending>>
     \/ Tell /\ Return(FALSE) /\ UNCHANGED <<opens, fetched>>
  /\ UNCHANGED <<detected, match>> /\ Quiet

DiskProbeAsks ==
  /\ At("disk_probe", {"probe"})
  /\ IF Top.walk = LabelTypes
     THEN \/ Call("fs_probe", "end") /\ UNCHANGED <<ret, pending>>
          \/ \E found \in BOOLEAN : Goto("end") /\ ret' = found /\ MayTell
     ELSE \/ Goto("end") /\ ret' = TRUE /\ MayTell
          \/ Step("probe") /\ UNCHANGED ret /\ MayTell
  /\ UNCHANGED <<opens, fetched, detected, match>> /\ Quiet

DiskProbeEnds ==
  /\ At("disk_probe", {"end"})
  /\ Catch /\ Leave /\ Closed /\ Return(ret)
  /\ UNCHANGED <<detected, match>> /\ Quiet

(***************************************************************************)
(* ped_disk_new.                                                           *)
(***************************************************************************)
DiskNewOpens ==
  /\ At("disk_new", {"start"})
  /\ \/ Opened /\ Call("disk_probe", "probed") /\ UNCHANGED <<ret, pending>>
     \/ Tell /\ Return(FALSE) /\ UNCHANGED opens
  /\ UNCHANGED <<fetched, detected, match>> /\ Quiet

DiskNewProbed ==
  /\ At("disk_new", {"probed"})
  /\ \/ ~ret /\ Tell /\ Closed /\ Return(FALSE)
     \/ ret /\ Goto("read") /\ UNCHANGED <<ret, pending, opens>>
     \/ ret /\ MayTell /\ Closed /\ Return(FALSE)     \* ped_disk_new_fresh
  /\ UNCHANGED <<fetched, detected, match>> /\ Quiet

\* The label's read operation probes the partitions it finds.
DiskNewReads ==
  /\ At("disk_new", {"read"})
  /\ \/ /\ Top.walk <= Parts
        /\ stack' = <<Frame("fs_probe"), [Top EXCEPT !.walk = @ + 1]>> \o Tail(stack)
        /\ UNCHANGED <<ret, opens>>
     \/ \E ok \in BOOLEAN : Return(ok) /\ Closed
  /\ MayTell
  /\ UNCHANGED <<fetched, detected, match>> /\ Quiet

(***************************************************************************)
(* ped_file_system_probe.                                                  *)
(***************************************************************************)
FsProbeOpens ==
  /\ At("fs_probe", {"start"})
  /\ \/ Opened /\ Fetch /\ Goto("probe") /\ UNCHANGED <<ret, pending>>
     \/ Tell /\ Return(FALSE) /\ UNCHANGED <<opens, fetched>>
  /\ detected' = <<>> /\ match' = NULL /\ Quiet

\* What is left of a PedSector in an int.
ToInt(n) ==
  LET r == n % IntRange IN IF 2 * r >= IntRange THEN r - IntRange ELSE r

\* ped_file_system_probe_specific, which opens and closes the device again,
\* for one type: nothing found, or a region so far from the one probed.
FsProbeAsks ==
  /\ At("fs_probe", {"probe"}) /\ Top.walk <= FsTypes
  /\ \/ Catch /\ UNCHANGED detected
     \/ \E error \in Errors :
          MayTell /\ detected' = Append(detected, [type |-> Top.walk, error |-> error])
  /\ Step("probe")
  /\ UNCHANGED <<ret, opens, fetched, match>> /\ Quiet


\* _best_match: the first of the nearest, if the others are much farther.
BestMatch(found) ==
  LET stored == [n \in DOMAIN found |-> ToInt(found[n].error)]
      best   == CHOOSE n \in DOMAIN found :
                  /\ \A m \in DOMAIN found : stored[n] <= stored[m]
                  /\ \A m \in 1 .. n - 1 : stored[n] < stored[m]
  IN  IF found = <<>> \/ \E m \in DOMAIN found \ {best} : stored[m] - stored[best] < MinError
      THEN NULL
      ELSE found[best].type

FsProbeEnds ==
  /\ At("fs_probe", {"probe"}) /\ Top.walk > FsTypes
  /\ Leave /\ Closed
  /\ match' = BestMatch(detected)
  /\ Return(match' # NULL)
  /\ UNCHANGED <<pending, detected>> /\ Quiet

(***************************************************************************)
(* _ped_device_probe, and init_generic of arch/linux.c below it.           *)
(***************************************************************************)
DeviceProbeGets ==
  /\ At("device_probe", {"start"})
  /\ Fetch /\ Call("init_generic", "got")
  /\ UNCHANGED <<ret, pending, opens, detected, match>> /\ Quiet

DeviceProbeEnds ==
  /\ At("device_probe", {"got"})
  /\ Leave /\ Return(ret) /\ (IF ret THEN UNCHANGED pending ELSE Catch)
  /\ UNCHANGED <<opens, detected, match>> /\ Quiet

InitGenericOpens ==
  /\ At("init_generic", {"start"})
  /\ \/ Fetch /\ Goto("geometry") /\ UNCHANGED <<ret, pending>>
     \/ Tell /\ Return(FALSE) /\ UNCHANGED fetched
  /\ UNCHANGED <<opens, detected, match>> /\ Quiet

\* Mutant: a device without a length keeps the fetch.
InitGenericKeepsFetch ==
  /\ At("init_generic", {"geometry"})
  /\ \/ MayTell /\ Leave /\ Return(TRUE)
     \/ Catch /\ Return(FALSE) /\ UNCHANGED fetched
     \/ Catch /\ Leave /\ Goto("ask") /\ UNCHANGED ret
  /\ UNCHANGED <<opens, detected, match>> /\ Quiet

\* The geometry is known; or not even the length; or only that.
InitGenericProbes ==
  /\ At("init_generic", {"geometry"})
  /\ \/ MayTell /\ Leave /\ Return(TRUE)
     \/ Catch /\ Leave /\ Return(FALSE)
     \/ Catch /\ Leave /\ Goto("ask") /\ UNCHANGED ret
  /\ UNCHANGED <<opens, detected, match>> /\ Quiet

\* "Unable to determine geometry"
InitGenericAsks ==
  /\ At("init_generic", {"ask"})
  /\ \/ Throw("cancel") /\ Return(FALSE)
     \/ Throw("ignore") /\ Return(TRUE)
     \/ Catch /\ Return(TRUE)                          \* unhandled
  /\ UNCHANGED <<fetched, opens, detected, match>> /\ Quiet

(***************************************************************************)
(* do_mklabel: the old label is read to warn about it.                     *)
(***************************************************************************)
MklabelLoads ==
  /\ At("mklabel", {"start"})
  /\ \/ Fetch /\ Call("disk_new", "loaded")
     \/ Goto("write") /\ UNCHANGED fetched             \* *diskp is there
  /\ UNCHANGED <<ret, pending, opens, detected, match>> /\ Quiet

MklabelLoaded ==
  /\ At("mklabel", {"loaded"})
  /\ Leave /\ Goto("write") /\ (IF ret THEN UNCHANGED pending ELSE Catch)
  /\ UNCHANGED <<ret, opens, detected, match>> /\ Quiet

\* Questions, the new label and its commit; also the end of do_mkpart.
CommandEnds ==
  /\ At("mklabel", {"write"}) \/ At("mkpart", {"write"})
  /\ MayTell /\ \E ok \in BOOLEAN : Return(ok)
  /\ UNCHANGED <<opens, fetched, detected, match>> /\ Quiet

(***************************************************************************)
(* do_mkpart: the partition is added where it was asked for, without a     *)
(* word if that fails, and then anywhere.                                  *)
(***************************************************************************)
MkpartFetches ==
  /\ At("mkpart", {"start"})
  /\ \/ Fetch /\ Goto("add") /\ UNCHANGED <<ret, pending>>
     \/ MayTell /\ Return(FALSE) /\ UNCHANGED fetched  \* no such constraint
  /\ UNCHANGED <<opens, detected, match>> /\ Quiet

MkpartAdds ==
  /\ At("mkpart", {"add"})
  /\ MayTell /\ \E ok \in BOOLEAN : ret' = ok
  /\ Goto("added")
  /\ UNCHANGED <<opens, fetched, detected, match>> /\ Quiet

MkpartAdded ==
  /\ At("mkpart", {"added"})
  /\ Leave
  /\ \/ ret /\ Catch /\ Goto("write") /\ UNCHANGED ret
     \/ ~ret /\ Goto("anywhere") /\ UNCHANGED <<ret, pending>>
  /\ UNCHANGED <<opens, detected, match>> /\ Quiet

\* ped_disk_add_partition under the any constraint, and the questions
\* whether that will do.
MkpartAnywhere ==
  /\ At("mkpart", {"anywhere"})
  /\ \/ MayTell /\ Return(FALSE)
     \/ Catch /\ Goto("write") /\ UNCHANGED ret
     \/ Throw("no") /\ Return(FALSE)
  /\ UNCHANGED <<opens, fetched, detected, match>> /\ Quiet

(***************************************************************************)
(* do_rescue with _rescue_pass and _rescue_add_partition.                  *)
(***************************************************************************)
RescueOpens ==
  /\ At("rescue", {"start"})
  /\ Call("disk_new", "loaded")
  /\ UNCHANGED <<ret, pending, opens, fetched, detected, match>> /\ Quiet

RescueLoaded ==
  /\ At("rescue", {"loaded"})
  /\ \/ ret /\ Goto("pass") /\ UNCHANGED ret
     \/ Return(FALSE)
  /\ MayTell
  /\ UNCHANGED <<opens, fetched, detected, match>> /\ Quiet

RescueFetches ==
  /\ At("rescue", {"pass"})
  /\ \/ Top.walk <= Starts /\ Fetch /\ Goto("add") /\ UNCHANGED ret
     \/ Top.walk <= Starts /\ Step("pass") /\ UNCHANGED <<ret, fetched>>   \* no partition
     \/ Top.walk > Starts /\ Return(TRUE) /\ UNCHANGED fetched
  /\ UNCHANGED <<pending, opens, detected, match>> /\ Quiet

RescueAdds ==
  /\ At("rescue", {"add"})
  /\ MayTell /\ Leave
  /\ Call("fs_probe", "found") \/ Step("pass")
  /\ UNCHANGED <<ret, opens, detected, match>> /\ Quiet

\* An answer other than No and Cancel, even none, adds the partition.
RescueFound ==
  /\ At("rescue", {"found"})
  /\ \/ Step("pass") /\ MayTell /\ UNCHANGED ret
     \/ ret /\ Throw("cancel") /\ Return(FALSE)
     \/ ret /\ MayTell /\ Return(TRUE)
  /\ UNCHANGED <<opens, fetched, detected, match>> /\ Quiet

(***************************************************************************)
(* process_dev of partprobe.                                               *)
(***************************************************************************)
PartprobeOpens ==
  /\ At("partprobe", {"start"})
  /\ \/ Opened /\ Call("disk_probe", "probed") /\ UNCHANGED <<ret, pending>>
     \/ Tell /\ Return(FALSE) /\ UNCHANGED opens
  /\ UNCHANGED <<fetched, detected, match>> /\ Quiet

PartprobeProbed ==
  /\ At("partprobe", {"probed"})
  /\ \/ ret /\ Call("disk_new", "loaded")
     \/ ~ret /\ Goto("commit")                         \* an empty msdos label
  /\ UNCHANGED <<ret, pending, opens, fetched, detected, match>> /\ Quiet

PartprobeLoaded ==
  /\ At("partprobe", {"loaded"})
  /\ \/ ret /\ Goto("commit") /\ UNCHANGED <<ret, opens>>
     \/ ~ret /\ Closed /\ Return(FALSE)
  /\ UNCHANGED <<pending, fetched, detected, match>> /\ Quiet

\* ped_disk_commit_to_os and the summary.
PartprobeEnds ==
  /\ At("partprobe", {"commit"})
  /\ MayTell /\ Closed /\ \E ok \in BOOLEAN : Return(ok)
  /\ UNCHANGED <<fetched, detected, match>> /\ Quiet

(***************************************************************************)
(* ped_geometry_check: its reads throw under its fetch, and are caught.    *)
(***************************************************************************)
Checking == pc \in {"retry", "scan", "search"}

GeometryCheck ==
  /\ Checking /\ Next
  /\ pending' = (pending /\ ~(pc' = "search" /\ pc = "scan") /\ ~(pc = "search" /\ pc' = "done"))
  /\ UNCHANGED <<stack, ret, opens, detected, match>>
-----------------------------------------------------------------------------
Functions == {"disk_probe", "disk_new", "fs_probe", "device_probe", "init_generic",
              "mklabel", "mkpart", "rescue", "partprobe"}

Idle == stack = <<>> /\ ~Checking

\* A caller starts one of the functions; the locals of an earlier check and
\* what an earlier detection found are gone.
Start ==
  /\ Idle
  /\ \E fn \in Functions : stack' = <<Frame(fn)>>
  /\ detected' = <<>> /\ match' = NULL
  /\ bad' = {} /\ glitches' = 0 /\ pc' = "gone" /\ group' = offset /\ i' = offset /\ result' = 0
  /\ UNCHANGED <<ret, pending, opens, fetched>>

StartCheck ==
  /\ Idle /\ pc = "gone"
  /\ bad' \in SUBSET Region
  /\ pc' = "retry"
  /\ UNCHANGED <<callVars, glitches, group, i, result, fetched>>

CallsInit ==
  /\ stack = <<>> /\ ret = FALSE /\ pending = FALSE /\ opens = 0
  /\ detected = <<>> /\ match = NULL
  /\ bad = {} /\ glitches = 0 /\ pc = "gone" /\ group = offset /\ i = offset
  /\ result = 0 /\ fetched = 0

Continue ==
  \/ DiskProbeOpens \/ DiskProbeAsks \/ DiskProbeEnds
  \/ DiskNewOpens \/ DiskNewProbed \/ DiskNewReads
  \/ FsProbeOpens \/ FsProbeAsks \/ FsProbeEnds
  \/ DeviceProbeGets \/ DeviceProbeEnds
  \/ InitGenericOpens \/ InitGenericProbes \/ InitGenericAsks
  \/ MklabelLoads \/ MklabelLoaded \/ CommandEnds
  \/ MkpartFetches \/ MkpartAdds \/ MkpartAdded \/ MkpartAnywhere
  \/ RescueOpens \/ RescueLoaded \/ RescueFetches \/ RescueAdds \/ RescueFound
  \/ PartprobeOpens \/ PartprobeProbed \/ PartprobeLoaded \/ PartprobeEnds
  \/ GeometryCheck

CallsNext == Continue \/ Start \/ StartCheck

CallsSpec == CallsInit /\ [][CallsNext]_allVars /\ WF_allVars(Continue)
-----------------------------------------------------------------------------
\* Where a function is between its fetch_all and its leave_all, and between
\* its ped_device_open and its ped_device_close.
Fetching ==
  [disk_probe |-> {"probe", "end"}, fs_probe |-> {"probe"}, device_probe |-> {"got"},
   init_generic |-> {"geometry"}, mklabel |-> {"loaded"}, mkpart |-> {"add", "added"},
   rescue |-> {"add"}, disk_new |-> {}, partprobe |-> {}]

Holding ==
  [disk_probe |-> {"probe", "end"}, fs_probe |-> {"probe"}, disk_new |-> {"probed", "read"},
   partprobe |-> {"probed", "loaded", "commit"}, device_probe |-> {}, init_generic |-> {},
   mklabel |-> {}, mkpart |-> {}, rescue |-> {}]

Inside(where) == Cardinality({n \in DOMAIN stack : stack[n].pc \in where[stack[n].fn]})

(***************************************************************************)
(* The functions that fetch exceptions or open the device give both back   *)
(* on every path, however they are nested and whatever fails: ex_fetch_    *)
(* count and open_count are the numbers of calls now inside.  A fetch too  *)
(* many would silence every later exception of the program, one too few    *)
(* would ask the user in the middle of a probe.                            *)
(***************************************************************************)
CallsAreBalanced ==
  /\ fetched = Inside(Fetching) + (IF pc \in {"scan", "search"} THEN 1 ELSE 0)
  /\ opens = Inside(Holding)


(***************************************************************************)
(* Every call ends, if a region that is checked can be read at its end     *)
(* (AlwaysReturns of GeomCheck is about the others).                       *)
(***************************************************************************)
CallsEnd ==
  (\A s \in bad : s + granularity < offset + count) ~> Idle
=============================================================================
