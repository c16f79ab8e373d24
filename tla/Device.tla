------------------------------- MODULE Device -------------------------------
(***************************************************************************)
(* PedDevice (libparted/device.c) over the Linux operations                *)
(* (libparted/arch/linux.c): the device list, the reference count of       *)
(* ped_device_open and ped_device_close, external access, and what they do *)
(* to the file descriptor and to the dirty flag.  Where the C code asks    *)
(* Retry, the outcome here is that of the last try.                        *)
(***************************************************************************)
EXTENDS Integers, Sequences, FiniteSets

CONSTANTS
  NULL,
  Objects,    \* PedDevice objects that can be allocated
  Paths,      \* device paths
  RamPaths,   \* those of type PED_DEVICE_RAM
  MaxOpen,    \* bound: nested opens
  MaxHeld     \* bound: descriptors, those never closed included

VARIABLES
  devices,   \* the list of cached devices
  dev,       \* dev[o]: the object, NULL when not allocated
  held,      \* descriptors the process has open
  mishap,    \* history: objects with a descriptor that was not closed, or not
             \* opened again after external access
  last       \* the call that led here, and whether it succeeded

vars == <<devices, dev, held, mishap, last>>

Fd == {"none", "ro", "rw"}

Object ==
  [path : Paths, openCount : Nat, external : BOOLEAN, readOnly : BOOLEAN,
   dirty : BOOLEAN, fd : Fd]

ASSUME DeviceAssumption ==
  RamPaths \subseteq Paths /\ MaxOpen \in Nat /\ MaxHeld \in Nat /\ NULL \notin Object

Listed == {devices[i] : i \in 1 .. Len(devices)}

\* linux_new, whose probing opens and closes the device.
LinuxNew(path, closed) ==
  [path |-> path, openCount |-> 0, external |-> FALSE, readOnly |-> FALSE,
   dirty |-> FALSE, fd |-> IF closed THEN "none" ELSE "ro"]

FlushCache(d) ==
  IF d.readOnly \/ d.path \in RamPaths THEN d ELSE [d EXCEPT !.dirty = FALSE]

\* Mutant: closing does not look at the dirty flag.
CloseUnflushed(d, closed) == IF closed THEN [d EXCEPT !.fd = "none"] ELSE d

(***************************************************************************)
(* linux_close.  When fsync fails and the user ignores it the descriptor   *)
(* is not closed; without a descriptor it always fails.                    *)
(***************************************************************************)
LinuxClose(d, closed) ==
  LET clean == IF d.dirty THEN FlushCache(d) ELSE d
  IN  IF closed THEN [clean EXCEPT !.fd = "none"] ELSE clean

\* _device_open; fd is "none" when neither mode could be opened.
DeviceOpen(d, fd) ==
  IF fd = "none" THEN [d EXCEPT !.fd = fd]
  ELSE FlushCache([d EXCEPT !.fd = fd, !.readOnly = (fd = "ro")])

Set(o, d, delta) ==
  /\ dev' = [dev EXCEPT ![o] = d]
  /\ held' = held + delta
  /\ held' <= MaxHeld

\* One more or one less descriptor, and what a failure is remembered as.
Opened(fd) == IF fd = "none" THEN 0 ELSE 1
Closed(closed) == IF closed THEN -1 ELSE 0
Failed(o, ok) == mishap' = IF ok THEN mishap ELSE mishap \cup {o}

Return(op, o, ok) == last' = [op |-> op, obj |-> o, ok |-> ok]

\* _device_unregister: an object that is not in the list is no error.
Unregister(o) ==
  IF o \notin Listed THEN UNCHANGED devices
  ELSE \E i \in 1 .. Len(devices) :
         /\ devices[i] = o
         /\ devices' = [j \in 1 .. Len(devices) - 1 |-> devices[IF j < i THEN j ELSE j + 1]]

\* Mutant: the list is not searched for the path.
GetDuplicate(path, o, closed) ==
  /\ dev[o] = NULL
  /\ devices' = Append(devices, o)
  /\ Set(o, LinuxNew(path, closed), 1 + Closed(closed))
  /\ Failed(o, closed)
  /\ Return("get", o, TRUE)

(***************************************************************************)
(* ped_device_get of a path that is not cached.                            *)
(***************************************************************************)
Get(path, o, closed) ==
  /\ dev[o] = NULL
  /\ \A x \in Listed : dev[x].path # path
  /\ devices' = Append(devices, o)
  /\ Set(o, LinuxNew(path, closed), 1 + Closed(closed))
  /\ Failed(o, closed)
  /\ Return("get", o, TRUE)

CacheRemove(o) ==
  /\ dev[o] # NULL
  /\ Unregister(o)
  /\ Return("cache remove", o, TRUE)
  /\ UNCHANGED <<dev, held, mishap>>

Usable(o) == dev[o] # NULL /\ ~dev[o].external

Open(o, fd) ==
  LET d == dev[o]
  IN  /\ Usable(o) /\ d.openCount < MaxOpen
      /\ IF d.openCount > 0
         THEN /\ fd = d.fd
              /\ Set(o, [d EXCEPT !.openCount = @ + 1], 0)
              /\ Return("open", o, TRUE)
         ELSE /\ Set(o, [DeviceOpen(d, fd) EXCEPT !.openCount = Opened(fd)], Opened(fd))
              /\ Return("open", o, fd # "none")
      /\ UNCHANGED <<devices, mishap>>

Close(o, closed) ==
  LET d == dev[o]
      n == d.openCount - 1
  IN  /\ Usable(o) /\ d.openCount > 0
      /\ closed => d.fd # "none"
      /\ IF n > 0
         THEN /\ Set(o, [IF d.dirty THEN FlushCache(d) ELSE d EXCEPT !.openCount = n], 0)
              /\ UNCHANGED mishap
         ELSE /\ Set(o, [LinuxClose(d, closed) EXCEPT !.openCount = n], Closed(closed))
              /\ Failed(o, closed)
      /\ Return("close", o, TRUE)
      /\ UNCHANGED devices

\* Mutant: the descriptor is kept during external access.
BeginExternalOpen(o, closed) ==
  /\ Usable(o)
  /\ Set(o, [dev[o] EXCEPT !.external = TRUE], 0)
  /\ Return("begin external", o, TRUE)
  /\ UNCHANGED <<devices, mishap>>

BeginExternal(o, closed) ==
  LET d == dev[o]
  IN  /\ Usable(o)
      /\ closed => d.fd # "none"
      /\ IF d.openCount > 0
         THEN Set(o, [LinuxClose(d, closed) EXCEPT !.external = TRUE], Closed(closed)) /\ Failed(o, closed)
         ELSE Set(o, [d EXCEPT !.external = TRUE], 0) /\ UNCHANGED mishap
      /\ Return("begin external", o, TRUE)
      /\ UNCHANGED devices

EndExternal(o, fd) ==
  LET d == dev[o]
  IN  /\ d # NULL /\ d.external
      /\ IF d.openCount > 0
         THEN Set(o, [DeviceOpen(d, fd) EXCEPT !.external = FALSE], Opened(fd)) /\ Failed(o, fd # "none")
         ELSE Set(o, [d EXCEPT !.external = FALSE], 0) /\ UNCHANGED mishap
      /\ Return("end external", o, d.openCount = 0 \/ fd # "none")
      /\ UNCHANGED devices

(***************************************************************************)
(* ped_device_write.  A read-only device refuses and a failed seek changes *)
(* nothing; otherwise the device is dirty, whether or not all was written. *)
(***************************************************************************)
Write(o, ok) ==
  LET d == dev[o]
  IN  /\ Usable(o) /\ d.openCount > 0
      /\ ok => d.fd = "rw"
      /\ Set(o, IF d.readOnly \/ d.fd = "none" THEN d ELSE [d EXCEPT !.dirty = TRUE], 0)
      /\ Return("write", o, ok)
      /\ UNCHANGED <<devices, mishap>>

Sync(o, synced) ==
  LET d == dev[o]
  IN  /\ Usable(o) /\ d.openCount > 0
      /\ synced => d.fd # "none"
      /\ Set(o, IF d.readOnly \/ ~synced THEN d ELSE FlushCache(d), 0)
      /\ Return("sync", o, d.readOnly \/ synced)
      /\ UNCHANGED <<devices, mishap>>

(***************************************************************************)
(* ped_device_destroy closes as often as the device is open; only the last *)
(* close reaches the descriptor.                                           *)
(***************************************************************************)
Destroy(o, closed) ==
  LET d == dev[o]
  IN  /\ d # NULL /\ (d.external => d.openCount = 0)
      /\ closed => d.fd # "none"
      /\ Unregister(o)
      /\ IF d.openCount > 0
         THEN Set(o, NULL, Closed(closed)) /\ Failed(o, closed)
         ELSE Set(o, NULL, 0) /\ UNCHANGED mishap
      /\ Return("destroy", o, TRUE)

Init ==
  /\ devices = <<>>
  /\ dev = [o \in Objects |-> NULL]
  /\ held = 0
  /\ mishap = {}
  /\ last = [op |-> "none", obj |-> NULL, ok |-> TRUE]

Next ==
  \E o \in Objects :
    \/ \E path \in Paths, closed \in BOOLEAN : Get(path, o, closed)
    \/ \E fd \in Fd : Open(o, fd) \/ EndExternal(o, fd)
    \/ \E ok \in BOOLEAN :
         Close(o, ok) \/ BeginExternal(o, ok) \/ Write(o, ok) \/ Sync(o, ok) \/ Destroy(o, ok)
    \/ CacheRemove(o)

Spec == Init /\ [][Next]_vars
-----------------------------------------------------------------------------
Live == {o \in Objects : dev[o] # NULL}

TypeOK ==
  /\ devices \in Seq(Objects) /\ Listed \subseteq Live
  /\ dev \in [Objects -> Object \cup {NULL}]
  /\ held \in Int /\ mishap \subseteq Objects

(***************************************************************************)
(* ped_device_get never hands out two objects for one cached path, and the *)
(* list never holds an object twice, also after cache_remove and destroy.  *)
(***************************************************************************)
PathsAreUnique ==
  \A i, j \in 1 .. Len(devices) :
    dev[devices[i]].path = dev[devices[j]].path => i = j

(***************************************************************************)
(* ped_device_begin_external_access "keeps track of dev->open_count, so    *)
(* that reference counting isn't screwed up": unless an open or close was  *)
(* seen to fail, a device has a descriptor exactly when it is open and not *)
(* in external mode.                                                       *)
(***************************************************************************)
DescriptorFollowsCount ==
  \A o \in Live \ mishap :
    (dev[o].fd # "none" <=> dev[o].openCount > 0 /\ ~dev[o].external)

(***************************************************************************)
(* "Running external programs while the device is open can cause cache     *)
(* coherency problems": whoever else uses the device finds its caches      *)
(* flushed.  (_flush_cache leaves RAM disks alone.)                        *)
(***************************************************************************)
ReleasedIsClean ==
  \A o \in Live : dev[o].dirty /\ dev[o].path \notin RamPaths =>
    dev[o].openCount > 0 /\ ~dev[o].external
=============================================================================
