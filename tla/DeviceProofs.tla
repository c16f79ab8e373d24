---------------------------- MODULE DeviceProofs ----------------------------
(***************************************************************************)
(* The invariants of Device for any number of devices, paths and nested    *)
(* opens.                                                                  *)
(***************************************************************************)
EXTENDS MCDevice, FiniteSetTheorems, TLAPS

\* What an allocated object satisfies on its own; tainted when it had a mishap.
Good(d, tainted) ==
  /\ d \in Object
  /\ ~tainted => (d.fd # "none" <=> d.openCount > 0 /\ ~d.external)
  /\ d.dirty /\ d.path \notin RamPaths => d.openCount > 0 /\ ~d.external /\ ~d.readOnly

AllGood == \A o \in Objects : dev[o] # NULL => Good(dev[o], o \in mishap)

IInv == TypeOK /\ PathsAreUnique /\ AllGood

\* linux_close flushes what it has to, and keeps the record well formed.
LEMMA LinuxCloseClean ==
  ASSUME NEW d \in Object, NEW closed \in BOOLEAN,
         d.dirty /\ d.path \notin RamPaths => ~d.readOnly
  PROVE  LET e == LinuxClose(d, closed)
         IN  /\ e \in Object
             /\ e.path = d.path /\ e.openCount = d.openCount /\ e.external = d.external
             /\ e.readOnly = d.readOnly
             /\ e.dirty => e.path \in RamPaths
             /\ closed => e.fd = "none"
             /\ ~closed => e.fd = d.fd
  BY DEF LinuxClose, FlushCache, Object, Fd

\* _device_open of a clean device leaves it clean.
LEMMA DeviceOpenClean ==
  ASSUME NEW d \in Object, NEW fd \in Fd, d.dirty => d.path \in RamPaths
  PROVE  LET e == DeviceOpen(d, fd)
         IN  /\ e \in Object
             /\ e.path = d.path /\ e.openCount = d.openCount /\ e.external = d.external
             /\ e.dirty => e.path \in RamPaths
             /\ e.fd = fd
  BY DEF DeviceOpen, FlushCache, Object, Fd

\* A step that replaces one allocated object by a good one of the same path
\* and leaves the list alone preserves the invariant.
LEMMA ReplaceObject ==
  ASSUME IInv, NEW o \in Objects, NEW d \in Object, NEW delta \in Int,
         dev[o] # NULL, d.path = dev[o].path, Set(o, d, delta),
         devices' = devices, mishap' \subseteq Objects, mishap \subseteq mishap',
         Good(d, o \in mishap')
  PROVE  IInv'
PROOF
<1> USE DEF IInv
<1>1. dev' = [dev EXCEPT ![o] = d] /\ dev \in [Objects -> Object \cup {NULL}]
  BY DEF Set, TypeOK
<1>2. d # NULL
  BY DeviceAssumption
<1>3. TypeOK'
  BY <1>1, <1>2 DEF TypeOK, Set, Listed, Live
<1>4. \A x \in Listed : x \in Objects /\ dev'[x].path = dev[x].path
  BY <1>1 DEF TypeOK, Live
<1>5. PathsAreUnique'
  BY <1>4 DEF PathsAreUnique, Listed
<1>6. ASSUME NEW x \in Objects, dev'[x] # NULL
      PROVE  Good(dev'[x], x \in mishap')
  <2>1. CASE x = o
    BY <1>1, <2>1
  <2>2. CASE x # o
    <3>1. dev'[x] = dev[x] /\ dev[x] # NULL
      BY <1>1, <1>6, <2>2
    <3>2. Good(dev[x], x \in mishap)
      BY <3>1 DEF AllGood
    <3>3. x \in mishap => x \in mishap'
      OBVIOUS
    <3> QED BY <3>1, <3>2, <3>3 DEF Good
  <2> QED BY <2>1, <2>2
<1>7. AllGood'
  BY <1>6 DEF AllGood
<1> QED BY <1>3, <1>5, <1>7

\* Taking an object off the list keeps the rest of the list, in order.
LEMMA UnregisterKeeps ==
  ASSUME TypeOK, PathsAreUnique, NEW o \in Objects, Unregister(o)
  PROVE  /\ devices' \in Seq(Objects)
         /\ \A k \in 1 .. Len(devices') : devices'[k] \in Listed
         /\ \A j, k \in 1 .. Len(devices') : dev[devices'[j]].path = dev[devices'[k]].path => j = k
         /\ \A k \in 1 .. Len(devices') : devices'[k] # o
PROOF
<1>1. CASE o \notin Listed
  BY <1>1 DEF Unregister, TypeOK, PathsAreUnique, Listed
<1>2. CASE o \in Listed
  <2>1. PICK i \in 1 .. Len(devices) :
          /\ devices[i] = o
          /\ devices' = [j \in 1 .. Len(devices) - 1 |-> devices[IF j < i THEN j ELSE j + 1]]
    BY <1>2 DEF Unregister
  <2> DEFINE n == Len(devices) - 1
             at(j) == IF j < i THEN j ELSE j + 1
  <2>2. n \in Nat /\ i \in Nat
    BY <2>1 DEF TypeOK
  <2>3. devices' \in Seq(Objects) /\ Len(devices') = n
    BY <2>1, <2>2 DEF TypeOK
  <2>4. \A j \in 1 .. n : at(j) \in 1 .. Len(devices) /\ at(j) # i /\ devices'[j] = devices[at(j)]
    BY <2>1, <2>2
  <2>5. \A j, k \in 1 .. n : at(j) = at(k) => j = k
    BY <2>2
  <2>6. \A j \in 1 .. n : devices'[j] \in Listed
    BY <2>4 DEF Listed
  <2>7. \A j, k \in 1 .. n : dev[devices'[j]].path = dev[devices'[k]].path => j = k
    <3> SUFFICES ASSUME NEW j \in 1 .. n, NEW k \in 1 .. n,
                        dev[devices[at(j)]].path = dev[devices[at(k)]].path
                 PROVE  j = k
      BY <2>4
    <3>1. at(j) = at(k)
      BY <2>4 DEF PathsAreUnique
    <3> QED BY <2>5, <3>1
  <2>8. \A j \in 1 .. n : devices'[j] # o
    BY <2>1, <2>4 DEF PathsAreUnique
  <2> QED BY <2>3, <2>6, <2>7, <2>8
<1> QED BY <1>1, <1>2

\* Removing or destroying an object preserves the invariant: the rest of the
\* list and the other objects are untouched.
LEMMA ForgetObject ==
  ASSUME IInv, NEW o \in Objects, Unregister(o),
         \/ dev' = [dev EXCEPT ![o] = NULL]
         \/ dev' = dev,
         held' \in Int, mishap' \subseteq Objects, mishap \subseteq mishap'
  PROVE  IInv'
PROOF
<1> USE DEF IInv
<1>1. /\ devices' \in Seq(Objects)
      /\ \A k \in 1 .. Len(devices') : devices'[k] \in Listed /\ devices'[k] # o
      /\ \A j, k \in 1 .. Len(devices') :
           dev[devices'[j]].path = dev[devices'[k]].path => j = k
  BY UnregisterKeeps
<1>2. \A x \in Objects : x # o => dev'[x] = dev[x]
  BY DEF TypeOK
<1>3. \A k \in 1 .. Len(devices') : /\ devices'[k] \in Objects
                                   /\ dev'[devices'[k]] = dev[devices'[k]]
                                   /\ dev[devices'[k]] # NULL
  BY <1>1, <1>2 DEF TypeOK, Live
<1>4. TypeOK'
  BY <1>1, <1>3 DEF TypeOK, Listed, Live
<1>5. PathsAreUnique'
  BY <1>1, <1>3 DEF PathsAreUnique
<1>6. AllGood'
  <2> SUFFICES ASSUME NEW x \in Objects, dev'[x] # NULL
               PROVE  Good(dev'[x], x \in mishap')
    BY DEF AllGood
  <2>1. dev'[x] = dev[x]
    BY <1>2 DEF TypeOK
  <2>2. Good(dev[x], x \in mishap) /\ (x \in mishap => x \in mishap')
    BY <2>1 DEF AllGood
  <2> QED BY <2>1, <2>2 DEF Good
<1> QED BY <1>4, <1>5, <1>6

\* ped_device_get appends an object whose path is not in the list yet.
LEMMA GetStep ==
  ASSUME IInv, NEW path \in Paths, NEW o \in Objects, NEW closed \in BOOLEAN,
         Get(path, o, closed)
  PROVE  IInv'
PROOF
<1> USE DEF IInv
<1> DEFINE d == LinuxNew(path, closed)
           n == Len(devices)
<1>1. d \in Object /\ d # NULL /\ d.path = path
  <2>1. d \in Object /\ d.path = path
    BY DEF LinuxNew, Object, Fd
  <2> QED BY <2>1, DeviceAssumption
<1>2. dev' = [dev EXCEPT ![o] = d] /\ dev \in [Objects -> Object \cup {NULL}]
  BY DEF Get, Set, TypeOK
<1>3. mishap \subseteq mishap' /\ mishap' \subseteq Objects /\ (o \notin mishap' => closed)
  BY DEF Get, Failed, TypeOK
<1>4. held' \in Int
  BY DEF Get, Set, Closed, TypeOK
<1>5. devices' = Append(devices, o) /\ devices \in Seq(Objects)
  BY DEF Get, TypeOK
<1>6. o \notin Listed
  BY DEF Get, TypeOK, Live
<1>7. \A x \in Listed : x \in Objects /\ dev'[x] = dev[x] /\ dev[x] # NULL /\ dev[x].path # path
  BY <1>2, <1>6 DEF Get, TypeOK, Live
<1>8. \A k \in 1 .. n : devices[k] \in Listed /\ devices'[k] = devices[k]
  BY <1>5 DEF Listed
<1>9. Len(devices') = n + 1 /\ n \in Nat /\ devices'[n + 1] = o /\ devices' \in Seq(Objects)
  BY <1>5
<1>10. dev'[o] = d
  BY <1>2
<1>11. TypeOK'
  <2>1. \A k \in 1 .. n + 1 : devices'[k] \in Objects /\ dev'[devices'[k]] # NULL
    BY <1>1, <1>7, <1>8, <1>9, <1>10
  <2>2. (Listed \subseteq Live)'
    BY <2>1, <1>9 DEF Listed, Live
  <2>3. dev' \in [Objects -> Object \cup {NULL}]
    BY <1>1, <1>2
  <2> QED BY <2>2, <2>3, <1>3, <1>4, <1>9 DEF TypeOK
<1>12. PathsAreUnique'
  <2> SUFFICES ASSUME NEW j \in 1 .. n + 1, NEW k \in 1 .. n + 1,
                      dev'[devices'[j]].path = dev'[devices'[k]].path
               PROVE  j = k
    BY <1>9 DEF PathsAreUnique
  <2>1. CASE j \in 1 .. n /\ k \in 1 .. n
    BY <2>1, <1>7, <1>8 DEF PathsAreUnique
  <2>2. CASE j = n + 1 /\ k = n + 1
    BY <2>2
  <2>3. CASE j = n + 1 /\ k \in 1 .. n
    BY <2>3, <1>1, <1>7, <1>8, <1>9, <1>10
  <2>4. CASE k = n + 1 /\ j \in 1 .. n
    BY <2>4, <1>1, <1>7, <1>8, <1>9, <1>10
  <2> QED BY <2>1, <2>2, <2>3, <2>4, <1>9
<1>13. AllGood'
  <2> SUFFICES ASSUME NEW x \in Objects, dev'[x] # NULL
               PROVE  Good(dev'[x], x \in mishap')
    BY DEF AllGood
  <2>1. CASE x = o
    BY <2>1, <1>1, <1>3, <1>10 DEF Good, LinuxNew
  <2>2. CASE x # o
    <3>1. dev'[x] = dev[x] /\ Good(dev[x], x \in mishap) /\ (x \in mishap => x \in mishap')
      BY <2>2, <1>2, <1>3 DEF AllGood
    <3> QED BY <3>1 DEF Good
  <2> QED BY <2>1, <2>2
<1> QED BY <1>11, <1>12, <1>13

\* Every call preserves the invariant.
LEMMA NextStep ==
  ASSUME IInv, [Next]_vars
  PROVE  IInv'
PROOF
<1>1. CASE UNCHANGED vars
  BY <1>1 DEF vars, IInv, TypeOK, PathsAreUnique, AllGood, Good, Listed, Live
<1>2. CASE Next
  <2> PICK o \in Objects :
        \/ \E path \in Paths, closed \in BOOLEAN : Get(path, o, closed)
        \/ \E fd \in Fd : Open(o, fd) \/ EndExternal(o, fd)
        \/ \E ok \in BOOLEAN :
             Close(o, ok) \/ BeginExternal(o, ok) \/ Write(o, ok) \/ Sync(o, ok) \/ Destroy(o, ok)
        \/ CacheRemove(o)
    BY <1>2 DEF Next
  <2> DEFINE d == dev[o]
  <2>0. /\ mishap \subseteq Objects /\ held \in Int
        /\ d # NULL => d \in Object /\ Good(d, o \in mishap)
    BY DEF IInv, TypeOK, AllGood
  <2>1. ASSUME NEW path \in Paths, NEW closed \in BOOLEAN, Get(path, o, closed)
        PROVE  IInv'
    BY <2>1, GetStep
  <2>2. ASSUME NEW fd \in Fd, Open(o, fd)
        PROVE  IInv'
    <3>1. d \in Object /\ d # NULL /\ ~d.external /\ mishap' = mishap /\ devices' = devices
      BY <2>0, <2>2 DEF Open, Usable
    <3>2. CASE d.openCount > 0
      <4> DEFINE e == [d EXCEPT !.openCount = @ + 1]
      <4>1. Set(o, e, 0)
        BY <2>2, <3>2 DEF Open
      <4>2. e \in Object /\ e.path = d.path
        BY <3>1 DEF Object
      <4>3. Good(e, o \in mishap')
        BY <2>0, <3>1, <3>2, <4>2 DEF Good, Object
      <4> HIDE DEF e
      <4> QED BY <2>0, <3>1, <4>1, <4>2, <4>3, ReplaceObject
    <3>3. CASE ~(d.openCount > 0)
      <4> DEFINE p == DeviceOpen(d, fd)
                 e == [p EXCEPT !.openCount = Opened(fd)]
      <4>0. Opened(fd) \in Int
        BY DEF Opened
      <4>1. Set(o, e, Opened(fd))
        BY <2>2, <3>3, Zenon DEF Open
      <4>2. d.dirty => d.path \in RamPaths
        BY <2>0, <3>1, <3>3 DEF Good
      <4>3. /\ p \in Object /\ p.path = d.path /\ p.external = d.external
            /\ p.dirty => p.path \in RamPaths
            /\ p.fd = fd
        BY <3>1, <4>2, DeviceOpenClean
      <4> HIDE DEF p
      <4>4. /\ e \in Object /\ e.path = p.path /\ e.external = p.external
            /\ e.dirty = p.dirty /\ e.fd = fd /\ e.openCount = Opened(fd)
        BY <4>3 DEF Object, Opened
      <4>5. Good(e, o \in mishap')
        BY <3>1, <4>3, <4>4 DEF Good, Opened
      <4> HIDE DEF e
      <4> QED BY <2>0, <3>1, <4>0, <4>1, <4>3, <4>4, <4>5, ReplaceObject
    <3> QED BY <3>2, <3>3
  <2>3. ASSUME NEW fd \in Fd, EndExternal(o, fd)
        PROVE  IInv'
    <3>1. d \in Object /\ d # NULL /\ d.external /\ devices' = devices
      BY <2>0, <2>3 DEF EndExternal
    <3>2. d.dirty => d.path \in RamPaths
      BY <2>0, <3>1 DEF Good
    <3>3. CASE d.openCount > 0
      <4> DEFINE p == DeviceOpen(d, fd)
                 e == [p EXCEPT !.external = FALSE]
      <4>0. Opened(fd) \in Int
        BY DEF Opened
      <4>1. Set(o, e, Opened(fd)) /\ Failed(o, fd # "none")
        BY <2>3, <3>3, Zenon DEF EndExternal
      <4>2. /\ p \in Object /\ p.path = d.path /\ p.openCount = d.openCount
            /\ p.dirty => p.path \in RamPaths
            /\ p.fd = fd
        BY <3>1, <3>2, DeviceOpenClean
      <4> HIDE DEF p
      <4>3. /\ e \in Object /\ e.path = p.path /\ e.external = FALSE
            /\ e.dirty = p.dirty /\ e.fd = fd /\ e.openCount = p.openCount
        BY <4>2 DEF Object
      <4>4. /\ mishap \subseteq mishap' /\ mishap' \subseteq Objects
            /\ o \notin mishap' => fd # "none"
        BY <2>0, <4>1 DEF Failed
      <4>5. Good(e, o \in mishap')
        BY <3>3, <4>2, <4>3, <4>4 DEF Good
      <4> HIDE DEF e
      <4> QED BY <2>0, <3>1, <4>0, <4>1, <4>2, <4>3, <4>4, <4>5, ReplaceObject
    <3>4. CASE ~(d.openCount > 0)
      <4> DEFINE e == [d EXCEPT !.external = FALSE]
      <4>1. Set(o, e, 0) /\ mishap' = mishap
        BY <2>3, <3>4 DEF EndExternal
      <4>2. /\ e \in Object /\ e.path = d.path /\ e.openCount = d.openCount
            /\ e.dirty = d.dirty /\ e.fd = d.fd /\ e.external = FALSE
        BY <3>1 DEF Object
      <4>3. Good(e, o \in mishap')
        BY <2>0, <3>1, <3>2, <3>4, <4>1, <4>2 DEF Good
      <4> HIDE DEF e
      <4> QED BY <2>0, <3>1, <4>1, <4>2, <4>3, ReplaceObject
    <3> QED BY <3>3, <3>4
  <2>4. ASSUME NEW ok \in BOOLEAN, Close(o, ok)
        PROVE  IInv'
    <3>1. /\ d \in Object /\ d # NULL /\ ~d.external /\ devices' = devices
          /\ d.openCount > 0 /\ Good(d, o \in mishap)
      BY <2>0, <2>4 DEF Close, Usable
    <3> DEFINE n == d.openCount - 1
    <3>2. CASE n > 0
      <4> DEFINE p == IF d.dirty THEN FlushCache(d) ELSE d
                 e == [p EXCEPT !.openCount = n]
      <4>1. Set(o, e, 0) /\ mishap' = mishap
        BY <2>4, <3>2 DEF Close
      <4>2. /\ p \in Object /\ p.path = d.path /\ p.external = d.external /\ p.fd = d.fd
            /\ p.readOnly = d.readOnly
        BY <3>1 DEF FlushCache, Object
      <4>3. p.dirty => d.dirty
        BY <3>1 DEF FlushCache, Object
      <4> HIDE DEF p
      <4>4. /\ e \in Object /\ e.path = p.path /\ e.external = p.external /\ e.fd = p.fd
            /\ e.readOnly = p.readOnly /\ e.dirty = p.dirty /\ e.openCount = n
        BY <3>1, <3>2, <4>2 DEF Object
      <4>5. Good(e, o \in mishap')
        BY <3>1, <3>2, <4>1, <4>2, <4>3, <4>4 DEF Good
      <4> HIDE DEF e
      <4> QED BY <2>0, <3>1, <4>1, <4>2, <4>4, <4>5, ReplaceObject
    <3>3. CASE ~(n > 0)
      <4> DEFINE p == LinuxClose(d, ok)
                 e == [p EXCEPT !.openCount = n]
      <4>1. Set(o, e, Closed(ok)) /\ Closed(ok) \in Int /\ Failed(o, ok)
        BY <2>4, <3>3 DEF Close, Closed
      <4>2. /\ p \in Object /\ p.path = d.path /\ p.external = d.external
            /\ p.dirty => p.path \in RamPaths
            /\ ok => p.fd = "none"
        BY <3>1, LinuxCloseClean DEF Good
      <4>3. n = 0
        BY <3>1, <3>3 DEF Object
      <4> HIDE DEF p
      <4>4. /\ e \in Object /\ e.path = p.path /\ e.external = p.external /\ e.fd = p.fd
            /\ e.dirty = p.dirty /\ e.openCount = 0
        BY <4>2, <4>3 DEF Object
      <4>5. /\ mishap \subseteq mishap' /\ mishap' \subseteq Objects
            /\ o \notin mishap' => ok
        BY <2>0, <4>1 DEF Failed
      <4>6. Good(e, o \in mishap')
        BY <4>2, <4>4, <4>5 DEF Good
      <4> HIDE DEF e
      <4> QED BY <2>0, <3>1, <4>1, <4>2, <4>4, <4>5, <4>6, ReplaceObject
    <3> QED BY <3>2, <3>3
  <2>5. ASSUME NEW ok \in BOOLEAN, BeginExternal(o, ok)
        PROVE  IInv'
    <3>1. /\ d \in Object /\ d # NULL /\ ~d.external /\ devices' = devices
          /\ Good(d, o \in mishap)
      BY <2>0, <2>5 DEF BeginExternal, Usable
    <3>2. CASE d.openCount > 0
      <4> DEFINE p == LinuxClose(d, ok)
                 e == [p EXCEPT !.external = TRUE]
      <4>0. Closed(ok) \in Int
        BY DEF Closed
      <4>1. Set(o, e, Closed(ok)) /\ Failed(o, ok)
        BY <2>5, <3>2, Zenon DEF BeginExternal
      <4>2. /\ p \in Object /\ p.path = d.path
            /\ p.dirty => p.path \in RamPaths
            /\ ok => p.fd = "none"
        BY <3>1, LinuxCloseClean DEF Good
      <4> HIDE DEF p
      <4>3. /\ e \in Object /\ e.path = p.path /\ e.external = TRUE /\ e.fd = p.fd
            /\ e.dirty = p.dirty
        BY <4>2 DEF Object
      <4>4. /\ mishap \subseteq mishap' /\ mishap' \subseteq Objects
            /\ o \notin mishap' => ok
        BY <2>0, <4>1 DEF Failed
      <4>5. Good(e, o \in mishap')
        BY <4>2, <4>3, <4>4 DEF Good
      <4> HIDE DEF e
      <4> QED BY <2>0, <3>1, <4>0, <4>1, <4>2, <4>3, <4>4, <4>5, ReplaceObject
    <3>3. CASE ~(d.openCount > 0)
      <4> DEFINE e == [d EXCEPT !.external = TRUE]
      <4>1. Set(o, e, 0) /\ mishap' = mishap
        BY <2>5, <3>3 DEF BeginExternal
      <4>2. /\ e \in Object /\ e.path = d.path /\ e.openCount = d.openCount
            /\ e.dirty = d.dirty /\ e.fd = d.fd /\ e.external = TRUE
        BY <3>1 DEF Object
      <4>3. Good(e, o \in mishap')
        BY <3>1, <3>3, <4>1, <4>2 DEF Good
      <4> HIDE DEF e
      <4> QED BY <2>0, <3>1, <4>1, <4>2, <4>3, ReplaceObject
    <3> QED BY <3>2, <3>3
  <2>6. ASSUME NEW ok \in BOOLEAN, Write(o, ok)
        PROVE  IInv'
    <3> DEFINE e == IF d.readOnly \/ d.fd = "none" THEN d ELSE [d EXCEPT !.dirty = TRUE]
    <3>1. /\ d \in Object /\ d # NULL /\ ~d.external /\ d.openCount > 0
          /\ devices' = devices /\ mishap' = mishap /\ Set(o, e, 0)
          /\ Good(d, o \in mishap)
      BY <2>0, <2>6 DEF Write, Usable
    <3>2. e \in Object /\ e.path = d.path
      BY <3>1 DEF Object
    <3>3. Good(e, o \in mishap')
      BY <3>1, <3>2 DEF Good, Object
    <3> HIDE DEF e
    <3> QED BY <2>0, <3>1, <3>2, <3>3, ReplaceObject
  <2>7. ASSUME NEW ok \in BOOLEAN, Sync(o, ok)
        PROVE  IInv'
    <3> DEFINE e == IF d.readOnly \/ ~ok THEN d ELSE FlushCache(d)
    <3>1. /\ d \in Object /\ d # NULL /\ ~d.external /\ d.openCount > 0
          /\ devices' = devices /\ mishap' = mishap /\ Set(o, e, 0)
          /\ Good(d, o \in mishap)
      BY <2>0, <2>7 DEF Sync, Usable
    <3>2. e \in Object /\ e.path = d.path
      BY <3>1 DEF Object, FlushCache
    <3>3. Good(e, o \in mishap')
      BY <3>1, <3>2 DEF Good, Object, FlushCache
    <3> HIDE DEF e
    <3> QED BY <2>0, <3>1, <3>2, <3>3, ReplaceObject
  <2>8. ASSUME NEW ok \in BOOLEAN, Destroy(o, ok)
        PROVE  IInv'
    <3>1. /\ Unregister(o) /\ dev' = [dev EXCEPT ![o] = NULL]
          /\ held' \in Int /\ mishap \subseteq mishap' /\ mishap' \subseteq Objects
      BY <2>0, <2>8 DEF Destroy, Set, Failed, Closed
    <3> QED BY <3>1, ForgetObject
  <2>9. ASSUME CacheRemove(o)
        PROVE  IInv'
    BY <2>0, <2>9, ForgetObject DEF CacheRemove
  <2> QED BY <2>1, <2>2, <2>3, <2>4, <2>5, <2>6, <2>7, <2>8, <2>9
<1> QED BY <1>1, <1>2

\* The invariant holds in every reachable state.
THEOREM Invariance == Spec => []IInv
PROOF
<1>1. Init => IInv
  BY DEF Init, IInv, TypeOK, PathsAreUnique, AllGood, Listed, Live
<1>2. IInv /\ [Next]_vars => IInv'
  BY NextStep
<1> QED BY <1>1, <1>2, PTL DEF Spec

\* Every record of the device list and every device object is well formed.
THEOREM TypeCorrect == Spec => []TypeOK
  BY Invariance, PTL DEF IInv

\* ped_device_get and the list functions keep cached paths unique, for any
\* number of devices.
THEOREM UniquePaths == Spec => []PathsAreUnique
  BY Invariance, PTL DEF IInv

\* The reference count and external mode decide whether there is a descriptor
\* (ped_device_open, close, begin/end_external_access, destroy).
THEOREM DescriptorSafety == Spec => []DescriptorFollowsCount
PROOF
<1>1. IInv => DescriptorFollowsCount
  BY DEF IInv, AllGood, Good, DescriptorFollowsCount, Live
<1> QED BY <1>1, Invariance, PTL

\* A device that is closed, or in external mode, has no unflushed writes
\* (linux_write, linux_close, _flush_cache), RAM disks excepted.
THEOREM ReleasedClean == Spec => []ReleasedIsClean
PROOF
<1>1. IInv => ReleasedIsClean
  BY DEF IInv, AllGood, Good, ReleasedIsClean, Live
<1> QED BY <1>1, Invariance, PTL
-----------------------------------------------------------------------------
\* The objects that need a descriptor.
Needs(d) == d # NULL /\ d.openCount > 0 /\ ~d.external

InUse == {o \in Objects : Needs(dev[o])}

One(d) == IF Needs(d) THEN 1 ELSE 0

HInv == IsFiniteSet(InUse) /\ (mishap = {} => held = Cardinality(InUse))

\* When one object changes, the number of those in use changes by that object.
LEMMA CountOne ==
  ASSUME IInv, HInv, NEW o \in Objects, NEW d, dev' = [dev EXCEPT ![o] = d],
         mishap \subseteq mishap',
         mishap' = {} => held' = held + One(d) - One(dev[o])
  PROVE  HInv'
PROOF
<1>1. \A x \in Objects : dev'[x] = IF x = o THEN d ELSE dev[x]
  BY DEF IInv, TypeOK
<1>2. IsFiniteSet(InUse) /\ Cardinality(InUse) \in Nat /\ (o \in InUse <=> Needs(dev[o]))
  BY FS_CardinalityType DEF HInv, InUse
<1>3. CASE Needs(d)
  <2>1. InUse' = InUse \cup {o}
    BY <1>1, <1>3 DEF InUse, Needs
  <2>2. /\ IsFiniteSet(InUse')
        /\ Cardinality(InUse') = IF o \in InUse THEN Cardinality(InUse) ELSE Cardinality(InUse) + 1
    BY <1>2, <2>1, FS_AddElement
  <2> QED BY <1>2, <1>3, <2>2 DEF HInv, One
<1>4. CASE ~Needs(d)
  <2>1. InUse' = InUse \ {o}
    BY <1>1, <1>4 DEF InUse, Needs
  <2>2. /\ IsFiniteSet(InUse')
        /\ Cardinality(InUse') = IF o \in InUse THEN Cardinality(InUse) - 1 ELSE Cardinality(InUse)
    BY <1>2, <2>1, FS_RemoveElement
  <2> QED BY <1>2, <1>4, <2>2 DEF HInv, One
<1> QED BY <1>3, <1>4

\* A step that leaves the objects and their descriptors alone.
LEMMA CountNone ==
  ASSUME HInv, UNCHANGED <<dev, held, mishap>>
  PROVE  HInv'
  BY DEF HInv, InUse, Needs

\* Every call opens and closes as many descriptors as it puts objects in and
\* out of use.
LEMMA HeldStep ==
  ASSUME IInv, HInv, [Next]_vars
  PROVE  HInv'
PROOF
<1>1. CASE UNCHANGED vars
  BY <1>1, CountNone DEF vars
<1>2. CASE Next
  <2> PICK o \in Objects :
        \/ \E path \in Paths, closed \in BOOLEAN : Get(path, o, closed)
        \/ \E fd \in Fd : Open(o, fd) \/ EndExternal(o, fd)
        \/ \E ok \in BOOLEAN :
             Close(o, ok) \/ BeginExternal(o, ok) \/ Write(o, ok) \/ Sync(o, ok) \/ Destroy(o, ok)
        \/ CacheRemove(o)
    BY <1>2 DEF Next
  <2> DEFINE d == dev[o]
  <2>0. /\ held \in Int
        /\ d # NULL => d \in Object /\ Good(d, o \in mishap)
        /\ \A e : e \in Object => e # NULL
    BY DeviceAssumption DEF IInv, TypeOK, AllGood
  <2>1. ASSUME NEW path \in Paths, NEW closed \in BOOLEAN, Get(path, o, closed)
        PROVE  HInv'
    <3> DEFINE e == LinuxNew(path, closed)
    <3>1. /\ dev' = [dev EXCEPT ![o] = e] /\ held' = held + 1 + Closed(closed)
          /\ Failed(o, closed) /\ d = NULL
      BY <2>0, <2>1 DEF Get, Set, Closed
    <3>2. ~Needs(e) /\ ~Needs(d)
      BY <3>1 DEF Needs, LinuxNew
    <3> HIDE DEF e
    <3>9. mishap \subseteq mishap' /\ (mishap' = {} => held' = held + One(e) - One(dev[o]))
      BY <2>0, <3>1, <3>2 DEF Failed, Closed, One
    <3> QED BY <3>1, <3>2, <3>9, CountOne
  <2>2. ASSUME NEW fd \in Fd, Open(o, fd)
        PROVE  HInv'
    <3>1. d \in Object /\ d # NULL /\ ~d.external /\ mishap' = mishap
      BY <2>0, <2>2 DEF Open, Usable
    <3>2. CASE d.openCount > 0
      <4> DEFINE e == [d EXCEPT !.openCount = @ + 1]
      <4>0. Set(o, e, 0)
        BY <2>2, <3>2 DEF Open
      <4>1. dev' = [dev EXCEPT ![o] = e] /\ held' = held
        BY <2>0, <4>0 DEF Set
      <4>2. e \in Object /\ e.openCount > 0 /\ ~e.external
        BY <3>1, <3>2 DEF Object
      <4>3. Needs(e) /\ Needs(d)
        BY <2>0, <3>1, <3>2, <4>2 DEF Needs
      <4> HIDE DEF e
      <4>9. mishap \subseteq mishap' /\ (mishap' = {} => held' = held + One(e) - One(dev[o]))
        BY <2>0, <3>1, <4>1, <4>3 DEF One
      <4> QED BY <4>1, <4>9, CountOne
    <3>3. CASE ~(d.openCount > 0)
      <4> DEFINE p == DeviceOpen(d, fd)
                 e == [p EXCEPT !.openCount = Opened(fd)]
      <4>1. dev' = [dev EXCEPT ![o] = e] /\ held' = held + Opened(fd)
        BY <2>2, <3>3, Zenon DEF Open, Set
      <4>2. d.dirty => d.path \in RamPaths
        BY <2>0, <3>1, <3>3 DEF Good
      <4>3. p \in Object /\ p.external = d.external
        BY <3>1, <4>2, DeviceOpenClean
      <4> HIDE DEF p
      <4>4. e \in Object /\ e.external = p.external /\ e.openCount = Opened(fd)
        BY <4>3 DEF Object, Opened
      <4>5. (Needs(e) <=> fd # "none") /\ ~Needs(d)
        BY <2>0, <3>1, <3>3, <4>3, <4>4 DEF Needs, Opened
      <4> HIDE DEF e
      <4>9. mishap \subseteq mishap' /\ (mishap' = {} => held' = held + One(e) - One(dev[o]))
        BY <2>0, <3>1, <4>1, <4>5 DEF One, Opened
      <4> QED BY <4>1, <4>9, CountOne
    <3> QED BY <3>2, <3>3
  <2>3. ASSUME NEW fd \in Fd, EndExternal(o, fd)
        PROVE  HInv'
    <3>1. d \in Object /\ d # NULL /\ d.external
      BY <2>0, <2>3 DEF EndExternal
    <3>2. d.dirty => d.path \in RamPaths
      BY <2>0, <3>1 DEF Good
    <3>3. CASE d.openCount > 0
      <4> DEFINE p == DeviceOpen(d, fd)
                 e == [p EXCEPT !.external = FALSE]
      <4>1. dev' = [dev EXCEPT ![o] = e] /\ held' = held + Opened(fd) /\ Failed(o, fd # "none")
        BY <2>3, <3>3, Zenon DEF EndExternal, Set
      <4>2. p \in Object /\ p.openCount = d.openCount
        BY <3>1, <3>2, DeviceOpenClean
      <4> HIDE DEF p
      <4>3. e \in Object /\ e.external = FALSE /\ e.openCount = p.openCount
        BY <4>2 DEF Object
      <4>4. Needs(e) /\ ~Needs(d)
        BY <2>0, <3>1, <3>3, <4>2, <4>3 DEF Needs
      <4>5. mishap \subseteq mishap' /\ (mishap' = {} => fd # "none")
        BY <4>1 DEF Failed
      <4> HIDE DEF e
      <4>9. mishap \subseteq mishap' /\ (mishap' = {} => held' = held + One(e) - One(dev[o]))
        BY <2>0, <4>1, <4>4, <4>5 DEF One, Opened
      <4> QED BY <4>1, <4>9, CountOne
    <3>4. CASE ~(d.openCount > 0)
      <4> DEFINE e == [d EXCEPT !.external = FALSE]
      <4>0. Set(o, e, 0) /\ mishap' = mishap
        BY <2>3, <3>4 DEF EndExternal
      <4>1. dev' = [dev EXCEPT ![o] = e] /\ held' = held
        BY <2>0, <4>0 DEF Set
      <4>2. e.openCount = d.openCount
        BY <3>1 DEF Object
      <4>3. ~Needs(e) /\ ~Needs(d)
        BY <3>4, <4>2 DEF Needs
      <4> HIDE DEF e
      <4>9. mishap \subseteq mishap' /\ (mishap' = {} => held' = held + One(e) - One(dev[o]))
        BY <2>0, <4>0, <4>1, <4>3 DEF One
      <4> QED BY <4>1, <4>9, CountOne
    <3> QED BY <3>3, <3>4
  <2>4. ASSUME NEW ok \in BOOLEAN, Close(o, ok)
        PROVE  HInv'
    <3>1. /\ d \in Object /\ d # NULL /\ ~d.external /\ d.openCount > 0 /\ Good(d, o \in mishap)
          /\ Needs(d)
      BY <2>0, <2>4 DEF Close, Usable, Needs
    <3> DEFINE n == d.openCount - 1
    <3>2. CASE n > 0
      <4> DEFINE p == IF d.dirty THEN FlushCache(d) ELSE d
                 e == [p EXCEPT !.openCount = n]
      <4>0. Set(o, e, 0) /\ mishap' = mishap
        BY <2>4, <3>2 DEF Close
      <4>1. dev' = [dev EXCEPT ![o] = e] /\ held' = held
        BY <2>0, <4>0 DEF Set
      <4>2. p \in Object /\ p.external = d.external
        BY <3>1 DEF FlushCache, Object
      <4> HIDE DEF p
      <4>3. e \in Object /\ e.external = p.external /\ e.openCount = n
        BY <3>1, <3>2, <4>2 DEF Object
      <4>4. Needs(e)
        BY <2>0, <3>1, <3>2, <4>2, <4>3 DEF Needs
      <4> HIDE DEF e
      <4>9. mishap \subseteq mishap' /\ (mishap' = {} => held' = held + One(e) - One(dev[o]))
        BY <2>0, <3>1, <4>0, <4>1, <4>4 DEF One
      <4> QED BY <4>1, <4>9, CountOne
    <3>3. CASE ~(n > 0)
      <4> DEFINE p == LinuxClose(d, ok)
                 e == [p EXCEPT !.openCount = n]
      <4>1. dev' = [dev EXCEPT ![o] = e] /\ held' = held + Closed(ok) /\ Failed(o, ok)
        BY <2>4, <3>3 DEF Close, Set
      <4>2. p \in Object
        BY <3>1, LinuxCloseClean DEF Good
      <4> HIDE DEF p
      <4>3. e.openCount = n
        BY <4>2 DEF Object
      <4>4. ~Needs(e)
        BY <3>3, <4>3 DEF Needs
      <4>5. mishap \subseteq mishap' /\ (mishap' = {} => ok)
        BY <4>1 DEF Failed
      <4> HIDE DEF e
      <4>9. mishap \subseteq mishap' /\ (mishap' = {} => held' = held + One(e) - One(dev[o]))
        BY <2>0, <3>1, <4>1, <4>4, <4>5 DEF One, Closed
      <4> QED BY <4>1, <4>9, CountOne
    <3> QED BY <3>2, <3>3
  <2>5. ASSUME NEW ok \in BOOLEAN, BeginExternal(o, ok)
        PROVE  HInv'
    <3>1. d \in Object /\ d # NULL /\ ~d.external /\ Good(d, o \in mishap)
      BY <2>0, <2>5 DEF BeginExternal, Usable
    <3>2. CASE d.openCount > 0
      <4> DEFINE p == LinuxClose(d, ok)
                 e == [p EXCEPT !.external = TRUE]
      <4>1. dev' = [dev EXCEPT ![o] = e] /\ held' = held + Closed(ok) /\ Failed(o, ok)
        BY <2>5, <3>2, Zenon DEF BeginExternal, Set
      <4>2. p \in Object
        BY <3>1, LinuxCloseClean DEF Good
      <4> HIDE DEF p
      <4>3. e.external = TRUE
        BY <4>2 DEF Object
      <4>4. ~Needs(e) /\ Needs(d)
        BY <3>1, <3>2, <4>3 DEF Needs
      <4>5. mishap \subseteq mishap' /\ (mishap' = {} => ok)
        BY <4>1 DEF Failed
      <4> HIDE DEF e
      <4>9. mishap \subseteq mishap' /\ (mishap' = {} => held' = held + One(e) - One(dev[o]))
        BY <2>0, <4>1, <4>4, <4>5 DEF One, Closed
      <4> QED BY <4>1, <4>9, CountOne
    <3>3. CASE ~(d.openCount > 0)
      <4> DEFINE e == [d EXCEPT !.external = TRUE]
      <4>0. Set(o, e, 0) /\ mishap' = mishap
        BY <2>5, <3>3 DEF BeginExternal
      <4>1. dev' = [dev EXCEPT ![o] = e] /\ held' = held
        BY <2>0, <4>0 DEF Set
      <4>2. e.external = TRUE
        BY <3>1 DEF Object
      <4>3. ~Needs(e) /\ ~Needs(d)
        BY <3>3, <4>2 DEF Needs
      <4> HIDE DEF e
      <4>9. mishap \subseteq mishap' /\ (mishap' = {} => held' = held + One(e) - One(dev[o]))
        BY <2>0, <4>0, <4>1, <4>3 DEF One
      <4> QED BY <4>1, <4>9, CountOne
    <3> QED BY <3>2, <3>3
  <2>6. ASSUME NEW ok \in BOOLEAN, Write(o, ok) \/ Sync(o, ok)
        PROVE  HInv'
    <3>1. /\ d \in Object /\ ~d.external /\ d.openCount > 0 /\ mishap' = mishap /\ held' = held
          /\ Needs(d)
      BY <2>0, <2>6 DEF Write, Sync, Usable, Set, Needs
    <3>2. PICK e : dev' = [dev EXCEPT ![o] = e] /\ (e = d \/ e = [d EXCEPT !.dirty = TRUE] \/ e = FlushCache(d))
      BY <2>6 DEF Write, Sync, Set
    <3>3. e \in Object /\ e.external = d.external /\ e.openCount = d.openCount
      BY <3>1, <3>2 DEF Object, FlushCache
    <3>4. Needs(e)
      BY <2>0, <3>1, <3>3 DEF Needs
    <3>9. mishap \subseteq mishap' /\ (mishap' = {} => held' = held + One(e) - One(dev[o]))
      BY <2>0, <3>1, <3>2, <3>4 DEF One
    <3> QED BY <3>1, <3>2, <3>9, CountOne
  <2>7. ASSUME NEW ok \in BOOLEAN, Destroy(o, ok)
        PROVE  HInv'
    <3>1. dev' = [dev EXCEPT ![o] = NULL] /\ d # NULL /\ ~Needs(NULL)
      BY <2>7 DEF Destroy, Set, Needs
    <3>2. CASE d.openCount > 0
      <4>1. held' = held + Closed(ok) /\ Failed(o, ok) /\ Needs(d)
        BY <2>7, <3>1, <3>2 DEF Destroy, Set, Needs
      <4>2. mishap \subseteq mishap' /\ (mishap' = {} => ok)
        BY <4>1 DEF Failed
      <4>9. mishap \subseteq mishap' /\ (mishap' = {} => held' = held + One(NULL) - One(dev[o]))
        BY <2>0, <3>1, <4>1, <4>2 DEF One, Closed
      <4> QED BY <3>1, <4>9, CountOne
    <3>3. CASE ~(d.openCount > 0)
      <4>1. held' = held /\ mishap' = mishap /\ ~Needs(d)
        BY <2>0, <2>7, <3>3 DEF Destroy, Set, Needs
      <4>9. mishap \subseteq mishap' /\ (mishap' = {} => held' = held + One(NULL) - One(dev[o]))
        BY <2>0, <3>1, <4>1 DEF One
      <4> QED BY <3>1, <4>9, CountOne
    <3> QED BY <3>2, <3>3
  <2>8. ASSUME CacheRemove(o)
        PROVE  HInv'
    BY <2>8, CountNone DEF CacheRemove
  <2> QED BY <2>1, <2>2, <2>3, <2>4, <2>5, <2>6, <2>7, <2>8
<1> QED BY <1>1, <1>2

\* As long as nothing failed, the process has one descriptor open for every
\* device in use, for any number of devices and nested opens.
THEOREM DescriptorsConserved == Spec => []NoDescriptorIsLost
PROOF
<1>1. Init => HInv
  <2> SUFFICES ASSUME Init PROVE HInv
    OBVIOUS
  <2>1. InUse = {} /\ held = 0
    BY DEF Init, InUse, Needs
  <2> QED BY <2>1, FS_EmptySet DEF HInv
<1>2. IInv /\ HInv /\ [Next]_vars => HInv'
  BY HeldStep
<1>3. HInv => NoDescriptorIsLost
  <2>1. {o \in Live : dev[o].openCount > 0 /\ ~dev[o].external} = InUse
    BY DEF Live, InUse, Needs
  <2> QED BY <2>1 DEF HInv, NoDescriptorIsLost
<1> QED BY <1>1, <1>2, <1>3, Invariance, PTL DEF Spec
=============================================================================
