---------------------------- MODULE CallsProofs ----------------------------
(***************************************************************************)
(* Proofs about Calls: ex_fetch_count and open_count are the numbers of    *)
(* calls inside, for every number of label and file system types, however  *)
(* deep the calls nest.                                                    *)
(***************************************************************************)
EXTENDS Calls, FiniteSetTheorems, TLAPS

Pcs == {"start", "probe", "end", "probed", "read", "got", "geometry", "ask", "loaded",
        "write", "add", "added", "anywhere", "pass", "found", "commit"}

Frames == [fn : Functions, pc : Pcs, walk : Int]

Weight(fn, p, where) == IF p \in where[fn] THEN 1 ELSE 0

InsideOf(s, where) == {n \in DOMAIN s : s[n].pc \in where[s[n].fn]}

Count(s, where) == Cardinality(InsideOf(s, where))

TypeOK ==
  /\ stack \in Seq(Frames)
  /\ fetched \in Int /\ opens \in Int
  /\ pc \in {"gone", "retry", "scan", "search", "done"}

(***************************************************************************)
(* The inductive form of CallsAreBalanced: a region is checked only while  *)
(* no other call is in progress.                                           *)
(***************************************************************************)
BInv ==
  /\ TypeOK
  /\ stack # <<>> => ~Checking
  /\ fetched = Count(stack, Fetching) + (IF pc \in {"scan", "search"} THEN 1 ELSE 0)
  /\ opens = Count(stack, Holding)
-----------------------------------------------------------------------------
(***************************************************************************)
(* The calls inside are finitely many.                                     *)
(***************************************************************************)
LEMMA CountType ==
  ASSUME NEW s \in Seq(Frames), NEW where
  PROVE  IsFiniteSet(InsideOf(s, where)) /\ Count(s, where) \in Nat
<1>1. DOMAIN s = 1 .. Len(s) /\ Len(s) \in Nat
  OBVIOUS
<1>2. IsFiniteSet(DOMAIN s)
  BY <1>1, FS_Interval
<1>3. InsideOf(s, where) \in SUBSET DOMAIN s
  BY DEF InsideOf
<1>. QED
  BY <1>2, <1>3, FS_Subset, FS_CardinalityType DEF Count

(***************************************************************************)
(* A call on top of others adds one if it is inside itself.                *)
(***************************************************************************)
LEMMA PushCount ==
  ASSUME NEW f \in Frames, NEW t \in Seq(Frames), NEW where
  PROVE  /\ <<f>> \o t \in Seq(Frames)
         /\ Count(<<f>> \o t, where) = Count(t, where) + Weight(f.fn, f.pc, where)
<1>. DEFINE s == <<f>> \o t
            A == InsideOf(t, where)
            B == {n \in InsideOf(s, where) : n # 1}
            b == [n \in A |-> n + 1]
<1>1. /\ s \in Seq(Frames) /\ DOMAIN s = 1 .. Len(t) + 1
      /\ DOMAIN t = 1 .. Len(t) /\ Len(t) \in Nat
      /\ s[1] = f /\ \A n \in 1 .. Len(t) : s[n + 1] = t[n]
  OBVIOUS
<1>. HIDE DEF s
<1>2. \A n \in A : n + 1 \in B
  BY <1>1 DEF InsideOf
<1>3. \A m \in B : m - 1 \in A /\ m = (m - 1) + 1
  BY <1>1 DEF InsideOf
<1>4. A \subseteq Int
  BY <1>1 DEF InsideOf
<1>5. b \in [A -> B] /\ \A x, y \in A : b[x] = b[y] => x = y
  BY <1>2, <1>4
<1>6. \A m \in B : \E n \in A : b[n] = m
  BY <1>3
<1>7. b \in Bijection(A, B)
  BY <1>5, <1>6 DEF Bijection, Injection, Surjection, IsInjective
<1>8. ExistsBijection(A, B)
  BY <1>7 DEF ExistsBijection
<1>9. IsFiniteSet(B) /\ Cardinality(B) = Cardinality(A)
  BY <1>8, CountType, FS_Bijection
<1>10. CASE f.pc \in where[f.fn]
  <2>1. InsideOf(s, where) = B \cup {1} /\ 1 \notin B
    BY <1>1, <1>10 DEF InsideOf
  <2>2. Cardinality(InsideOf(s, where)) = Cardinality(B) + 1
    BY <2>1, <1>9, FS_AddElement
  <2>. QED
    BY <2>2, <1>1, <1>9, <1>10 DEF Count, Weight, s
<1>11. CASE f.pc \notin where[f.fn]
  <2>1. InsideOf(s, where) = B
    BY <1>1, <1>11 DEF InsideOf
  <2>2. Count(t, where) \in Nat
    BY CountType
  <2>3. Count(s, where) = Count(t, where)
    BY <2>1, <1>9 DEF Count
  <2>4. Weight(f.fn, f.pc, where) = 0
    BY <1>11 DEF Weight
  <2>. QED
    BY <2>2, <2>3, <2>4, <1>1 DEF s
<1>. QED
  BY <1>10, <1>11

(***************************************************************************)
(* A function that starts has neither fetched nor opened.                  *)
(***************************************************************************)
LEMMA StartsOutside ==
  ASSUME NEW fn \in Functions
  PROVE  /\ Frame(fn) \in Frames
         /\ Weight(fn, "start", Fetching) = 0 /\ Weight(fn, "start", Holding) = 0
<1>1. Frame(fn) \in Frames
  BY DEF Frame, Frames, Pcs
<1>2. "start" \notin Fetching[fn] /\ "start" \notin Holding[fn]
  BY DEF Functions, Fetching, Holding
<1>. QED
  BY <1>1, <1>2 DEF Weight

(***************************************************************************)
(* The call on top, taken off and put back at p.                           *)
(***************************************************************************)
LEMMA TopCount ==
  ASSUME TypeOK, stack # <<>>, NEW where
  PROVE  /\ Top \in Frames /\ Tail(stack) \in Seq(Frames)
         /\ Count(Tail(stack), where) \in Nat
         /\ Count(stack, where) = Count(Tail(stack), where) + Weight(Top.fn, Top.pc, where)
<1>1. Top \in Frames /\ Tail(stack) \in Seq(Frames) /\ stack = <<Top>> \o Tail(stack)
  BY DEF TypeOK, Top
<1>. QED
  BY <1>1, PushCount, CountType

(***************************************************************************)
(* The call on top goes on: Goto, Step.                                    *)
(***************************************************************************)
LEMMA MoveCount ==
  ASSUME TypeOK, stack # <<>>, NEW where,
         NEW f \in Frames, f.fn = Top.fn, stack' = <<f>> \o Tail(stack)
  PROVE  /\ stack' \in Seq(Frames)
         /\ Count(stack', where) = Count(stack, where) - Weight(Top.fn, Top.pc, where)
                                                       + Weight(Top.fn, f.pc, where)
<1>1. /\ Count(stack, where) = Count(Tail(stack), where) + Weight(Top.fn, Top.pc, where)
      /\ Tail(stack) \in Seq(Frames) /\ Count(Tail(stack), where) \in Nat
  BY TopCount
<1>2. /\ <<f>> \o Tail(stack) \in Seq(Frames)
      /\ Count(<<f>> \o Tail(stack), where) = Count(Tail(stack), where) + Weight(f.fn, f.pc, where)
  BY <1>1, PushCount
<1>3. \A fn, p : Weight(fn, p, where) \in Int
  BY DEF Weight
<1>. QED
  BY <1>1, <1>2, <1>3

(***************************************************************************)
(* The call on top calls another one: Call, and the read of a label.       *)
(***************************************************************************)
LEMMA CallCount ==
  ASSUME TypeOK, stack # <<>>, NEW where \in {Fetching, Holding}, NEW fn \in Functions,
         NEW f \in Frames, f.fn = Top.fn, stack' = <<Frame(fn), f>> \o Tail(stack)
  PROVE  /\ stack' \in Seq(Frames)
         /\ Count(stack', where) = Count(stack, where) - Weight(Top.fn, Top.pc, where)
                                                       + Weight(Top.fn, f.pc, where)
<1>1. /\ Count(stack, where) = Count(Tail(stack), where) + Weight(Top.fn, Top.pc, where)
      /\ Tail(stack) \in Seq(Frames) /\ Count(Tail(stack), where) \in Nat
  BY TopCount
<1>. DEFINE u == <<f>> \o Tail(stack)
<1>2. /\ u \in Seq(Frames)
      /\ Count(u, where) = Count(Tail(stack), where) + Weight(f.fn, f.pc, where)
  BY <1>1, PushCount
<1>3. Frame(fn) \in Frames /\ Frame(fn).fn = fn /\ Frame(fn).pc = "start"
  BY StartsOutside DEF Frame
<1>4. stack' = <<Frame(fn)>> \o u
  BY <1>1, <1>3
<1>. HIDE DEF u
<1>5. /\ stack' \in Seq(Frames)
      /\ Count(stack', where) = Count(u, where) + Weight(fn, "start", where)
  BY <1>2, <1>3, <1>4, PushCount
<1>6. \A g, p : Weight(g, p, where) \in Int
  BY DEF Weight
<1>7. Weight(fn, "start", where) = 0
  BY StartsOutside
<1>. QED
  BY <1>1, <1>2, <1>5, <1>6, <1>7

(***************************************************************************)
(* The call on top ends.                                                   *)
(***************************************************************************)
LEMMA ReturnCount ==
  ASSUME TypeOK, stack # <<>>, NEW where, stack' = Tail(stack)
  PROVE  /\ stack' \in Seq(Frames)
         /\ Count(stack', where) = Count(stack, where) - Weight(Top.fn, Top.pc, where)
<1>1. \A g, p : Weight(g, p, where) \in Int
  BY DEF Weight
<1>. QED
  BY <1>1, TopCount
-----------------------------------------------------------------------------
\* What a step of the call on top adds when the call comes from its pc to p.
Gain(p, where) == Weight(Top.fn, p, where) - Weight(Top.fn, Top.pc, where)

Loss(where) == Weight(Top.fn, Top.pc, where)

(***************************************************************************)
(* BInv after a step that counts what it did.                              *)
(***************************************************************************)
LEMMA Counted ==
  ASSUME BInv, stack # <<>>, UNCHANGED pc, stack' \in Seq(Frames),
         fetched' = Count(stack', Fetching), opens' = Count(stack', Holding)
  PROVE  BInv'
<1>1. pc \notin {"retry", "scan", "search"}
  BY DEF BInv, Checking
<1>2. Count(stack', Fetching) \in Nat /\ Count(stack', Holding) \in Nat
  BY CountType
<1>3. TypeOK'
  BY <1>2 DEF BInv, TypeOK
<1>4. fetched' = Count(stack', Fetching) + (IF pc' \in {"scan", "search"} THEN 1 ELSE 0)
  BY <1>1, <1>2
<1>. QED
  BY <1>1, <1>3, <1>4 DEF BInv, Checking

(***************************************************************************)
(* The counts before a step of a call.                                     *)
(***************************************************************************)
LEMMA Before ==
  ASSUME BInv, stack # <<>>
  PROVE  /\ TypeOK /\ Top \in Frames
         /\ fetched = Count(stack, Fetching) /\ opens = Count(stack, Holding)
         /\ fetched \in Nat /\ opens \in Nat
         /\ \A fn, p : Weight(fn, p, Fetching) \in Int /\ Weight(fn, p, Holding) \in Int
<1>1. pc \notin {"retry", "scan", "search"}
  BY DEF BInv, Checking
<1>2. Count(stack, Fetching) \in Nat /\ Count(stack, Holding) \in Nat
  BY CountType DEF BInv, TypeOK
<1>3. fetched = Count(stack, Fetching) /\ opens = Count(stack, Holding)
  BY <1>1, <1>2 DEF BInv
<1>4. TypeOK /\ Top \in Frames
  BY TopCount DEF BInv
<1>5. \A fn, p : Weight(fn, p, Fetching) \in Int /\ Weight(fn, p, Holding) \in Int
  BY DEF Weight
<1>. QED
  BY <1>2, <1>3, <1>4, <1>5

(***************************************************************************)
(* A call goes on, and the counters follow it.                             *)
(***************************************************************************)
LEMMA GoesOn ==
  ASSUME BInv, stack # <<>>, UNCHANGED pc, NEW p \in Pcs, Goto(p) \/ Step(p),
         fetched' = fetched + Gain(p, Fetching), opens' = opens + Gain(p, Holding)
  PROVE  BInv'
<1>1. PICK f \in Frames : f.fn = Top.fn /\ f.pc = p /\ stack' = <<f>> \o Tail(stack)
  <2>1. CASE Goto(p)
    <3>1. [Top EXCEPT !.pc = p] \in Frames
      BY Before DEF Frames
    <3>. QED
      BY <2>1, <3>1, Before DEF Goto, Frames
  <2>2. CASE Step(p)
    <3>1. Top \in Frames /\ Top.walk + 1 \in Int
      BY Before DEF Frames
    <3>2. PICK w \in Int : w = Top.walk + 1
      BY <3>1
    <3>3. stack' = <<[Top EXCEPT !.pc = p, !.walk = w]>> \o Tail(stack)
      BY <2>2, <3>2 DEF Step
    <3>4. [Top EXCEPT !.pc = p, !.walk = w] \in Frames
      BY <3>1 DEF Frames
    <3>. QED
      BY <3>1, <3>3, <3>4 DEF Frames
  <2>. QED
    BY <2>1, <2>2
<1>3. TypeOK
  BY Before
<1>4. /\ stack' \in Seq(Frames)
      /\ Count(stack', Fetching) = Count(stack, Fetching) - Weight(Top.fn, Top.pc, Fetching)
                                                          + Weight(Top.fn, p, Fetching)
      /\ Count(stack', Holding) = Count(stack, Holding) - Weight(Top.fn, Top.pc, Holding)
                                                        + Weight(Top.fn, p, Holding)
  BY <1>1, <1>3, MoveCount
<1>5. fetched' = Count(stack', Fetching) /\ opens' = Count(stack', Holding)
  BY <1>4, Before DEF Gain
<1>. QED
  BY <1>4, <1>5, Counted

(***************************************************************************)
(* The same when it calls another one.                                     *)
(***************************************************************************)
LEMMA CallsAnother ==
  ASSUME BInv, stack # <<>>, UNCHANGED pc, NEW p \in Pcs, NEW fn \in Functions, Call(fn, p),
         fetched' = fetched + Gain(p, Fetching), opens' = opens + Gain(p, Holding)
  PROVE  BInv'
<1>. DEFINE f == [Top EXCEPT !.pc = p]
<1>1. f \in Frames /\ f.fn = Top.fn /\ f.pc = p
  BY Before DEF Frames
<1>2. stack' = <<Frame(fn), f>> \o Tail(stack)
  BY DEF Call
<1>. HIDE DEF f
<1>3. TypeOK
  BY Before
<1>4. /\ stack' \in Seq(Frames)
      /\ Count(stack', Fetching) = Count(stack, Fetching) - Weight(Top.fn, Top.pc, Fetching)
                                                          + Weight(Top.fn, p, Fetching)
      /\ Count(stack', Holding) = Count(stack, Holding) - Weight(Top.fn, Top.pc, Holding)
                                                        + Weight(Top.fn, p, Holding)
  BY <1>1, <1>2, <1>3, CallCount
<1>5. fetched' = Count(stack', Fetching) /\ opens' = Count(stack', Holding)
  BY <1>4, Before DEF Gain
<1>. QED
  BY <1>4, <1>5, Counted

(***************************************************************************)
(* The same when it returns.                                               *)
(***************************************************************************)
LEMMA Ends ==
  ASSUME BInv, stack # <<>>, UNCHANGED pc, stack' = Tail(stack),
         fetched' = fetched - Loss(Fetching), opens' = opens - Loss(Holding)
  PROVE  BInv'
<1>. QED
  BY Before, ReturnCount, Counted DEF Loss
-----------------------------------------------------------------------------
(***************************************************************************)
(* Every step of a call keeps the counts, one action at a time.            *)
(***************************************************************************)
LEMMA ContinueStep ==
  ASSUME BInv, Continue, ~GeometryCheck
  PROVE  BInv'
<1>1. CASE DiskProbeOpens
  BY <1>1, Before, GoesOn, Ends
     DEF DiskProbeOpens, At, Quiet, Fetch, Opened, Gain, Loss, Return, Weight, Fetching, Holding, Pcs
<1>2. CASE DiskProbeAsks
  BY <1>2, Before, GoesOn, CallsAnother
     DEF DiskProbeAsks, At, Quiet, Gain, Weight, Fetching, Holding, Pcs, Functions
<1>3. CASE DiskProbeEnds
  BY <1>3, Before, Ends
     DEF DiskProbeEnds, At, Quiet, Leave, Closed, Loss, Return, Weight, Fetching, Holding
<1>4. CASE DiskNewOpens
  BY <1>4, Before, CallsAnother, Ends
     DEF DiskNewOpens, At, Quiet, Opened, Gain, Loss, Return, Weight, Fetching, Holding, Pcs, Functions
<1>5. CASE DiskNewProbed
  BY <1>5, Before, GoesOn, Ends
     DEF DiskNewProbed, At, Quiet, Closed, Gain, Loss, Return, Weight, Fetching, Holding, Pcs
<1>6. CASE DiskNewReads
  <2>1. /\ stack # <<>> /\ Top.fn = "disk_new" /\ Top.pc = "read"
        /\ UNCHANGED <<fetched, pc>>
    BY <1>6 DEF DiskNewReads, At, Quiet
  <2>2. CASE \E ok \in BOOLEAN : Return(ok) /\ Closed
    BY <2>1, <2>2, Before, Ends DEF Return, Closed, Loss, Weight, Fetching, Holding
  <2>3. CASE /\ stack' = <<Frame("fs_probe"), [Top EXCEPT !.walk = @ + 1]>> \o Tail(stack)
             /\ UNCHANGED opens
    <3>1. Top \in Frames /\ Top.walk + 1 \in Int
      BY <2>1, Before DEF Frames
    <3>2. PICK w \in Int : w = Top.walk + 1
      BY <3>1
    <3>. DEFINE f == [Top EXCEPT !.walk = w]
    <3>3. f \in Frames /\ f.fn = Top.fn /\ f.pc = Top.pc
      BY <3>1 DEF Frames
    <3>4. stack' = <<Frame("fs_probe"), f>> \o Tail(stack)
      BY <2>3, <3>2
    <3>. HIDE DEF f
    <3>5. TypeOK /\ "fs_probe" \in Functions
      BY <2>1, Before DEF Functions
    <3>6. /\ stack' \in Seq(Frames)
          /\ Count(stack', Fetching) = Count(stack, Fetching) - Weight(Top.fn, Top.pc, Fetching)
                                                              + Weight(Top.fn, Top.pc, Fetching)
          /\ Count(stack', Holding) = Count(stack, Holding) - Weight(Top.fn, Top.pc, Holding)
                                                            + Weight(Top.fn, Top.pc, Holding)
      BY <2>1, <3>3, <3>4, <3>5, CallCount
    <3>7. fetched' = Count(stack', Fetching) /\ opens' = Count(stack', Holding)
      BY <2>1, <2>3, <3>6, Before
    <3>. QED
      BY <2>1, <3>6, <3>7, Counted
  <2>. QED
    BY <1>6, <2>2, <2>3 DEF DiskNewReads
<1>7. CASE FsProbeOpens
  BY <1>7, Before, GoesOn, Ends
     DEF FsProbeOpens, At, Quiet, Fetch, Opened, Gain, Loss, Return, Weight, Fetching, Holding, Pcs
<1>8. CASE FsProbeAsks
  BY <1>8, Before, GoesOn
     DEF FsProbeAsks, At, Quiet, Gain, Weight, Fetching, Holding, Pcs
<1>9. CASE FsProbeEnds
  BY <1>9, Before, Ends
     DEF FsProbeEnds, At, Quiet, Leave, Closed, Loss, Return, Weight, Fetching, Holding
<1>10. CASE DeviceProbeGets
  BY <1>10, Before, CallsAnother
     DEF DeviceProbeGets, At, Quiet, Fetch, Gain, Weight, Fetching, Holding, Pcs, Functions
<1>11. CASE DeviceProbeEnds
  BY <1>11, Before, Ends
     DEF DeviceProbeEnds, At, Quiet, Leave, Loss, Return, Weight, Fetching, Holding
<1>12. CASE InitGenericOpens
  BY <1>12, Before, GoesOn, Ends
     DEF InitGenericOpens, At, Quiet, Fetch, Gain, Loss, Return, Weight, Fetching, Holding, Pcs
<1>13. CASE InitGenericProbes
  BY <1>13, Before, GoesOn, Ends
     DEF InitGenericProbes, At, Quiet, Leave, Gain, Loss, Return, Weight, Fetching, Holding, Pcs
<1>14. CASE InitGenericAsks
  BY <1>14, Before, Ends
     DEF InitGenericAsks, At, Quiet, Loss, Return, Weight, Fetching, Holding
<1>15. CASE MklabelLoads
  BY <1>15, Before, GoesOn, CallsAnother
     DEF MklabelLoads, At, Quiet, Fetch, Gain, Weight, Fetching, Holding, Pcs, Functions
<1>16. CASE MklabelLoaded
  BY <1>16, Before, GoesOn
     DEF MklabelLoaded, At, Quiet, Leave, Gain, Weight, Fetching, Holding, Pcs
<1>17. CASE CommandEnds
  BY <1>17, Before, Ends
     DEF CommandEnds, At, Quiet, Loss, Return, Weight, Fetching, Holding
<1>18. CASE MkpartFetches
  BY <1>18, Before, GoesOn, Ends
     DEF MkpartFetches, At, Quiet, Fetch, Gain, Loss, Return, Weight, Fetching, Holding, Pcs
<1>19. CASE MkpartAdds
  BY <1>19, Before, GoesOn
     DEF MkpartAdds, At, Quiet, Gain, Weight, Fetching, Holding, Pcs
<1>20. CASE MkpartAdded
  BY <1>20, Before, GoesOn
     DEF MkpartAdded, At, Quiet, Leave, Gain, Weight, Fetching, Holding, Pcs
<1>21. CASE MkpartAnywhere
  BY <1>21, Before, GoesOn, Ends
     DEF MkpartAnywhere, At, Quiet, Gain, Loss, Return, Weight, Fetching, Holding, Pcs
<1>22. CASE RescueOpens
  BY <1>22, Before, CallsAnother
     DEF RescueOpens, At, Quiet, Gain, Weight, Fetching, Holding, Pcs, Functions
<1>23. CASE RescueLoaded
  BY <1>23, Before, GoesOn, Ends
     DEF RescueLoaded, At, Quiet, Gain, Loss, Return, Weight, Fetching, Holding, Pcs
<1>24. CASE RescueFetches
  BY <1>24, Before, GoesOn, Ends
     DEF RescueFetches, At, Quiet, Fetch, Gain, Loss, Return, Weight, Fetching, Holding, Pcs
<1>25. CASE RescueAdds
  BY <1>25, Before, GoesOn, CallsAnother
     DEF RescueAdds, At, Quiet, Leave, Gain, Weight, Fetching, Holding, Pcs, Functions
<1>26. CASE RescueFound
  BY <1>26, Before, GoesOn, Ends
     DEF RescueFound, At, Quiet, Gain, Loss, Return, Weight, Fetching, Holding, Pcs
<1>27. CASE PartprobeOpens
  BY <1>27, Before, CallsAnother, Ends
     DEF PartprobeOpens, At, Quiet, Opened, Gain, Loss, Return, Weight, Fetching, Holding, Pcs, Functions
<1>28. CASE PartprobeProbed
  BY <1>28, Before, GoesOn, CallsAnother
     DEF PartprobeProbed, At, Quiet, Gain, Weight, Fetching, Holding, Pcs, Functions
<1>29. CASE PartprobeLoaded
  BY <1>29, Before, GoesOn, Ends
     DEF PartprobeLoaded, At, Quiet, Closed, Gain, Loss, Return, Weight, Fetching, Holding, Pcs
<1>30. CASE PartprobeEnds
  BY <1>30, Before, Ends
     DEF PartprobeEnds, At, Quiet, Closed, Loss, Return, Weight, Fetching, Holding
<1>. QED
  BY <1>1, <1>2, <1>3, <1>4, <1>5, <1>6, <1>7, <1>8, <1>9, <1>10, <1>11, <1>12, <1>13, <1>14, <1>15, <1>16, <1>17, <1>18, <1>19, <1>20, <1>21, <1>22, <1>23, <1>24, <1>25, <1>26, <1>27, <1>28, <1>29, <1>30 DEF Continue

(***************************************************************************)
(* ped_geometry_check counts itself: it fetches once a pass and leaves     *)
(* before it returns or starts over.                                       *)
(***************************************************************************)
LEMMA CheckStep ==
  ASSUME BInv, GeometryCheck
  PROVE  BInv'
<1>1. stack = <<>> /\ UNCHANGED <<stack, opens>>
  BY DEF BInv, GeometryCheck
<1>2. Count(stack, Fetching) \in Nat
  BY CountType DEF BInv, TypeOK
<1>3. /\ pc' \in {"retry", "scan", "search", "done"}
      /\ fetched' = Count(stack, Fetching) + (IF pc' \in {"scan", "search"} THEN 1 ELSE 0)
  <2>1. fetched = Count(stack, Fetching) + (IF pc \in {"scan", "search"} THEN 1 ELSE 0)
    BY DEF BInv
  <2>2. Next
    BY DEF GeometryCheck
  <2>. QED
    BY <1>2, <2>1, <2>2
       DEF Next, Retry, ReadGroup, GroupFails, NoError, ReadGranule, GranuleFails, SearchAgain
<1>. QED
  BY <1>1, <1>2, <1>3 DEF BInv, TypeOK

(***************************************************************************)
(* A call that starts is not inside yet.                                   *)
(***************************************************************************)
LEMMA StartStep ==
  ASSUME BInv, Start \/ StartCheck
  PROVE  BInv'
<1>1. stack = <<>> /\ pc \notin {"retry", "scan", "search"} /\ UNCHANGED <<fetched, opens>>
  BY DEF Start, StartCheck, Idle, Checking, callVars
<1>2. stack \in Seq(Frames) /\ Count(stack, Fetching) \in Nat /\ Count(stack, Holding) \in Nat
  BY CountType DEF BInv, TypeOK
<1>3. fetched = Count(stack, Fetching) /\ opens = Count(stack, Holding)
  BY <1>1, <1>2 DEF BInv
<1>4. CASE StartCheck
  BY <1>1, <1>2, <1>3, <1>4 DEF BInv, TypeOK, StartCheck, callVars
<1>5. CASE Start
  <2>1. PICK fn \in Functions : stack' = <<Frame(fn)>>
    BY <1>5 DEF Start
  <2>2. Frame(fn) \in Frames /\ Frame(fn).fn = fn /\ Frame(fn).pc = "start"
    BY StartsOutside DEF Frame
  <2>3. stack' = <<Frame(fn)>> \o stack
    BY <1>1, <2>1, <2>2
  <2>4. /\ stack' \in Seq(Frames)
        /\ Count(stack', Fetching) = Count(stack, Fetching) + Weight(fn, "start", Fetching)
        /\ Count(stack', Holding) = Count(stack, Holding) + Weight(fn, "start", Holding)
    BY <1>2, <2>2, <2>3, PushCount
  <2>5. fetched' = Count(stack', Fetching) /\ opens' = Count(stack', Holding)
    BY <1>1, <1>2, <1>3, <2>4, StartsOutside
  <2>6. pc' = "gone"
    BY <1>5 DEF Start
  <2>7. fetched' \in Nat /\ opens' \in Nat
    BY <1>1, <1>2, <1>3
  <2>. QED
    BY <2>4, <2>5, <2>6, <2>7 DEF BInv, TypeOK, Checking
<1>. QED
  BY <1>4, <1>5

(***************************************************************************)
(* At first no call is in progress.                                        *)
(***************************************************************************)
LEMMA InitCounts == CallsInit => BInv
<1>1. SUFFICES ASSUME CallsInit PROVE BInv
  OBVIOUS
<1>2. stack = <<>> /\ stack \in Seq(Frames) /\ fetched = 0 /\ opens = 0 /\ pc = "gone"
  BY <1>1 DEF CallsInit
<1>3. InsideOf(stack, Fetching) = {} /\ InsideOf(stack, Holding) = {}
  BY <1>2 DEF InsideOf
<1>4. Count(stack, Fetching) = 0 /\ Count(stack, Holding) = 0
  BY <1>3, FS_EmptySet DEF Count
<1>. QED
  BY <1>2, <1>4 DEF BInv, TypeOK, Checking

(***************************************************************************)
(* The functions that fetch exceptions or open the device give both back   *)
(* on every path, whatever the numbers of types, partitions and retries.   *)
(***************************************************************************)
THEOREM Balance == CallsSpec => []CallsAreBalanced
<1>1. BInv /\ [CallsNext]_allVars => BInv'
  <2>1. SUFFICES ASSUME BInv, [CallsNext]_allVars PROVE BInv'
    OBVIOUS
  <2>2. CASE UNCHANGED allVars
    BY <2>1, <2>2 DEF allVars, callVars, vars, BInv, TypeOK, Checking, Count, InsideOf
  <2>3. CASE Continue
    BY <2>1, <2>3, ContinueStep, CheckStep
  <2>4. CASE Start \/ StartCheck
    BY <2>1, <2>4, StartStep
  <2>. QED
    BY <2>1, <2>2, <2>3, <2>4 DEF CallsNext
<1>2. BInv => CallsAreBalanced
  BY DEF BInv, CallsAreBalanced, Count, InsideOf, Inside
<1>. QED
  BY InitCounts, <1>1, <1>2, PTL DEF CallsSpec
-----------------------------------------------------------------------------
(***************************************************************************)
(* ped_geometry_check by itself: what the scan and the search have passed  *)
(* holds no bad sector, and a search that no glitch began has one ahead.   *)
(***************************************************************************)
GInv ==
  /\ bad \subseteq Region /\ glitches \in Nat /\ group \in Int /\ i \in Int /\ group >= offset
  /\ pc \in {"retry", "scan", "search", "done"}
  /\ pc = "scan" => \A s \in bad : s >= group
  /\ pc = "search" => i >= group /\ (\A s \in bad : s >= i) /\ (glitches = 0 => bad # {})
  /\ AnswerIsFirstBad

(***************************************************************************)
(* The answer of ped_geometry_check is the first bad granule, for every    *)
(* region, buffer and granularity; that it gives one is another matter.    *)
(***************************************************************************)
THEOREM FirstBad == Spec => []AnswerIsFirstBad
<1>. USE CheckAssumption DEF AnswerIsFirstBad
<1>1. Init => GInv
  BY DEF Init, GInv
<1>2. GInv /\ [Next]_vars => GInv'
  <2>. SUFFICES ASSUME GInv, [Next]_vars PROVE GInv'
    OBVIOUS
  <2>0. /\ offset \in Nat /\ count \in Nat /\ Length \in Nat /\ buffer_size \in Nat
        /\ granularity \in Nat /\ granularity > 0 /\ buffer_size > 0 /\ count > 0
        /\ \A s \in bad : s \in Int /\ s >= offset /\ s < offset + count
    BY DEF GInv, Region, Sectors
  <2>1. CASE Retry
    BY <2>0, <2>1 DEF GInv, Retry
  <2>2. CASE ReadGroup
    <3>1. \A s \in bad : s >= group + ReadLen
      BY <2>0, <2>2 DEF GInv, ReadGroup, Readable, Sectors, ReadLen
    <3>2. \A s \in bad : s >= group + buffer_size
      BY <2>0, <3>1 DEF GInv, ReadLen
    <3>. QED
      BY <2>0, <2>2, <3>2 DEF GInv, ReadGroup
  <2>3. CASE GroupFails
    <3>1. ~Readable(group, ReadLen) => bad # {}
      BY <2>0, <2>3 DEF GInv, GroupFails, Readable, ReadLen
    <3>. QED
      BY <2>0, <2>3, <3>1 DEF GInv, GroupFails
  <2>4. CASE NoError
    <3>1. bad = {}
      BY <2>0, <2>4 DEF GInv, NoError
    <3>. QED
      BY <2>0, <2>4, <3>1 DEF GInv, NoError
  <2>5. CASE ReadGranule
    BY <2>0, <2>5 DEF GInv, ReadGranule, Readable, Sectors
  <2>6. CASE GranuleFails
    <3>1. glitches = 0 => Sectors(i, granularity) \cap bad # {}
      BY <2>0, <2>6 DEF GInv, GranuleFails, Readable, Sectors
    <3>. QED
      BY <2>0, <2>6, <3>1 DEF GInv, GranuleFails
  <2>7. CASE SearchAgain
    BY <2>0, <2>7 DEF GInv, SearchAgain
  <2>8. CASE UNCHANGED vars
    BY <2>8 DEF GInv, vars
  <2>. QED
    BY <2>1, <2>2, <2>3, <2>4, <2>5, <2>6, <2>7, <2>8 DEF Next
<1>3. GInv => AnswerIsFirstBad
  BY DEF GInv
<1>. QED
  BY <1>1, <1>2, <1>3, PTL DEF Spec
=============================================================================
