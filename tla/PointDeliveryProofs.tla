-------------------------- MODULE PointDeliveryProofs --------------------------
(* Safety of the delivery of frames, for any number of lidars and any size of *)
(* their rings: nothing overfills, the semaphore stays binary, and no wake-up *)
(* of the poll thread is lost.                                                *)
EXTENDS PointDelivery, TLAPS

-----------------------------------------------------------------------------
(* The inductive invariant                                                   *)

\* The poll thread's loop variable names a lidar while it is at one.
AtLidar == cons \in {"poll", "publish"} => i \in Lidar

\* The processing thread signals only a semaphore it found at 0, and nobody
\* else raises it; doing so it wakes the poll thread.
CountKept ==
    /\ count \in {0, 1}
    /\ prod = "signal" \/ cons = "asleep" => count = 0

\* What will make the poll thread look at ring l, or why it need not: a count
\* that it has not taken, the processing thread on its way to the semaphore,
\* its own scan if that has not passed l, or an exit request it cannot miss.
WillLook(l) ==
    \/ count > 0
    \/ prod = "signal"
    \/ prod \in {"push", "pushed", "test"} /\ target = l
    \/ cons \in {"scan", "poll", "publish"} /\ i <= l
    \/ RequestExit /\ cons \notin {"wait", "asleep"}

NoneForgotten == ~delayed => \A l \in armed : used[l] > 0 => WillLook(l)

\* Without delays nothing waits in a store buffer.
AllVisible == ~delayed => \A l \in Lidar : unseen[l] = 0 /\ unreleased[l] = 0

IInv ==
    /\ TypeOK
    /\ AtLidar
    /\ CountKept
    /\ AllVisible
    /\ NoneForgotten

\* Before any thread has moved.
LEMMA InitIInv == Init => IInv
<1> SUFFICES ASSUME Init
             PROVE  IInv
  OBVIOUS
<1>1. TypeOK
  BY DeliveryAssumption DEF Init, TypeOK, None, Lidar
<1>2. AtLidar /\ CountKept /\ AllVisible /\ NoneForgotten
  BY DEF Init, AtLidar, CountKept, AllVisible, NoneForgotten, None
<1> QED
  BY <1>1, <1>2 DEF IInv

-----------------------------------------------------------------------------
(* The processing thread                                                     *)

\* A push raises used only while the ring has room, as the thread sees it.
LEMMA PushStoredStep == IInv /\ PushStored => IInv'
<1> SUFFICES ASSUME IInv, PushStored
             PROVE  IInv'
  OBVIOUS
<1> USE DeliveryAssumption
<1>1. /\ used[target] + unreleased[target] < Capacity
      /\ target \in Lidar /\ Delay \in {0, 1} /\ (~delayed => Delay = 0)
      /\ used[target] \in Nat /\ unseen[target] \in Nat /\ unreleased[target] \in Nat
      /\ unseen[target] <= used[target]
  BY DEF IInv, TypeOK, PushStored, LooksFull, Delay
<1>2. TypeOK'
  BY <1>1 DEF IInv, TypeOK, PushStored, consVars, nodeVars
<1>3. AtLidar' /\ CountKept'
  BY DEF IInv, AtLidar, CountKept, PushStored, consVars
<1>4. AllVisible'
  BY <1>1 DEF IInv, TypeOK, AllVisible, PushStored, nodeVars, None
<1>5. NoneForgotten'
  BY DEF IInv, TypeOK, NoneForgotten, WillLook, RequestExit, PushStored, consVars, nodeVars
<1> QED
  BY <1>2, <1>3, <1>4, <1>5 DEF IInv

\* Cut, the tests and the signal.
LEMMA PushingStep ==
    IInv /\ ((\E l \in Lidar : Cut(l)) \/ TestDrained \/ PushFull \/ TestCount \/ Signal)
        => IInv'
<1> SUFFICES ASSUME IInv,
                    (\E l \in Lidar : Cut(l)) \/ TestDrained \/ PushFull \/ TestCount \/ Signal
             PROVE  IInv'
  OBVIOUS
<1> USE DeliveryAssumption
<1>1. ASSUME NEW l \in Lidar, Cut(l)
      PROVE  IInv'
  <2>1. TypeOK'
    BY <1>1 DEF IInv, TypeOK, Cut, ringVars, consVars, nodeVars
  <2>2. AtLidar' /\ CountKept' /\ AllVisible'
    BY <1>1 DEF IInv, AtLidar, CountKept, AllVisible, Cut, ringVars, consVars, nodeVars
  <2>3. NoneForgotten'
    BY <1>1 DEF IInv, NoneForgotten, WillLook, RequestExit, Cut, ringVars, consVars, nodeVars
  <2> QED
    BY <2>1, <2>2, <2>3 DEF IInv
<1>2. CASE TestDrained
  <2>1. TypeOK'
    BY <1>2 DEF IInv, TypeOK, TestDrained, ringVars, consVars, nodeVars
  <2>2. AtLidar' /\ CountKept' /\ AllVisible'
    BY <1>2 DEF IInv, AtLidar, CountKept, AllVisible, TestDrained, ringVars, consVars,
                nodeVars
  <2>3. LooksDrained(target) => used[target] = 0
    BY DEF IInv, TypeOK, LooksDrained
  <2>4. NoneForgotten'
    BY <1>2, <2>3 DEF IInv, TypeOK, NoneForgotten, WillLook, RequestExit, TestDrained,
                      ringVars, consVars, nodeVars
  <2> QED
    BY <2>1, <2>2, <2>4 DEF IInv
<1>3. CASE PushFull
  <2>1. TypeOK'
    BY <1>3 DEF IInv, TypeOK, PushFull, ringVars, consVars, nodeVars
  <2>2. AtLidar' /\ CountKept' /\ AllVisible'
    BY <1>3 DEF IInv, AtLidar, CountKept, AllVisible, PushFull, ringVars, consVars, nodeVars
  <2>3. NoneForgotten'
    BY <1>3 DEF IInv, NoneForgotten, WillLook, RequestExit, PushFull, ringVars, consVars,
                nodeVars
  <2> QED
    BY <2>1, <2>2, <2>3 DEF IInv
<1>4. CASE TestCount
  <2>1. TypeOK'
    BY <1>4 DEF IInv, TypeOK, TestCount, ringVars, consVars, nodeVars
  <2>2. AtLidar' /\ CountKept' /\ AllVisible'
    BY <1>4 DEF IInv, AtLidar, CountKept, AllVisible, TestCount, ringVars, consVars, nodeVars
  <2>3. NoneForgotten'
    BY <1>4 DEF IInv, CountKept, NoneForgotten, WillLook, RequestExit, TestCount, ringVars,
                consVars, nodeVars
  <2> QED
    BY <2>1, <2>2, <2>3 DEF IInv
<1>5. CASE Signal
  <2>1. count = 0 /\ count' = 1
    BY <1>5 DEF IInv, CountKept, Signal
  <2>2. TypeOK'
    BY <1>5, <2>1 DEF IInv, TypeOK, Signal, nodeVars, None
  <2>3. AtLidar' /\ CountKept' /\ AllVisible'
    BY <1>5, <2>1 DEF IInv, AtLidar, CountKept, AllVisible, Signal, nodeVars, None
  <2>4. NoneForgotten'
    BY <2>1 DEF NoneForgotten, WillLook
  <2> QED
    BY <2>2, <2>3, <2>4 DEF IInv
<1> QED
  BY <1>1, <1>2, <1>3, <1>4, <1>5

-----------------------------------------------------------------------------
(* The poll thread                                                           *)

\* Waiting for the semaphore, and leaving the function.  When it goes to sleep
\* the count is 0.
LEMMA WaitingStep == IInv /\ (Enter \/ Sleep \/ WaitDone \/ Leave) => IInv'
<1> SUFFICES ASSUME IInv, Enter \/ Sleep \/ WaitDone \/ Leave
             PROVE  IInv'
  OBVIOUS
<1> USE DeliveryAssumption
<1>1. CASE Enter
  <2>1. TypeOK'
    BY <1>1 DEF IInv, TypeOK, Enter, ringVars, prodVars, nodeVars
  <2>2. AtLidar' /\ CountKept' /\ AllVisible'
    BY <1>1 DEF IInv, AtLidar, CountKept, AllVisible, Enter, ringVars, prodVars, nodeVars
  <2>3. NoneForgotten'
    BY <1>1 DEF IInv, NoneForgotten, WillLook, RequestExit, Enter, ringVars, prodVars,
                nodeVars
  <2> QED
    BY <2>1, <2>2, <2>3 DEF IInv
<1>2. CASE Sleep
  <2>1. TypeOK'
    BY <1>2 DEF IInv, TypeOK, Sleep, prodVars, nodeVars, None
  <2>2. AtLidar' /\ CountKept' /\ AllVisible'
    BY <1>2 DEF IInv, AtLidar, CountKept, AllVisible, Sleep, prodVars, nodeVars,
                None
  <2>3. NoneForgotten'
    BY <1>2 DEF IInv, NoneForgotten, WillLook, RequestExit, Sleep, prodVars, nodeVars
  <2> QED
    BY <2>1, <2>2, <2>3 DEF IInv
<1>3. CASE WaitDone
  <2>1. count = 1 /\ count' = 0 /\ i' = 1 /\ cons' = "scan"
    BY <1>3 DEF IInv, CountKept, WaitDone
  <2>2. TypeOK'
    BY <1>3, <2>1 DEF IInv, TypeOK, WaitDone, prodVars, nodeVars, None
  <2>3. AtLidar' /\ CountKept' /\ AllVisible'
    BY <1>3, <2>1 DEF IInv, AtLidar, CountKept, AllVisible, WaitDone, prodVars,
                       nodeVars, None
  <2>4. \A l \in armed' : i' <= l
    BY <1>3, <2>1 DEF IInv, TypeOK, Lidar, WaitDone, prodVars
  <2>5. NoneForgotten'
    BY <2>1, <2>4 DEF NoneForgotten, WillLook
  <2> QED
    BY <2>2, <2>3, <2>5 DEF IInv
<1>4. CASE Leave
  <2>1. TypeOK'
    BY <1>4 DEF IInv, TypeOK, Leave, ringVars, prodVars, nodeVars
  <2>2. AtLidar' /\ CountKept' /\ AllVisible'
    BY <1>4 DEF IInv, AtLidar, CountKept, AllVisible, Leave, ringVars, prodVars, nodeVars
  <2>3. NoneForgotten'
    BY <1>4 DEF IInv, NoneForgotten, WillLook, RequestExit, Leave, ringVars, prodVars,
                nodeVars
  <2> QED
    BY <2>1, <2>2, <2>3 DEF IInv
<1> QED
  BY <1>1, <1>2, <1>3, <1>4

\* The scan: it passes a lidar that is not Sampling, and so not armed, or whose
\* ring is empty.
LEMMA ScanningStep ==
    IInv /\ (ScanEnd \/ ScanSkip \/ ScanEnter \/ PollEnter \/ PollDone \/ PublishDone)
        => IInv'
<1> SUFFICES ASSUME IInv,
                    ScanEnd \/ ScanSkip \/ ScanEnter \/ PollEnter \/ PollDone \/ PublishDone
             PROVE  IInv'
  OBVIOUS
<1> USE DeliveryAssumption
<1>1. /\ UNCHANGED <<sampling, used, unseen, unreleased, count, prod, target, armed, node,
                     delayed>>
      /\ cons' \in {"leave", "scan", "poll", "publish"}
  BY DEF ScanEnd, ScanSkip, ScanEnter, PollEnter, PollDone, PublishDone, ringVars, prodVars,
         nodeVars, consVars
<1>2. i' \in 1 .. N + 1 /\ AtLidar'
  <2>1. i \in 1 .. N + 1 /\ N \in Nat /\ (cons \in {"poll", "publish"} => i \in 1 .. N)
    BY DEF IInv, TypeOK, AtLidar, Lidar
  <2>2. CASE ScanEnd
    BY <2>1, <2>2 DEF ScanEnd, AtLidar
  <2>3. CASE ScanSkip
    BY <2>1, <2>3 DEF ScanSkip, AtLidar
  <2>4. CASE ScanEnter
    BY <2>1, <2>4 DEF ScanEnter, AtLidar, Lidar
  <2>5. CASE PollEnter
    BY <2>1, <2>5 DEF PollEnter, AtLidar, Lidar
  <2>6. CASE PollDone
    BY <2>1, <2>6 DEF PollDone, AtLidar
  <2>7. CASE PublishDone
    BY <2>1, <2>7 DEF PublishDone, AtLidar, Lidar
  <2> QED
    BY <2>2, <2>3, <2>4, <2>5, <2>6, <2>7
<1>3. TypeOK'
  BY <1>1, <1>2 DEF IInv, TypeOK
<1>4. CountKept' /\ AllVisible'
  BY <1>1 DEF IInv, CountKept, AllVisible
<1>5. NoneForgotten'
  <2> SUFFICES ASSUME ~delayed, NEW l \in armed, used[l] > 0
               PROVE  WillLook(l)'
    BY <1>1 DEF NoneForgotten
  <2>1. WillLook(l) /\ l \in sampling /\ l \in Lidar /\ unseen[l] = 0 /\ used[l] # 0
    BY DEF IInv, NoneForgotten, AllVisible, None, TypeOK
  <2>2. CASE RequestExit
    BY <1>1, <2>2 DEF WillLook, RequestExit
  <2>3. CASE ~RequestExit /\ cons \in {"scan", "poll", "publish"} /\ i <= l
    <3>1. i' <= l /\ cons' # "leave"
      <4>1. i \in 1 .. N + 1 /\ l \in 1 .. N
        BY <2>1 DEF IInv, TypeOK, Lidar
      <4>2. i = l => i \in sampling /\ ~LooksEmpty(i)
        BY <2>1 DEF LooksEmpty
      <4>3. i # l => i + 1 <= l
        BY <2>3, <4>1
      <4> QED
        BY <2>3, <4>1, <4>2, <4>3
           DEF ScanEnd, ScanSkip, ScanEnter, PollEnter, PollDone, PublishDone, consVars
    <3> QED
      BY <1>1, <3>1 DEF WillLook
  <2> QED
    BY <1>1, <2>1, <2>2, <2>3 DEF WillLook
<1> QED
  BY <1>2, <1>3, <1>4, <1>5 DEF IInv

\* Popping a frame that the thread sees.
LEMMA PublishStep == IInv /\ Publish => IInv'
<1> SUFFICES ASSUME IInv, Publish
             PROVE  IInv'
  OBVIOUS
<1> USE DeliveryAssumption
<1>1. /\ i \in Lidar /\ Delay \in {0, 1} /\ (~delayed => Delay = 0)
      /\ used[i] \in Nat /\ unseen[i] \in Nat /\ unreleased[i] \in Nat
      /\ unseen[i] < used[i]
      /\ used[i] + unreleased[i] <= Capacity
  <2>1. i \in Lidar /\ used[i] # unseen[i]
    BY DEF IInv, AtLidar, Publish, LooksEmpty
  <2>2. /\ used[i] \in Nat /\ unseen[i] \in Nat /\ unreleased[i] \in Nat
        /\ unseen[i] <= used[i]
        /\ used[i] + unreleased[i] <= Capacity
    BY <2>1 DEF IInv, TypeOK
  <2>3. Delay \in {0, 1} /\ (~delayed => Delay = 0)
    BY DEF Delay
  <2> QED
    BY <2>1, <2>2, <2>3
<1>2. TypeOK'
  BY <1>1 DEF IInv, TypeOK, Publish, prodVars, consVars, nodeVars
<1>3. AtLidar' /\ CountKept'
  BY DEF IInv, AtLidar, CountKept, Publish, prodVars, consVars
<1>4. AllVisible'
  BY <1>1 DEF IInv, TypeOK, AllVisible, Publish, nodeVars, None
<1>5. \A l \in Lidar : used'[l] > 0 => used[l] > 0
  BY <1>1 DEF IInv, TypeOK, Publish
<1>6. NoneForgotten'
  BY <1>5 DEF IInv, TypeOK, NoneForgotten, WillLook, RequestExit, Publish, prodVars,
              consVars, nodeVars
<1> QED
  BY <1>2, <1>3, <1>4, <1>6 DEF IInv

-----------------------------------------------------------------------------
(* The memory, the SDK and the destructor                                    *)

\* What the other steps change neither raises a ring nor lowers the semaphore.
LEMMA OtherStep ==
    IInv /\ ((\E l \in Lidar : BecomeSampling(l) \/ PushVisible(l) \/ PopVisible(l))
             \/ DestroyNode \/ SetExitSignal \/ Join \/ UNCHANGED vars)
        => IInv'
<1> SUFFICES ASSUME IInv,
                    (\E l \in Lidar : BecomeSampling(l) \/ PushVisible(l) \/ PopVisible(l))
                    \/ DestroyNode \/ SetExitSignal \/ Join \/ UNCHANGED vars
             PROVE  IInv'
  OBVIOUS
<1> USE DeliveryAssumption
<1>1. /\ UNCHANGED <<used, count, prod, target, armed, cons, i, delayed>>
      /\ RequestExit => RequestExit'
  BY DEF BecomeSampling, PushVisible, PopVisible, DestroyNode, SetExitSignal, Join, vars,
         ringVars, prodVars, consVars, nodeVars, RequestExit
<1>2. TypeOK'
  BY DEF BecomeSampling, PushVisible, PopVisible, DestroyNode, SetExitSignal, Join, vars,
         ringVars, prodVars, consVars, nodeVars, IInv, TypeOK
<1>3. AtLidar' /\ CountKept'
  BY <1>1 DEF IInv, AtLidar, CountKept
<1>4. AllVisible'
  BY DEF BecomeSampling, PushVisible, PopVisible, DestroyNode, SetExitSignal, Join, vars,
         ringVars, prodVars, consVars, nodeVars, IInv, AllVisible, None
<1>5. NoneForgotten'
  BY <1>1 DEF IInv, NoneForgotten, WillLook
<1> QED
  BY <1>2, <1>3, <1>4, <1>5 DEF IInv

-----------------------------------------------------------------------------
(* The theorems                                                              *)

\* The invariant holds for any number of lidars and any capacity.
THEOREM Invariance == Spec => []IInv
<1>1. IInv /\ [Next]_vars => IInv'
  BY PushStoredStep, PushingStep, WaitingStep, ScanningStep, PublishStep, OtherStep
     DEF Next, Pushing, Polling, Memory, Destroying
<1> QED
  BY <1>1, InitIInv, PTL DEF Spec

\* No ring is overfilled or emptied below 0, as memory or as either thread sees
\* it.
THEOREM TypeCorrect == Spec => []TypeOK
<1>1. IInv => TypeOK
  BY DEF IInv
<1> QED
  BY <1>1, Invariance, PTL

\* The test of the count without the mutex keeps the semaphore binary.
THEOREM CountBinary == Spec => []SemaphoreBinary
<1>1. IInv => SemaphoreBinary
  BY DEF IInv, CountKept, SemaphoreBinary
<1> QED
  BY <1>1, Invariance, PTL

\* A poll thread that sleeps has nothing left to publish of the lidars that were
\* Sampling when their last frame came.
THEOREM WakeupsKept == Spec => []NoLostWakeup
<1>1. IInv => NoLostWakeup
  <2> SUFFICES ASSUME IInv, ~delayed, cons = "asleep", prod = "idle", NEW l \in armed,
                      used[l] # 0
               PROVE  FALSE
    BY DEF NoLostWakeup
  <2>1. used[l] > 0
    BY DEF IInv, TypeOK
  <2>2. count > 0
    BY <2>1 DEF IInv, NoneForgotten, WillLook
  <2>3. count = 0
    BY DEF IInv, CountKept
  <2> QED
    BY <2>2, <2>3
<1> QED
  BY <1>1, Invariance, PTL

-----------------------------------------------------------------------------
(* The rings                                                                 *)

\* Before the first frame every ring is empty and all threads know it.
LEMMA InitRing == ASSUME NEW l \in Lidar PROVE Init => Ring(l)!Init
  BY DEF Init, Ring!Init, None

\* A push is one of its lidar's ring; without delays it is seen at once.
LEMMA StoredPushes ==
    ASSUME NEW l \in Lidar, IInv, PushStored
    PROVE  Ring(l)!Push \/ UNCHANGED Ring(l)!vars
<1>1. /\ used \in [Lidar -> 0 .. Capacity] /\ unseen \in [Lidar -> 0 .. Capacity]
      /\ target \in Lidar /\ unreleased' = unreleased
      /\ Delay \in {0, 1} /\ (Delay = 0 => unseen[target] = 0)
  BY DEF IInv, TypeOK, AllVisible, PushStored, Delay
<1>2. CASE l = target
  <2>1. /\ used'[l] = used[l] + 1
        /\ unseen'[l] \in {0, unseen[l] + 1}
    BY <1>1, <1>2 DEF PushStored
  <2> QED
    BY <1>1, <1>2, <2>1 DEF PushStored, LooksFull, Ring!Push, Ring!LooksFull
<1>3. CASE l # target
  <2>1. used'[l] = used[l] /\ unseen'[l] = unseen[l]
    BY <1>1, <1>3 DEF PushStored
  <2> QED
    BY <1>1, <2>1 DEF Ring!vars
<1> QED
  BY <1>2, <1>3

\* So is a pop one of the ring that the poll thread is at.
LEMMA PublishPops ==
    ASSUME NEW l \in Lidar, IInv, Publish
    PROVE  Ring(l)!Pop \/ UNCHANGED Ring(l)!vars
<1>1. /\ used \in [Lidar -> 0 .. Capacity] /\ unreleased \in [Lidar -> 0 .. Capacity]
      /\ i \in Lidar /\ unseen' = unseen
      /\ Delay \in {0, 1} /\ (Delay = 0 => unreleased[i] = 0)
  BY DEF IInv, TypeOK, AllVisible, AtLidar, Publish, Delay
<1>2. CASE l = i
  <2>1. /\ used'[l] = used[l] - 1
        /\ unreleased'[l] \in {0, unreleased[l] + 1}
    BY <1>1, <1>2 DEF Publish
  <2> QED
    BY <1>1, <1>2, <2>1 DEF Publish, LooksEmpty, Ring!Pop, Ring!LooksEmpty
<1>3. CASE l # i
  <2>1. used'[l] = used[l] /\ unreleased'[l] = unreleased[l]
    BY <1>1, <1>3 DEF Publish
  <2> QED
    BY <1>1, <2>1 DEF Ring!vars
<1> QED
  BY <1>2, <1>3

\* The mutex of the semaphore lets all stores of its thread reach memory, and
\* otherwise they do one by one.
LEMMA MemoryReveals ==
    ASSUME NEW l \in Lidar, IInv, Signal \/ Sleep \/ WaitDone \/ Memory
    PROVE  Ring(l)!Reveal \/ Ring(l)!Release \/ UNCHANGED Ring(l)!vars
<1>1. unseen \in [Lidar -> 0 .. Capacity] /\ unreleased \in [Lidar -> 0 .. Capacity]
  BY DEF IInv, TypeOK
<1>2. CASE Signal
  <2>1. used' = used /\ unreleased' = unreleased /\ unseen'[l] = 0
    BY <1>2 DEF Signal, None
  <2>2. unseen[l] = 0 \/ 0 \in 0 .. unseen[l] - 1
    BY <1>1
  <2> QED
    BY <2>1, <2>2 DEF Ring!Reveal, Ring!vars
<1>3. CASE Sleep \/ WaitDone
  <2>1. used' = used /\ unseen' = unseen /\ unreleased'[l] = 0
    BY <1>3 DEF Sleep, WaitDone, None
  <2>2. unreleased[l] = 0 \/ 0 \in 0 .. unreleased[l] - 1
    BY <1>1
  <2> QED
    BY <2>1, <2>2 DEF Ring!Release, Ring!vars
<1>4. ASSUME NEW m \in Lidar, PushVisible(m)
      PROVE  Ring(l)!Reveal \/ UNCHANGED Ring(l)!vars
  <2>1. /\ used' = used /\ unreleased' = unreleased
        /\ unseen' = [unseen EXCEPT ![m] = @ - 1] /\ unseen[m] > 0
    BY <1>4 DEF PushVisible
  <2>2. CASE l = m
    <3>1. unseen'[l] \in 0 .. unseen[l] - 1
      BY <1>1, <2>1, <2>2
    <3> QED
      BY <2>1, <3>1 DEF Ring!Reveal
  <2>3. CASE l # m
    <3>1. unseen'[l] = unseen[l]
      BY <1>1, <2>1, <2>3
    <3> QED
      BY <2>1, <3>1 DEF Ring!vars
  <2> QED
    BY <2>2, <2>3
<1>5. ASSUME NEW m \in Lidar, PopVisible(m)
      PROVE  Ring(l)!Release \/ UNCHANGED Ring(l)!vars
  <2>1. /\ used' = used /\ unseen' = unseen
        /\ unreleased' = [unreleased EXCEPT ![m] = @ - 1] /\ unreleased[m] > 0
    BY <1>5 DEF PopVisible
  <2>2. CASE l = m
    <3>1. unreleased'[l] \in 0 .. unreleased[l] - 1
      BY <1>1, <2>1, <2>2
    <3> QED
      BY <2>1, <3>1 DEF Ring!Release
  <2>3. CASE l # m
    <3>1. unreleased'[l] = unreleased[l]
      BY <1>1, <2>1, <2>3
    <3> QED
      BY <2>1, <3>1 DEF Ring!vars
  <2> QED
    BY <2>2, <2>3
<1> QED
  BY <1>2, <1>3, <1>4, <1>5 DEF Memory

\* All other steps leave the rings alone.
LEMMA OthersLeaveRings ==
    ASSUME NEW l \in Lidar, [Next]_vars
    PROVE  \/ PushStored \/ Publish \/ Signal \/ Sleep \/ WaitDone \/ Memory
           \/ UNCHANGED Ring(l)!vars
<1>1. ASSUME NEW m \in Lidar, BecomeSampling(m) \/ Cut(m)
      PROVE  UNCHANGED Ring(l)!vars
  BY <1>1 DEF BecomeSampling, Cut, ringVars, Ring!vars
<1>2. ASSUME TestDrained \/ PushFull \/ TestCount
      PROVE  UNCHANGED Ring(l)!vars
  BY <1>2 DEF TestDrained, PushFull, TestCount, ringVars, Ring!vars
<1>3. ASSUME \/ Enter \/ ScanEnd \/ ScanSkip \/ ScanEnter
             \/ PollEnter \/ PollDone \/ PublishDone \/ Leave
      PROVE  UNCHANGED Ring(l)!vars
  BY <1>3 DEF Enter, ScanEnd, ScanSkip, ScanEnter, PollEnter, PollDone, PublishDone, Leave,
              ringVars, Ring!vars
<1>4. ASSUME DestroyNode \/ Destroying \/ UNCHANGED vars
      PROVE  UNCHANGED Ring(l)!vars
  BY <1>4 DEF DestroyNode, Destroying, SetExitSignal, Join, vars, ringVars, Ring!vars
<1> QED
  BY <1>1, <1>2, <1>3, <1>4 DEF Next, Pushing, Polling

\* Every ring of a lidar goes through what the lock-free ring can go through, in
\* either memory: it is an implementation of the same counts.
THEOREM RingsCount ==
    ASSUME NEW l \in Lidar
    PROVE  Spec => Ring(l)!Spec
<1>1. IInv /\ [Next]_vars => [Ring(l)!Next]_(Ring(l)!vars)
  BY StoredPushes, PublishPops, MemoryReveals, OthersLeaveRings DEF Ring!Next
<1>2. Init => Ring(l)!Init
  BY InitRing
<1> QED
  BY <1>1, <1>2, Invariance, PTL DEF Spec, Ring!Spec
=============================================================================
