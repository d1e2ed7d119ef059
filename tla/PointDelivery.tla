----------------------------- MODULE PointDelivery -----------------------------
(****************************************************************************)
(* How frames get from the rings to the ROS publishers: the processing       *)
(* thread (Lds::PushLidarData), the semaphore it wakes the poll thread with, *)
(* the poll thread (Lddc::DistributePointCloudData, looping over all lidars  *)
(* and publishing from those that are Sampling), and the node's destructor,  *)
(* which asks the poll thread to stop and joins it.                          *)
(*                                                                           *)
(* A ring is RingCounts: what FrameQueue does, with the frames reduced to    *)
(* their number.  With delayed stores a thread sees the other's push or pop  *)
(* only when the store reaches memory (Semaphore's mutex forces it there),   *)
(* and the semaphore's count is always read as it is in memory, because it   *)
(* is only changed under the mutex.                                          *)
(****************************************************************************)
EXTENDS Integers

CONSTANTS
    N,              \* rings and devices: lidar_count_, kMaxSourceLidar in the code
    Capacity,       \* frames per ring
    DelayedStores   \* whether stores may, or may not, wait in a store buffer

ASSUME DeliveryAssumption ==
    /\ N \in Nat \ {0}
    /\ Capacity \in Nat \ {0}
    /\ DelayedStores \subseteq BOOLEAN

Lidar == 1 .. N

VARIABLES
    sampling,     \* lidars whose connect_state is kConnectStateSampling
    used,         \* frames in each ring
    unseen,       \* pushes the poll thread cannot see yet
    unreleased,   \* pops the processing thread cannot see yet
    count,        \* pcd_semaphore_.count_
    prod,         \* where the processing thread is in PushLidarData ...
    target,       \* ... and for which lidar
    armed,        \* lidars pushed for, in full, since they became Sampling
    cons,         \* where the poll thread is
    i,            \* its loop variable
    node,         \* how far the node's destructor has come
    delayed       \* whether the stores of this machine wait

prodVars == <<prod, target, armed>>
consVars == <<cons, i>>
ringVars == <<used, unseen, unreleased>>
nodeVars == <<node, delayed>>
vars == <<sampling, used, unseen, unreleased, count, prod, target, armed,
          cons, i, node, delayed>>

None == [l \in Lidar |-> 0]

Init ==
    /\ sampling = {} /\ armed = {}
    /\ used = None /\ unseen = None /\ unreleased = None
    /\ count = 0
    /\ prod = "idle" /\ target = 1
    /\ cons = "enter" /\ i = 1
    /\ node = "running"
    /\ delayed \in DelayedStores

RequestExit == node # "running"        \* request_exit_ is set

Delay == IF delayed THEN 1 ELSE 0

\* What each thread takes a ring for.
\* Fault: one frame too many.
LooksFullLate(l) == used[l] + unreleased[l] > Capacity

LooksFull(l) == used[l] + unreleased[l] >= Capacity
LooksDrained(l) == used[l] + unreleased[l] = 0
LooksEmpty(l) == used[l] = unseen[l]

-----------------------------------------------------------------------------
(* The SDK's command thread: the last parameter of l is acknowledged         *)

BecomeSampling(l) ==
    /\ l \notin sampling
    /\ sampling' = sampling \cup {l}
    /\ UNCHANGED <<ringVars, count, prodVars, consVars, nodeVars>>

-----------------------------------------------------------------------------
(* The processing thread: Lds::StoragePointData for each lidar of a frame    *)

\* A frame of l is cut and PushLidarData called.
Cut(l) ==
    /\ prod = "idle"
    /\ target' = l
    /\ prod' = "push"
    /\ armed' = IF l \in sampling THEN armed \cup {l} ELSE armed
    /\ UNCHANGED <<sampling, ringVars, count, consVars, nodeVars>>

\* The ring is not full: QueuePushAny.
PushStored ==
    /\ prod = "push"
    /\ ~LooksFull(target)
    /\ used' = [used EXCEPT ![target] = @ + 1]
    /\ unseen' = [unseen EXCEPT ![target] = @ + Delay]
    /\ prod' = "pushed"
    /\ UNCHANGED <<sampling, unreleased, count, target, armed, consVars, nodeVars>>

\* The semaphore is left alone if the frame is already gone again.
TestDrained ==
    /\ prod = "pushed"
    /\ prod' = IF LooksDrained(target) THEN "idle" ELSE "test"
    /\ UNCHANGED <<sampling, ringVars, count, target, armed, consVars, nodeVars>>

\* Fault: a dropped frame is no reason to wake the poll thread.
PushFullSilent ==
    /\ prod = "push"
    /\ LooksFull(target)
    /\ prod' = "idle"
    /\ UNCHANGED <<sampling, ringVars, count, target, armed, consVars, nodeVars>>

\* The ring is full: the frame is dropped, the poll thread woken all the same.
PushFull ==
    /\ prod = "push"
    /\ LooksFull(target)
    /\ prod' = "test"
    /\ UNCHANGED <<sampling, ringVars, count, target, armed, consVars, nodeVars>>

\* Fault: off by one.
TestCountOne ==
    /\ prod = "test"
    /\ prod' = IF count <= 1 THEN "signal" ELSE "idle"
    /\ UNCHANGED <<sampling, ringVars, count, target, armed, consVars, nodeVars>>

\* pcd_semaphore_.GetCount() <= 0, read without the mutex ...
TestCount ==
    /\ prod = "test"
    /\ prod' = IF count <= 0 THEN "signal" ELSE "idle"
    /\ UNCHANGED <<sampling, ringVars, count, target, armed, consVars, nodeVars>>

\* Fault: no notify_one.
SignalUnnotified ==
    /\ prod = "signal"
    /\ count' = count + 1
    /\ unseen' = None
    /\ prod' = "idle"
    /\ UNCHANGED <<sampling, used, unreleased, target, armed, consVars, nodeVars>>

\* ... and acted upon: Semaphore::Signal.
Signal ==
    /\ prod = "signal"
    /\ count' = count + 1
    /\ cons' = IF cons = "asleep" THEN "wait" ELSE cons
    /\ unseen' = None
    /\ prod' = "idle"
    /\ UNCHANGED <<sampling, used, unreleased, target, armed, i, nodeVars>>

-----------------------------------------------------------------------------
(* The poll thread: PointCloudDataPollThread and DistributePointCloudData    *)

Enter ==
    /\ cons = "enter"
    /\ cons' = IF RequestExit THEN "leave" ELSE "wait"
    /\ UNCHANGED <<sampling, ringVars, count, prodVars, i, nodeVars>>

\* Fault: cv_.wait without its predicate.
SleepUntested ==
    /\ cons = "wait"
    /\ cons' = "asleep"
    /\ unreleased' = None
    /\ UNCHANGED <<sampling, used, unseen, count, prodVars, i, nodeVars>>

\* Semaphore::Wait: cv_.wait tests the count and sleeps while it is 0.
Sleep ==
    /\ cons = "wait"
    /\ count <= 0
    /\ cons' = "asleep"
    /\ unreleased' = None
    /\ UNCHANGED <<sampling, used, unseen, count, prodVars, i, nodeVars>>

WaitDone ==
    /\ cons = "wait"
    /\ count > 0
    /\ count' = count - 1
    /\ cons' = "scan"
    /\ i' = 1
    /\ unreleased' = None
    /\ UNCHANGED <<sampling, used, unseen, prodVars, nodeVars>>

\* The loop over the devices.
ScanEnd ==
    /\ cons = "scan"
    /\ i > N
    /\ cons' = "leave"
    /\ UNCHANGED <<sampling, ringVars, count, prodVars, i, nodeVars>>

ScanSkip ==
    /\ cons = "scan"
    /\ i <= N
    /\ i \notin sampling
    /\ i' = i + 1
    /\ UNCHANGED <<sampling, ringVars, count, prodVars, cons, nodeVars>>

ScanEnter ==
    /\ cons = "scan"
    /\ i <= N
    /\ i \in sampling
    /\ cons' = "poll"
    /\ UNCHANGED <<sampling, ringVars, count, prodVars, i, nodeVars>>

\* PollingLidarPointCloudData: while no exit is requested and the ring is not
\* empty, call the publishing loop of the transfer format.
PollEnter ==
    /\ cons = "poll"
    /\ ~RequestExit
    /\ ~LooksEmpty(i)
    /\ cons' = "publish"
    /\ UNCHANGED <<sampling, ringVars, count, prodVars, i, nodeVars>>

PollDone ==
    /\ cons = "poll"
    /\ RequestExit \/ LooksEmpty(i)
    /\ cons' = "scan"
    /\ i' = i + 1
    /\ UNCHANGED <<sampling, ringVars, count, prodVars, nodeVars>>

\* PublishPointcloud2 and its kin: pop and publish until the ring is empty,
\* without another look at the exit request.
Publish ==
    /\ cons = "publish"
    /\ ~LooksEmpty(i)
    /\ used' = [used EXCEPT ![i] = @ - 1]
    /\ unreleased' = [unreleased EXCEPT ![i] = @ + Delay]
    /\ UNCHANGED <<sampling, unseen, count, prodVars, consVars, nodeVars>>

PublishDone ==
    /\ cons = "publish"
    /\ LooksEmpty(i)
    /\ cons' = "poll"
    /\ UNCHANGED <<sampling, ringVars, count, prodVars, i, nodeVars>>

\* The thread's own loop ends when future_ has its value.
Leave ==
    /\ cons = "leave"
    /\ cons' = IF node = "joining" THEN "ended" ELSE "enter"
    /\ UNCHANGED <<sampling, ringVars, count, prodVars, i, nodeVars>>

-----------------------------------------------------------------------------
(* Stores reach memory                                                       *)

PushVisible(l) ==
    /\ unseen[l] > 0
    /\ unseen' = [unseen EXCEPT ![l] = @ - 1]
    /\ UNCHANGED <<sampling, used, unreleased, count, prodVars, consVars, nodeVars>>

PopVisible(l) ==
    /\ unreleased[l] > 0
    /\ unreleased' = [unreleased EXCEPT ![l] = @ - 1]
    /\ UNCHANGED <<sampling, used, unseen, count, prodVars, consVars, nodeVars>>

-----------------------------------------------------------------------------
(* The main thread: DriverNode::~DriverNode                                  *)

DestroyNode ==
    /\ node = "running"
    /\ node' = "requested"
    /\ UNCHANGED <<sampling, ringVars, count, prodVars, consVars, delayed>>

SetExitSignal ==
    /\ node = "requested"
    /\ node' = "joining"
    /\ UNCHANGED <<sampling, ringVars, count, prodVars, consVars, delayed>>

Join ==
    /\ node = "joining"
    /\ cons = "ended"
    /\ node' = "joined"
    /\ UNCHANGED <<sampling, ringVars, count, prodVars, consVars, delayed>>

-----------------------------------------------------------------------------
Pushing == PushStored \/ TestDrained \/ PushFull \/ TestCount \/ Signal

Polling ==
    \/ Enter \/ Sleep \/ WaitDone
    \/ ScanEnd \/ ScanSkip \/ ScanEnter
    \/ PollEnter \/ PollDone \/ Publish \/ PublishDone
    \/ Leave

Memory == \E l \in Lidar : PushVisible(l) \/ PopVisible(l)

Destroying == SetExitSignal \/ Join

Next ==
    \/ \E l \in Lidar : BecomeSampling(l) \/ Cut(l)
    \/ Pushing
    \/ Polling
    \/ Memory
    \/ DestroyNode
    \/ Destroying

\* Threads that can run do, and stores reach memory.  Nothing makes a lidar
\* send data, become Sampling, or the node end.
Fairness ==
    /\ WF_vars(Pushing)
    /\ WF_vars(Polling)
    /\ WF_vars(Memory)
    /\ WF_vars(Destroying)

Spec == Init /\ [][Next]_vars /\ Fairness

-----------------------------------------------------------------------------
(* Properties                                                                *)

\* Every variable has its type; no ring is overfilled.
TypeOK ==
    /\ sampling \subseteq Lidar /\ armed \subseteq sampling
    /\ used \in [Lidar -> 0 .. Capacity]
    /\ unseen \in [Lidar -> 0 .. Capacity]
    /\ unreleased \in [Lidar -> 0 .. Capacity]
    /\ \A l \in Lidar : unseen[l] <= used[l] /\ used[l] + unreleased[l] <= Capacity
    /\ count \in Nat
    /\ prod \in {"idle", "push", "pushed", "test", "signal"}
    /\ target \in Lidar
    /\ cons \in {"enter", "wait", "asleep", "scan", "poll", "publish", "leave",
                 "ended"}
    /\ i \in 1 .. N + 1
    /\ node \in {"running", "requested", "joining", "joined"}
    /\ delayed \in DelayedStores

\* The ring of a lidar, as RingCounts specifies it and FrameQueue implements it.
Ring(l) == INSTANCE RingCounts WITH
            used <- used[l], unseen <- unseen[l], unreleased <- unreleased[l]

\* The unlocked test before Signal is enough to keep the semaphore binary, as only
\* one thread signals.
SemaphoreBinary == count <= 1

\* No wake-up is lost between the push, the unlocked test of the count and the
\* poll thread going to sleep: when the poll thread sleeps and the processing
\* thread is done, the rings of the lidars that were Sampling when their last
\* frame came are empty.  (On a machine whose stores are visible at once.)
NoLostWakeup ==
    (~delayed /\ cons = "asleep" /\ prod = "idle") => \A l \in armed : used[l] = 0

\* The processing thread keeps cutting frames, of any lidar.
FramesKeepComing == []<>(prod = "push")

\* The poll thread publishes faster than frames come: its loops over a ring
\* end.
PublisherKeepsUp == []<>(cons \notin {"poll", "publish"})

\* As long as frames of some lidar come, the ring of every Sampling lidar is
\* drained again and again, also a ring that filled up before its lidar became
\* Sampling and whose pushes all fail.
Drains ==
    (FramesKeepComing /\ PublisherKeepsUp) =>
        \A l \in Lidar :
            (l \in sampling /\ used[l] > 0) ~> (LooksEmpty(l) \/ RequestExit)

\* The destructor's join of the poll thread returns as long as frames come:
\* they are all that wakes a poll thread that sleeps when exit is requested.
JoinReturns ==
    (FramesKeepComing /\ PublisherKeepsUp) =>
        ((node = "requested") ~> (node = "joined"))
=============================================================================
