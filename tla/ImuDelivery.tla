---------------------------- MODULE ImuDelivery ----------------------------
(****************************************************************************)
(* How IMU data gets from the SDK's data thread to the ROS publishers: the   *)
(* callback that rotates a datum and stores it (OnLivoxLidarPointCloud-      *)
(* Callback, Lds::StorageImuData), the unbounded queue of each device        *)
(* (LidarImuDataQueue), the semaphore, and the IMU poll thread               *)
(* (ImuDataPollThread, Lddc::DistributeImuData).  What a datum is rotated    *)
(* with is the business of Framing.                                          *)
(*                                                                           *)
(* A queue is the number of data it holds: its operations are atomic under   *)
(* the queue's mutex.  The module has no specification of its own: Lifecycle *)
(* says when the threads exist and when an exit is requested.                *)
(****************************************************************************)
EXTENDS Integers

CONSTANTS
    N,           \* devices: lidar_count_, kMaxSourceLidar in the code
    MaxImu       \* bound on what is counted in a queue

ASSUME ImuAssumption ==
    /\ N \in Nat \ {0} /\ MaxImu \in Nat \ {0}

Lidar == 1 .. N

VARIABLES
    sampling,     \* lidars whose connect_state is kConnectStateSampling
    imu_data,     \* the number of data in each queue
    count,        \* imu_semaphore_.count_
    sdk,          \* where the SDK's data thread is in StorageImuData ...
    target,       \* ... and for which lidar
    armed,        \* lidars whose datum was stored since they became Sampling
    imu_poll,     \* where the IMU poll thread is
    i,            \* its loop variable
    request_exit, \* request_exit_
    late          \* data published since the exit was requested

sdkVars == <<sdk, target, armed>>
imuPollVars == <<imu_poll, i>>
exitVars == <<request_exit, late>>
imuVars == <<sampling, imu_data, count, sdkVars, imuPollVars, exitVars>>

ImuInit ==
    /\ sampling = {} /\ armed = {}
    /\ imu_data = [l \in Lidar |-> 0]
    /\ count = 0
    /\ sdk = "idle" /\ target = 1
    /\ imu_poll = "none" /\ i = 1
    /\ request_exit = FALSE
    /\ late = 0

-----------------------------------------------------------------------------
(* The SDK's threads                                                         *)

\* A command callback makes l Sampling (see DeviceConfig).
BecomeSampling(l) ==
    /\ l \notin sampling
    /\ sampling' = sampling \cup {l}
    /\ UNCHANGED <<imu_data, count, sdkVars, imuPollVars, exitVars>>

\* An IMU datum of l comes and is rotated.
ImuDatum(l) ==
    /\ sdk = "idle"
    /\ sdk' = "push" /\ target' = l
    /\ armed' = IF l \in sampling THEN armed \cup {l} ELSE armed
    /\ UNCHANGED <<sampling, imu_data, count, imuPollVars, exitVars>>

\* LidarImuDataQueue::Push.  Data beyond the bound are not counted.
Push ==
    /\ sdk = "push"
    /\ imu_data' = [imu_data EXCEPT ![target] = IF @ < MaxImu THEN @ + 1 ELSE @]
    /\ sdk' = "pushed"
    /\ UNCHANGED <<sampling, count, target, armed, imuPollVars, exitVars>>

\* The semaphore is left alone if the datum is already gone again.
TestEmpty ==
    /\ sdk = "pushed"
    /\ sdk' = IF imu_data[target] = 0 THEN "idle" ELSE "test"
    /\ UNCHANGED <<sampling, imu_data, count, target, armed, imuPollVars, exitVars>>

\* imu_semaphore_.GetCount() <= 0, read without the mutex ...
TestCount ==
    /\ sdk = "test"
    /\ sdk' = IF count <= 0 THEN "signal" ELSE "idle"
    /\ UNCHANGED <<sampling, imu_data, count, target, armed, imuPollVars, exitVars>>

\* Fault: no notify_one.
SignalUnnotified ==
    /\ sdk = "signal"
    /\ count' = count + 1
    /\ sdk' = "idle"
    /\ UNCHANGED <<sampling, imu_data, target, armed, imuPollVars, exitVars>>

\* ... and acted upon: Semaphore::Signal.
Signal ==
    /\ sdk = "signal"
    /\ count' = count + 1
    /\ imu_poll' = IF imu_poll = "asleep" THEN "wait" ELSE imu_poll
    /\ sdk' = "idle"
    /\ UNCHANGED <<sampling, imu_data, target, armed, i, exitVars>>

-----------------------------------------------------------------------------
(* The IMU poll thread, once it is in DistributeImuData with an Lds          *)

Enter ==
    /\ imu_poll = "enter"
    /\ imu_poll' = IF request_exit THEN "leave" ELSE "wait"
    /\ UNCHANGED <<sampling, imu_data, count, sdkVars, i, exitVars>>

\* Semaphore::Wait: cv_.wait tests the count and sleeps while it is 0.
Sleep ==
    /\ imu_poll = "wait"
    /\ count <= 0
    /\ imu_poll' = "asleep"
    /\ UNCHANGED <<sampling, imu_data, count, sdkVars, i, exitVars>>

WaitDone ==
    /\ imu_poll = "wait"
    /\ count > 0
    /\ count' = count - 1
    /\ imu_poll' = "scan" /\ i' = 1
    /\ UNCHANGED <<sampling, imu_data, sdkVars, exitVars>>

\* The loop over the devices.
ScanEnd ==
    /\ imu_poll = "scan" /\ i > N
    /\ imu_poll' = "leave"
    /\ UNCHANGED <<sampling, imu_data, count, sdkVars, i, exitVars>>

\* Fault: one device too many.
ScanSkipPast ==
    /\ imu_poll = "scan" /\ i <= N + 1
    /\ i \notin sampling
    /\ i' = i + 1
    /\ UNCHANGED <<sampling, imu_data, count, sdkVars, imu_poll, exitVars>>

ScanSkip ==
    /\ imu_poll = "scan" /\ i <= N
    /\ i \notin sampling
    /\ i' = i + 1
    /\ UNCHANGED <<sampling, imu_data, count, sdkVars, imu_poll, exitVars>>

ScanEnter ==
    /\ imu_poll = "scan" /\ i <= N
    /\ i \in sampling
    /\ imu_poll' = "poll"
    /\ UNCHANGED <<sampling, imu_data, count, sdkVars, i, exitVars>>

\* Fault: like the loops over a ring, without a look at the exit request.
PollEnterUnasked ==
    /\ imu_poll = "poll"
    /\ imu_data[i] > 0
    /\ imu_poll' = "publish"
    /\ UNCHANGED <<sampling, imu_data, count, sdkVars, i, exitVars>>

\* PollingLidarImuData looks at the exit request for each datum.
PollEnter ==
    /\ imu_poll = "poll"
    /\ ~request_exit /\ imu_data[i] > 0
    /\ imu_poll' = "publish"
    /\ UNCHANGED <<sampling, imu_data, count, sdkVars, i, exitVars>>

PollDone ==
    /\ imu_poll = "poll"
    /\ request_exit \/ imu_data[i] = 0
    /\ imu_poll' = "scan" /\ i' = i + 1
    /\ UNCHANGED <<sampling, imu_data, count, sdkVars, exitVars>>

\* Fault: one datum per scan.
PublishImuDataOnce ==
    /\ imu_poll = "publish"
    /\ imu_data' = [imu_data EXCEPT ![i] = @ - 1]
    /\ late' = IF request_exit THEN late + 1 ELSE late
    /\ imu_poll' = "scan" /\ i' = i + 1
    /\ UNCHANGED <<sampling, count, sdkVars, request_exit>>

\* PublishImuData: LidarImuDataQueue::Pop, and a message.
PublishImuData ==
    /\ imu_poll = "publish"
    /\ imu_data' = [imu_data EXCEPT ![i] = @ - 1]
    /\ late' = IF request_exit THEN late + 1 ELSE late
    /\ imu_poll' = "poll"
    /\ UNCHANGED <<sampling, count, sdkVars, i, request_exit>>

-----------------------------------------------------------------------------
Storing == Push \/ TestEmpty \/ TestCount \/ Signal

PollingImu ==
    \/ Sleep \/ WaitDone
    \/ ScanEnd \/ ScanSkip \/ ScanEnter
    \/ PollEnter \/ PollDone \/ PublishImuData

-----------------------------------------------------------------------------
(* Properties                                                                *)

\* The IMU part of a type invariant.
ImuTypeOK ==
    /\ sampling \subseteq Lidar /\ armed \subseteq sampling
    /\ imu_data \in [Lidar -> 0 .. MaxImu]
    /\ count \in Nat
    /\ sdk \in {"idle", "push", "pushed", "test", "signal"}
    /\ target \in Lidar
    /\ imu_poll \in {"none", "enter", "wait", "asleep", "scan", "poll", "publish",
                     "leave", "ended"}
    /\ i \in 1 .. N + 1
    /\ request_exit \in BOOLEAN
    /\ late \in Nat

\* No wake-up is lost between the push, the unlocked test of the count and the
\* poll thread going to sleep, and the semaphore stays binary: when the poll
\* thread sleeps and the SDK's thread is done, the queues of the lidars that
\* were Sampling when their last datum came are empty.
NoLostImu ==
    /\ count <= 1
    /\ (imu_poll = "asleep" /\ sdk = "idle") => \A l \in armed : imu_data[l] = 0

\* An exit request is final: of all that is in the queues or comes later, at
\* most one datum more is published, also when another node is started.
ExitIsFinal == late <= 1
=============================================================================
