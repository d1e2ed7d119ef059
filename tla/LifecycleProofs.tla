--------------------------- MODULE LifecycleProofs ---------------------------
(* Safety of the driver's life, for any number of devices, nodes, data sources *)
(* and lidar types: what is set up once, what outlives what, and that no IMU   *)
(* datum waits for a wake-up that never comes.                                 *)
EXTENDS Lifecycle, TLAPS

-----------------------------------------------------------------------------
(* The inductive invariant of the IMU data                                   *)

\* The loop variable of the IMU poll thread names a device while it is at one,
\* and the datum it publishes is there.
AtDevice ==
    /\ imu_poll \in {"poll", "publish"} => i \in Lidar
    /\ imu_poll = "publish" => imu_data[i] > 0

\* Only the SDK's thread raises the count, from 0, and wakes the poll thread.
CountKept ==
    /\ count \in {0, 1}
    /\ sdk = "signal" \/ imu_poll = "asleep" => count = 0

\* What will make the poll thread look at queue l, or why it need not: a count
\* that is not taken, the SDK's thread on its way to the semaphore, a scan that
\* has not passed l, or an exit request that will be seen before the next wait.
WillLook(l) ==
    \/ count > 0
    \/ sdk = "signal"
    \/ sdk \in {"push", "pushed", "test"} /\ target = l
    \/ imu_poll \in {"scan", "poll", "publish"} /\ i <= l
    \/ request_exit /\ imu_poll \notin {"wait", "asleep"}

NoneForgotten == \A l \in armed : imu_data[l] > 0 => WillLook(l)

\* Once an exit is requested only the datum that is being published is left.
LastDatum ==
    /\ ~request_exit => late = 0
    /\ request_exit /\ imu_poll = "publish" => late = 0
    /\ late <= 1

ImuIInv == ImuTypeOK /\ AtDevice /\ CountKept /\ NoneForgotten /\ LastDatum

-----------------------------------------------------------------------------
(* The inductive invariant of the threads                                    *)

BeforeThreads ==
    {"no_node", "init", "sdk_init", "observe", "imu_callback", "config", "threads"}
AfterNode == {"no_node", "quit", "no_handler", "ended"}

\* The poll threads run between the end of the constructor and their joins.
PollThreads ==
    /\ main \in BeforeThreads \cup AfterNode \cup {"deinit"} =>
          {pcd_poll, imu_poll} \subseteq {"none", "ended"}
    /\ main = "join_imu" => pcd_poll = "ended"

\* InitLdsLidar gets past is_initialized_ once: SDK and observer are not set up
\* before it is there, and it is set at the end.
SetUpInOrder ==
    /\ main \in {"sdk_init", "observe", "imu_callback", "config"} => ~is_initialized
    /\ ~is_initialized /\ main \notin {"observe", "imu_callback", "config"} => setups = 0
    /\ ~is_initialized /\ main \notin {"imu_callback", "config"} => observers = 0
    /\ SetUpOnce

\* The SDK runs only with a configuration that DeInitLdsLidar takes for one of
\* its lidars, and its data thread only while the SDK does.
SdkKept ==
    /\ sdk # "idle" => sdk_up
    /\ sdk_up => /\ lidar_type = kLivoxLidarType
                 /\ is_initialized \/ main \in {"observe", "imu_callback", "config"}
    /\ main = "sdk_init" => lidar_type = kLivoxLidarType
    /\ main \in AfterNode => ~sdk_up
    /\ main \in {"no_handler", "ended"} => ~Processing

LifeIInv == TypeOK /\ ImuIInv /\ PollThreads /\ SetUpInOrder /\ SdkKept

\* Before the first node.
LEMMA InitLifeIInv == Init => LifeIInv
<1> SUFFICES ASSUME Init
             PROVE  LifeIInv
  OBVIOUS
<1> USE ImuAssumption, LifecycleAssumption DEF Init, ImuInit
<1>1. ImuTypeOK
  <2>1. 1 \in Lidar /\ 1 \in 1 .. N + 1 /\ 0 \in 0 .. MaxImu
    BY DEF Lidar
  <2> QED
    BY <2>1 DEF ImuTypeOK
<1>2. AtDevice /\ CountKept /\ NoneForgotten /\ LastDatum
  BY DEF AtDevice, CountKept, NoneForgotten, LastDatum
<1>3. TypeOK
  <2>1. {lds, stop, is_initialized, sdk_up} \subseteq BOOLEAN
    OBVIOUS
  <2>2. /\ nodes \in 0 .. MaxNodes /\ ring \in 0 .. RingSize
        /\ setups \in Nat /\ observers \in Nat
    OBVIOUS
  <2> QED
    BY <1>1, <2>1, <2>2 DEF TypeOK
<1>4. PollThreads /\ SetUpInOrder /\ SdkKept
  BY DEF PollThreads, SetUpInOrder, SetUpOnce, SdkKept, Processing, BeforeThreads, AfterNode
<1> QED
  BY <1>1, <1>2, <1>3, <1>4 DEF LifeIInv, ImuIInv

-----------------------------------------------------------------------------
(* The SDK's threads and the IMU data                                        *)

\* A lidar becomes Sampling, a datum comes, and what its storing does.
LEMMA StoringStep ==
    ASSUME ImuIInv,
           \/ \E l \in Lidar : BecomeSampling(l) \/ ImuDatum(l)
           \/ Storing
    PROVE  ImuIInv'
<1> USE ImuAssumption DEF ImuIInv
<1>1. ASSUME NEW l \in Lidar, BecomeSampling(l)
      PROVE  ImuIInv'
  BY <1>1 DEF BecomeSampling, ImuTypeOK, AtDevice, CountKept, NoneForgotten, WillLook,
              LastDatum, sdkVars, imuPollVars, exitVars
<1>2. ASSUME NEW l \in Lidar, ImuDatum(l)
      PROVE  ImuIInv'
  BY <1>2 DEF ImuDatum, ImuTypeOK, AtDevice, CountKept, NoneForgotten, WillLook,
              LastDatum, imuPollVars, exitVars
<1>3. CASE Push
  <2>1. /\ imu_data' \in [Lidar -> 0 .. MaxImu]
        /\ \A l \in Lidar : imu_data'[l] >= imu_data[l]
        /\ \A l \in Lidar : l # target => imu_data'[l] = imu_data[l]
    BY <1>3 DEF Push, ImuTypeOK
  <2>2. ImuTypeOK' /\ CountKept' /\ LastDatum'
    BY <1>3, <2>1 DEF Push, ImuTypeOK, CountKept, LastDatum, imuPollVars, exitVars
  <2>3. AtDevice'
    BY <1>3, <2>1 DEF Push, ImuTypeOK, AtDevice, imuPollVars
  <2>4. NoneForgotten'
    BY <1>3, <2>1 DEF Push, ImuTypeOK, NoneForgotten, WillLook, imuPollVars, exitVars
  <2> QED
    BY <2>2, <2>3, <2>4
<1>4. CASE TestEmpty
  BY <1>4 DEF TestEmpty, ImuTypeOK, AtDevice, CountKept, NoneForgotten, WillLook,
              LastDatum, imuPollVars, exitVars
<1>5. CASE TestCount
  BY <1>5 DEF TestCount, ImuTypeOK, AtDevice, CountKept, NoneForgotten, WillLook,
              LastDatum, imuPollVars, exitVars
<1>6. CASE Signal
  BY <1>6 DEF Signal, ImuTypeOK, AtDevice, CountKept, NoneForgotten, WillLook,
              LastDatum, exitVars
<1> QED
  BY <1>1, <1>2, <1>3, <1>4, <1>5, <1>6 DEF Storing

-----------------------------------------------------------------------------
(* The IMU poll thread                                                       *)

\* Waiting and the scan.
LEMMA PollingStep ==
    ASSUME ImuIInv, Enter \/ PollingImu
    PROVE  ImuIInv'
<1> USE ImuAssumption DEF ImuIInv
<1>1. CASE Enter
  BY <1>1 DEF Enter, ImuTypeOK, AtDevice, CountKept, NoneForgotten, WillLook,
              LastDatum, sdkVars, exitVars
<1>2. CASE Sleep
  BY <1>2 DEF Sleep, ImuTypeOK, AtDevice, CountKept, NoneForgotten, WillLook,
              LastDatum, sdkVars, exitVars
<1>3. CASE WaitDone
  <2>1. ImuTypeOK' /\ AtDevice' /\ CountKept' /\ LastDatum'
    BY <1>3 DEF WaitDone, ImuTypeOK, AtDevice, CountKept, LastDatum, sdkVars, exitVars
  <2>2. NoneForgotten'
    BY <1>3 DEF WaitDone, ImuTypeOK, NoneForgotten, WillLook, Lidar, sdkVars, exitVars
  <2> QED
    BY <2>1, <2>2
<1>4. CASE ScanEnd
  BY <1>4 DEF ScanEnd, ImuTypeOK, AtDevice, CountKept, NoneForgotten, WillLook,
              LastDatum, Lidar, sdkVars, exitVars
<1>5. CASE ScanSkip
  <2>1. ImuTypeOK' /\ AtDevice' /\ CountKept' /\ LastDatum'
    BY <1>5 DEF ScanSkip, ImuTypeOK, AtDevice, CountKept, LastDatum, sdkVars, exitVars
  <2>2. NoneForgotten'
    BY <1>5 DEF ScanSkip, ImuTypeOK, NoneForgotten, WillLook, Lidar, sdkVars, exitVars
  <2> QED
    BY <2>1, <2>2
<1>6. CASE ScanEnter
  BY <1>6 DEF ScanEnter, ImuTypeOK, AtDevice, CountKept, NoneForgotten, WillLook,
              LastDatum, Lidar, sdkVars, exitVars
<1>7. CASE PollEnter
  BY <1>7 DEF PollEnter, ImuTypeOK, AtDevice, CountKept, NoneForgotten, WillLook,
              LastDatum, sdkVars, exitVars
<1>8. CASE PollDone
  <2>1. ImuTypeOK' /\ AtDevice' /\ CountKept' /\ LastDatum'
    BY <1>8 DEF PollDone, ImuTypeOK, AtDevice, CountKept, LastDatum, Lidar, sdkVars, exitVars
  <2>2. NoneForgotten'
    BY <1>8 DEF PollDone, ImuTypeOK, NoneForgotten, WillLook, Lidar, sdkVars, exitVars
  <2> QED
    BY <2>1, <2>2
<1>9. CASE PublishImuData
  <2>1. i \in Lidar /\ imu_data[i] > 0
    BY <1>9 DEF PublishImuData, AtDevice
  <2>2. /\ imu_data' \in [Lidar -> 0 .. MaxImu]
        /\ \A l \in Lidar : l # i => imu_data'[l] = imu_data[l]
    BY <1>9, <2>1 DEF PublishImuData, ImuTypeOK
  <2>3. ImuTypeOK' /\ AtDevice' /\ CountKept' /\ LastDatum'
    BY <1>9, <2>1, <2>2 DEF PublishImuData, ImuTypeOK, AtDevice, CountKept, LastDatum, sdkVars
  <2>4. NoneForgotten'
    BY <1>9, <2>1, <2>2 DEF PublishImuData, ImuTypeOK, NoneForgotten, WillLook, Lidar, sdkVars
  <2> QED
    BY <2>3, <2>4
<1> QED
  BY <1>1, <1>2, <1>3, <1>4, <1>5, <1>6, <1>7, <1>8, <1>9 DEF PollingImu

\* What the node's main thread does to the IMU data, and the start and the end
\* of the poll thread's calls.
LEMMA NodeOnImuStep ==
    ASSUME ImuIInv, PollThreads,
           \/ StartPollThreads \/ RequestExit \/ ResetLds
           \/ EnterImu \/ LeaveImu
    PROVE  ImuIInv'
<1> USE ImuAssumption DEF ImuIInv
<1>1. CASE StartPollThreads
  <2>1. imu_poll \in {"none", "ended"}
    BY <1>1 DEF StartPollThreads, PollThreads, BeforeThreads
  <2> QED
    BY <1>1, <2>1 DEF StartPollThreads, ImuTypeOK, AtDevice, CountKept, NoneForgotten,
                      WillLook, LastDatum, sdkVars, exitVars
<1>2. CASE RequestExit
  BY <1>2 DEF RequestExit, ImuTypeOK, AtDevice, CountKept, NoneForgotten, WillLook,
              LastDatum, sdkVars, imuPollVars
<1>3. CASE ResetLds
  <2>1. imu_poll \in {"none", "ended"}
    BY <1>3 DEF ResetLds, PollThreads, AfterNode
  <2>2. imu_data' \in [Lidar -> 0 .. MaxImu]
    BY <1>3 DEF ResetLds
  <2> QED
    BY <1>3, <2>1, <2>2 DEF ResetLds, ImuTypeOK, AtDevice, CountKept, NoneForgotten,
                            LastDatum, imuPollVars, exitVars
<1>4. CASE EnterImu
  <2>1. CASE Enter
    BY <2>1, PollingStep
  <2>2. CASE imu_poll = "enter" /\ imu_poll' = "leave"
             /\ UNCHANGED <<sampling, imu_data, count, sdkVars, i, exitVars>>
    BY <2>2 DEF ImuTypeOK, AtDevice, CountKept, NoneForgotten, WillLook, LastDatum,
                sdkVars, exitVars
  <2> QED
    BY <1>4, <2>1, <2>2 DEF EnterImu
<1>5. CASE LeaveImu
  BY <1>5 DEF LeaveImu, ImuTypeOK, AtDevice, CountKept, NoneForgotten, WillLook,
              LastDatum, sdkVars, exitVars
<1> QED
  BY <1>1, <1>2, <1>3, <1>4, <1>5

\* Every step keeps the invariant of the IMU data.
LEMMA ImuNextStep == ImuIInv /\ PollThreads /\ [Next]_vars => ImuIInv'
<1> SUFFICES ASSUME ImuIInv, PollThreads, [Next]_vars
             PROVE  ImuIInv'
  OBVIOUS
<1>1. ASSUME UNCHANGED imuVars
      PROVE  ImuIInv'
  BY <1>1 DEF ImuIInv, ImuTypeOK, AtDevice, CountKept, NoneForgotten, WillLook,
              LastDatum, imuVars, sdkVars, imuPollVars, exitVars
<1>2. CASE UNCHANGED vars
  BY <1>1, <1>2 DEF vars
<1>3. CASE (\E data_src \in Sources : NewNode(data_src)) \/ Destroying \/ Uninit \/ UninitJoin
  BY <1>1, <1>3 DEF NewNode, Destroying, SetExitSignal, JoinPcd, JoinImu, DeInitLdsLidar,
                    Uninit, UninitJoin
<1>4. CASE Constructing
  <2>1. UNCHANGED imuVars \/ StartPollThreads
    BY <1>4 DEF Constructing, ParseSummaryConfig, InitFails, SdkInit, SdkInitFails,
                SetPointCloudsCallback, SetImuDataCallback, SetPointCloudConfig
  <2> QED
    BY <2>1, <1>1, NodeOnImuStep
<1>5. CASE RequestExit \/ ResetLds \/ EnterImu \/ LeaveImu
  BY <1>5, NodeOnImuStep
<1>6. CASE ObserveImu \/ StoreImu \/ CommandCallback
  <2>1. \/ UNCHANGED imuVars
        \/ \E l \in Lidar : BecomeSampling(l) \/ ImuDatum(l)
        \/ Storing
    BY <1>6 DEF ObserveImu, StoreImu, CommandCallback
  <2> QED
    BY <2>1, <1>1, StoringStep
<1>7. CASE CutFrame \/ WakePcd \/ Quit \/ PcdThread
  BY <1>1, <1>7 DEF CutFrame, WakePcd, Quit, PcdThread, LoopPcd, ScanPcd, PublishPcd
<1>8. CASE PollImu
  BY <1>8, PollingStep DEF PollImu
<1> QED
  BY <1>2, <1>3, <1>4, <1>5, <1>6, <1>7, <1>8 DEF Next, Ending, ImuThread

-----------------------------------------------------------------------------
(* The threads                                                               *)

\* The steps of the poll threads and of the SDK's threads.
LEMMA ThreadStep ==
    ASSUME LifeIInv,
           \/ ObserveImu \/ StoreImu \/ CommandCallback
           \/ CutFrame \/ WakePcd \/ Quit
           \/ PcdThread \/ ImuThread
    PROVE  PollThreads' /\ SetUpInOrder' /\ SdkKept'
<1>1. UNCHANGED <<main, is_initialized, lidar_type, sdk_up, setups, observers>>
  BY DEF ObserveImu, StoreImu, CommandCallback, CutFrame, WakePcd, Quit, PcdThread, LoopPcd,
         ScanPcd, PublishPcd, ImuThread, EnterImu, PollImu, LeaveImu, nodeVars, ldsVars,
         handlerVars
<1>2. SetUpInOrder'
  BY <1>1 DEF LifeIInv, SetUpInOrder, SetUpOnce
<1>3. pcd_poll \in {"none", "ended"} => pcd_poll' = pcd_poll
  BY DEF ObserveImu, StoreImu, CommandCallback, CutFrame, WakePcd, Quit, PcdThread, LoopPcd,
         ScanPcd, PublishPcd, ImuThread, EnterImu, PollImu, LeaveImu, pcdVars
<1>4. imu_poll \in {"none", "ended"} => imu_poll' = imu_poll
  BY DEF ObserveImu, ImuDatum, StoreImu, Storing, Push, TestEmpty, TestCount, Signal,
         CommandCallback, BecomeSampling, CutFrame, WakePcd, Quit, PcdThread, LoopPcd,
         ScanPcd, PublishPcd, ImuThread, EnterImu, Enter, PollImu, PollingImu, Sleep,
         WaitDone, ScanEnd, ScanSkip, ScanEnter, PollEnter, PollDone, PublishImuData,
         LeaveImu, imuVars, imuPollVars
<1>5. PollThreads'
  BY <1>1, <1>3, <1>4 DEF LifeIInv, PollThreads
<1>6. sdk' # "idle" => sdk # "idle" \/ sdk_up
  BY DEF ObserveImu, ImuDatum, StoreImu, Storing, Push, TestEmpty, TestCount, Signal,
         CommandCallback, BecomeSampling, CutFrame, WakePcd, Quit, PcdThread, LoopPcd,
         ScanPcd, PublishPcd, ImuThread, EnterImu, Enter, PollImu, PollingImu, Sleep,
         WaitDone, ScanEnd, ScanSkip, ScanEnter, PollEnter, PollDone, PublishImuData,
         LeaveImu, imuVars, sdkVars
<1>7. Processing' => Processing
  BY DEF Processing, ObserveImu, StoreImu, CommandCallback, CutFrame, WakePcd, Quit,
         PcdThread, LoopPcd, ScanPcd, PublishPcd, ImuThread, EnterImu, PollImu, LeaveImu, handlerVars
<1>8. SdkKept'
  BY <1>1, <1>6, <1>7 DEF LifeIInv, SdkKept
<1> QED
  BY <1>2, <1>5, <1>8

\* The constructor.
LEMMA ConstructingStep ==
    ASSUME LifeIInv, (\E data_src \in Sources : NewNode(data_src)) \/ Constructing
    PROVE  PollThreads' /\ SetUpInOrder' /\ SdkKept'
<1> USE LifecycleAssumption
        DEF LifeIInv, PollThreads, SetUpInOrder, SetUpOnce, SdkKept, Processing,
            BeforeThreads, AfterNode
<1>1. ASSUME NEW data_src \in Sources, NewNode(data_src)
      PROVE  PollThreads' /\ SetUpInOrder' /\ SdkKept'
  BY <1>1 DEF NewNode, imuVars, sdkVars, imuPollVars, ldsVars, handlerVars, pcdVars
<1>2. CASE ParseSummaryConfig
  BY <1>2 DEF ParseSummaryConfig, imuVars, sdkVars, imuPollVars, handlerVars, pcdVars
<1>3. CASE InitFails
  BY <1>3 DEF InitFails, imuVars, sdkVars, imuPollVars, ldsVars, handlerVars, pcdVars
<1>4. CASE SdkInit
  BY <1>4 DEF SdkInit, imuVars, sdkVars, imuPollVars, handlerVars, pcdVars
<1>5. CASE SdkInitFails
  BY <1>5 DEF SdkInitFails, imuVars, sdkVars, imuPollVars, ldsVars, handlerVars, pcdVars
<1>6. CASE SetPointCloudsCallback
  BY <1>6 DEF SetPointCloudsCallback, imuVars, sdkVars, imuPollVars, ldsVars, pcdVars
<1>7. CASE SetImuDataCallback
  BY <1>7 DEF SetImuDataCallback, imuVars, sdkVars, imuPollVars, ldsVars, pcdVars
<1>8. CASE SetPointCloudConfig
  BY <1>8 DEF SetPointCloudConfig, imuVars, sdkVars, imuPollVars, pcdVars
<1>9. CASE StartPollThreads
  BY <1>9 DEF StartPollThreads, sdkVars, ldsVars, handlerVars
<1> QED
  BY <1>1, <1>2, <1>3, <1>4, <1>5, <1>6, <1>7, <1>8, <1>9 DEF Constructing

\* The destructor and the end of the process.
LEMMA DestroyingStep ==
    ASSUME LifeIInv, RequestExit \/ Destroying \/ Uninit \/ Ending
    PROVE  PollThreads' /\ SetUpInOrder' /\ SdkKept'
<1> USE DEF LifeIInv, PollThreads, SetUpInOrder, SetUpOnce, SdkKept, Processing,
            BeforeThreads, AfterNode
<1>1. CASE RequestExit
  BY <1>1 DEF RequestExit, sdkVars, imuPollVars, ldsVars, handlerVars, pcdVars
<1>2. CASE SetExitSignal
  BY <1>2 DEF SetExitSignal, imuVars, sdkVars, imuPollVars, ldsVars, handlerVars, pcdVars
<1>3. CASE JoinPcd
  BY <1>3 DEF JoinPcd, imuVars, sdkVars, imuPollVars, ldsVars, handlerVars, pcdVars
<1>4. CASE JoinImu
  BY <1>4 DEF JoinImu, imuVars, sdkVars, imuPollVars, ldsVars, handlerVars, pcdVars
<1>5. CASE DeInitLdsLidar
  BY <1>5 DEF DeInitLdsLidar, imuVars, sdkVars, imuPollVars, handlerVars, pcdVars
<1>6. CASE Uninit
  BY <1>6 DEF Uninit, TypeOK, imuVars, sdkVars, imuPollVars, ldsVars, pcdVars
<1>7. CASE UninitJoin
  BY <1>7 DEF UninitJoin, imuVars, sdkVars, imuPollVars, ldsVars, handlerVars, pcdVars
<1>8. CASE ResetLds
  BY <1>8 DEF ResetLds, imuPollVars, ldsVars, handlerVars, pcdVars
<1> QED
  BY <1>1, <1>2, <1>3, <1>4, <1>5, <1>6, <1>7, <1>8 DEF Destroying, Ending

\* The types of what is not IMU data.
LEMMA TypeStep == LifeIInv /\ ImuIInv' /\ [Next]_vars => TypeOK'
<1> SUFFICES ASSUME LifeIInv, ImuIInv', [Next]_vars
             PROVE  TypeOK'
  OBVIOUS
<1> USE LifecycleAssumption DEF LifeIInv, TypeOK
<1>1. ImuTypeOK'
  BY DEF ImuIInv
<1>2. ASSUME NEW data_src \in Sources, NewNode(data_src)
      PROVE  TypeOK'
  <2>1. nodes' \in 0 .. MaxNodes
    BY <1>2 DEF NewNode
  <2> QED
    BY <1>1, <1>2, <2>1 DEF NewNode, ldsVars, handlerVars, pcdVars
<1>3. CASE Constructing
  <2>1. CASE ParseSummaryConfig
    BY <1>1, <2>1 DEF ParseSummaryConfig, handlerVars, pcdVars
  <2>2. CASE InitFails \/ SdkInitFails \/ StartPollThreads
    BY <1>1, <2>2 DEF InitFails, SdkInitFails, StartPollThreads, ldsVars, handlerVars, pcdVars
  <2>3. CASE SdkInit
    BY <1>1, <2>3 DEF SdkInit, handlerVars, pcdVars
  <2>4. CASE SetPointCloudsCallback
    BY <1>1, <2>4 DEF SetPointCloudsCallback, ldsVars, pcdVars
  <2>5. CASE SetImuDataCallback \/ SetPointCloudConfig
    BY <1>1, <2>5 DEF SetImuDataCallback, SetPointCloudConfig, ldsVars, pcdVars
  <2> QED
    BY <1>3, <2>1, <2>2, <2>3, <2>4, <2>5 DEF Constructing
<1>4. CASE RequestExit \/ Destroying \/ UninitJoin \/ ResetLds
  <2>1. UNCHANGED <<nodes, lidar_type, setups, handlerVars, pcdVars>>
    BY <1>4 DEF RequestExit, Destroying, SetExitSignal, JoinPcd, JoinImu, DeInitLdsLidar,
                UninitJoin, ResetLds, ldsVars
  <2>2. /\ main' \in {"exit", "join_pcd", "join_imu", "deinit", "no_node", "no_handler",
                     "ended"}
        /\ crashed' \in {crashed, "lds_"}
    BY <1>4 DEF RequestExit, Destroying, SetExitSignal, JoinPcd, JoinImu, DeInitLdsLidar,
                UninitJoin, ResetLds
  <2>3. {lds, stop, is_initialized, sdk_up}' \subseteq BOOLEAN
    BY <1>4 DEF RequestExit, Destroying, SetExitSignal, JoinPcd, JoinImu, DeInitLdsLidar,
                UninitJoin, ResetLds, ldsVars
  <2> QED
    BY <1>1, <2>1, <2>2, <2>3 DEF handlerVars, pcdVars
<1>5. CASE Uninit
  BY <1>1, <1>5 DEF Uninit, ldsVars, pcdVars
<1>6. CASE ObserveImu \/ StoreImu \/ CommandCallback \/ Quit \/ ImuThread
  BY <1>1, <1>6 DEF ObserveImu, StoreImu, CommandCallback, Quit, ImuThread, EnterImu,
        PollImu, LeaveImu, nodeVars, ldsVars, handlerVars, pcdVars
<1>7. CASE CutFrame \/ WakePcd \/ PcdThread
  <2>1. ring' \in 0 .. RingSize
    BY <1>7 DEF CutFrame, WakePcd, PcdThread, LoopPcd, ScanPcd, PublishPcd
  <2> QED
    BY <1>1, <1>7, <2>1 DEF CutFrame, WakePcd, PcdThread, LoopPcd, ScanPcd, PublishPcd,
        nodeVars, ldsVars, handlerVars
<1>8. CASE UNCHANGED vars
  BY <1>1, <1>8 DEF vars, nodeVars, ldsVars, handlerVars, pcdVars
<1> QED
  BY <1>2, <1>3, <1>4, <1>5, <1>6, <1>7, <1>8 DEF Next, Ending

-----------------------------------------------------------------------------
(* The theorems                                                              *)

\* Every step keeps the invariant.
LEMMA LifeNextStep == LifeIInv /\ [Next]_vars => LifeIInv'
<1> SUFFICES ASSUME LifeIInv, [Next]_vars
             PROVE  LifeIInv'
  OBVIOUS
<1>1. ImuIInv'
  BY ImuNextStep DEF LifeIInv
<1>2. TypeOK'
  BY <1>1, TypeStep
<1>3. PollThreads' /\ SetUpInOrder' /\ SdkKept'
  <2>1. CASE UNCHANGED vars
    BY <2>1 DEF LifeIInv, PollThreads, SetUpInOrder, SetUpOnce, SdkKept, vars, imuVars,
                sdkVars, imuPollVars, nodeVars, ldsVars, handlerVars, pcdVars, Processing
  <2>2. CASE Next
    BY <2>2, ThreadStep, ConstructingStep, DestroyingStep DEF Next
  <2> QED
    BY <2>1, <2>2
<1> QED
  BY <1>1, <1>2, <1>3 DEF LifeIInv

\* The invariant holds for any number of devices and nodes.
THEOREM LifeInvariance == Spec => []LifeIInv
  BY InitLifeIInv, LifeNextStep, PTL DEF Spec

\* Every variable has its type.
THEOREM LifeTypes == Spec => []TypeOK
<1>1. LifeIInv => TypeOK
  BY DEF LifeIInv
<1> QED
  BY <1>1, LifeInvariance, PTL

\* No IMU datum of a Sampling lidar waits while both threads rest, although the
\* count of the semaphore is tested without its mutex.
THEOREM ImuNotLost == Spec => []NoLostImu
<1>1. LifeIInv => NoLostImu
  BY DEF LifeIInv, ImuIInv, ImuTypeOK, CountKept, NoneForgotten, WillLook, NoLostImu
<1> QED
  BY <1>1, LifeInvariance, PTL

\* After an exit request at most one IMU datum more is published, whatever is
\* in the queues and however many nodes follow.
THEOREM ExitFinal == Spec => []ExitIsFinal
<1>1. LifeIInv => ExitIsFinal
  BY DEF LifeIInv, ImuIInv, LastDatum, ExitIsFinal
<1> QED
  BY <1>1, LifeInvariance, PTL

\* SDK and observer are set up at most once in a process.
THEOREM SetUpByOne == Spec => []SetUpOnce
<1>1. LifeIInv => SetUpOnce
  BY DEF LifeIInv, SetUpInOrder
<1> QED
  BY <1>1, LifeInvariance, PTL

\* No thread outlives what it works on.
THEOREM TornDownInOrder == Spec => []NothingOutlives
<1>1. LifeIInv => NothingOutlives
  BY DEF LifeIInv, PollThreads, SdkKept, BeforeThreads, AfterNode, NothingOutlives, Processing
<1> QED
  BY <1>1, LifeInvariance, PTL
=============================================================================
