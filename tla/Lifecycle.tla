------------------------------ MODULE Lifecycle ------------------------------
(****************************************************************************)
(* The life of the driver: nodes that are constructed and destroyed one      *)
(* after the other in a process (driver_node.cpp, livox_ros_driver2.cpp),    *)
(* the LdsLidar and the PubHandler, each one for the process, that they set  *)
(* up (lds_lidar.cpp, pub_handler.cpp) and that the end of the process       *)
(* destroys, and the threads that come and go with all of them.              *)
(*                                                                           *)
(* Composed with ImuDelivery.  Of the point cloud path, which PointDelivery  *)
(* describes, only what starts, wakes, keeps and ends its poll thread is     *)
(* here: of the rings, the one that it is publishing.                        *)
(* The Livox SDK is external: its threads call back between LivoxLidarSdk-   *)
(* Init and LivoxLidarSdkUninit, which waits for them.                       *)
(****************************************************************************)
EXTENDS ImuDelivery

CONSTANTS
    Sources,      \* data sources the nodes may have, raw and others
    LidarTypes,   \* lidar types the configuration file may give
    RingSize,     \* slots of a ring
    MaxNodes      \* bound on the nodes of the process

kSourceRawLidar == 0
kLivoxLidarType == 8

ASSUME LifecycleAssumption ==
    /\ Sources \subseteq Nat /\ MaxNodes \in Nat /\ RingSize \in Nat \ {0}
    /\ LidarTypes \subseteq {0, kLivoxLidarType}

VARIABLES
    main,            \* where the main thread is
    nodes,           \* nodes constructed so far
    lds,             \* Lddc::lds_ is set in the current one
    stop,            \* its future_ has a value
    is_initialized,  \* LdsLidar::is_initialized_
    lidar_type,      \* lidar_summary_info_.lidar_type
    sdk_up,          \* the SDK runs
    setups,          \* successful calls of LivoxLidarSdkInit
    observers,       \* point cloud observers registered
    imu_callback,    \* PubHandler::imu_callback_: none, half assigned, set
    process_thread,  \* PubHandler's processing thread
    pcd_poll,        \* where the point cloud poll thread is ...
    ring,            \* ... and the frames in the ring that it publishes
    crashed          \* what was used that is not there

nodeVars == <<main, nodes, lds, stop>>
ldsVars == <<is_initialized, lidar_type, sdk_up, setups>>
handlerVars == <<observers, imu_callback, process_thread>>
pcdVars == <<pcd_poll, ring>>
vars == <<imuVars, nodeVars, ldsVars, handlerVars, pcdVars, crashed>>

Init ==
    /\ ImuInit
    /\ main = "no_node" /\ nodes = 0 /\ lds = FALSE /\ stop = FALSE
    /\ is_initialized = FALSE /\ lidar_type = 0
    /\ sdk_up = FALSE /\ setups = 0
    /\ observers = 0 /\ imu_callback = "none" /\ process_thread = "none"
    /\ pcd_poll = "none" /\ ring = 0
    /\ crashed = "no"

-----------------------------------------------------------------------------
(* The main thread: DriverNode::DriverNode                                   *)

\* The Lddc; with raw lidars as the source the one LdsLidar is registered.
NewNode(data_src) ==
    /\ main = "no_node" /\ nodes < MaxNodes
    /\ nodes' = nodes + 1
    /\ lds' = (data_src = kSourceRawLidar)
    /\ stop' = FALSE
    /\ main' = IF lds' THEN "init" ELSE "threads"
    /\ UNCHANGED <<imuVars, ldsVars, handlerVars, pcdVars, crashed>>

\* Fault: a second node initialises again.
ParseSummaryConfigAgain ==
    /\ main = "init"
    /\ \E type \in LidarTypes :
        /\ lidar_type' = type
        /\ main' = IF type = kLivoxLidarType THEN "sdk_init" ELSE "observe"
    /\ UNCHANGED <<imuVars, nodes, lds, stop, is_initialized, sdk_up, setups,
                   handlerVars, pcdVars, crashed>>

\* InitLdsLidar and ParseSummaryConfig, with an LdsLidar that is not
\* initialised and a good configuration file ...
ParseSummaryConfig ==
    /\ main = "init"
    /\ ~is_initialized
    /\ \E type \in LidarTypes :
        /\ lidar_type' = type
        /\ main' = IF type = kLivoxLidarType THEN "sdk_init" ELSE "observe"
    /\ UNCHANGED <<imuVars, nodes, lds, stop, is_initialized, sdk_up, setups,
                   handlerVars, pcdVars, crashed>>

\* ... with one that is, or with a bad file: the node goes on without.
InitFails ==
    /\ main = "init"
    /\ main' = "threads"
    /\ UNCHANGED <<imuVars, nodes, lds, stop, ldsVars, handlerVars,
                   pcdVars, crashed>>

\* InitLivoxLidar: LivoxLidarSdkInit and what follows it.
SdkInit ==
    /\ main = "sdk_init"
    /\ sdk_up' = TRUE /\ setups' = setups + 1
    /\ main' = "observe"
    /\ UNCHANGED <<imuVars, nodes, lds, stop, is_initialized, lidar_type,
                   handlerVars, pcdVars, crashed>>

SdkInitFails ==
    /\ main = "sdk_init"
    /\ main' = "threads"
    /\ UNCHANGED <<imuVars, nodes, lds, stop, ldsVars, handlerVars,
                   pcdVars, crashed>>

\* SetLidarPubHandle: SetPointCloudsCallback, the first half and the second
\* half of SetImuDataCallback, and SetPointCloudConfig; then LivoxLidarStart,
\* which always succeeds.
SetPointCloudsCallback ==
    /\ main = "observe"
    /\ observers' = observers + 1
    /\ main' = "imu_callback"
    /\ UNCHANGED <<imuVars, nodes, lds, stop, ldsVars, imu_callback,
                   process_thread, pcdVars, crashed>>

SetImuDataCallback ==
    /\ main = "imu_callback"
    /\ IF imu_callback = "none"
          THEN imu_callback' = "half" /\ main' = main
          ELSE imu_callback' = "set" /\ main' = "config"
    /\ UNCHANGED <<imuVars, nodes, lds, stop, ldsVars, observers,
                   process_thread, pcdVars, crashed>>

SetPointCloudConfig ==
    /\ main = "config"
    /\ process_thread' = "running"
    /\ is_initialized' = TRUE
    /\ main' = "threads"
    /\ UNCHANGED <<imuVars, nodes, lds, stop, lidar_type, sdk_up, setups,
                   observers, imu_callback, pcdVars, crashed>>

\* The end of the constructor: the poll threads are started, whatever failed.
StartPollThreads ==
    /\ main = "threads"
    /\ pcd_poll' = "loop" /\ imu_poll' = "enter"
    /\ main' = "running"
    /\ UNCHANGED <<sampling, imu_data, count, sdkVars, i, exitVars, nodes, lds, stop,
                   ldsVars, handlerVars, ring, crashed>>

-----------------------------------------------------------------------------
(* The main thread: DriverNode::~DriverNode and Lddc::~Lddc                  *)

\* lddc_ptr_->lds_->RequestExit(), also when no Lds is registered.
RequestExit ==
    /\ main = "running"
    /\ main' = "exit"
    /\ request_exit' = (request_exit \/ lds)
    /\ crashed' = IF lds THEN crashed ELSE "lds_"
    /\ UNCHANGED <<sampling, imu_data, count, sdkVars, imuPollVars, late, nodes, lds,
                   stop, ldsVars, handlerVars, pcdVars>>

SetExitSignal ==
    /\ main = "exit"
    /\ stop' = TRUE
    /\ main' = "join_pcd"
    /\ UNCHANGED <<imuVars, nodes, lds, ldsVars, handlerVars, pcdVars, crashed>>

JoinPcd ==
    /\ main = "join_pcd" /\ pcd_poll = "ended"
    /\ main' = "join_imu"
    /\ UNCHANGED <<imuVars, nodes, lds, stop, ldsVars, handlerVars,
                   pcdVars, crashed>>

\* Fault: the IMU poll thread is not waited for.
JoinImuDetached ==
    /\ main = "join_imu"
    /\ main' = "deinit"
    /\ UNCHANGED <<imuVars, nodes, lds, stop, ldsVars, handlerVars,
                   pcdVars, crashed>>

JoinImu ==
    /\ main = "join_imu" /\ imu_poll = "ended"
    /\ main' = "deinit"
    /\ UNCHANGED <<imuVars, nodes, lds, stop, ldsVars, handlerVars,
                   pcdVars, crashed>>

\* PrepareExit and DeInitLdsLidar.  is_initialized_ stays set: the SDK of a
\* second node is brought down a second time.  The Lddc is gone then.
DeInitLdsLidar ==
    /\ main = "deinit"
    /\ IF is_initialized /\ lidar_type = kLivoxLidarType
          THEN sdk = "idle" /\ sdk_up' = FALSE
          ELSE UNCHANGED sdk_up
    /\ lds' = FALSE
    /\ main' = "no_node"
    /\ UNCHANGED <<imuVars, nodes, stop, is_initialized, lidar_type, setups,
                   handlerVars, pcdVars, crashed>>

-----------------------------------------------------------------------------
(* The main thread: the end of the process                                   *)

\* The processing thread runs.
Processing == process_thread \in {"running", "storing"}

\* Fault: the processing thread is not joined.
UninitDetached ==
    /\ main = "no_node" /\ nodes > 0
    /\ observers' = IF observers > 0 THEN observers - 1 ELSE 0
    /\ main' = "no_handler"
    /\ UNCHANGED <<imuVars, nodes, lds, stop, ldsVars, imu_callback,
                   process_thread, pcdVars, crashed>>

\* ~PubHandler calls Uninit: the observer is removed and the processing thread
\* told to quit, which it does between two packets ...
Uninit ==
    /\ main = "no_node" /\ nodes > 0
    /\ observers' = IF observers > 0 THEN observers - 1 ELSE 0
    /\ main' = IF Processing THEN "quit" ELSE "no_handler"
    /\ UNCHANGED <<imuVars, nodes, lds, stop, ldsVars, imu_callback,
                   process_thread, pcdVars, crashed>>

\* ... and joined.
UninitJoin ==
    /\ main = "quit" /\ process_thread = "ended"
    /\ main' = "no_handler"
    /\ UNCHANGED <<imuVars, nodes, lds, stop, ldsVars, handlerVars,
                   pcdVars, crashed>>

\* ~LdsLidar, of a static object that is older: ResetLds.
ResetLds ==
    /\ main = "no_handler"
    /\ sampling' = {} /\ armed' = {}
    /\ imu_data' = [l \in Lidar |-> 0]
    /\ main' = "ended"
    /\ UNCHANGED <<count, sdk, target, imuPollVars, exitVars, nodes, lds, stop,
                   ldsVars, handlerVars,
                   pcdVars, crashed>>

-----------------------------------------------------------------------------
(* The SDK's data thread and the processing thread, and what a packet does   *)

\* OnLivoxLidarPointCloudCallback with IMU data.  It tests imu_callback_ while
\* the main thread may be assigning it: a half assigned one may look as if it
\* were not set, or be called.
ObserveImu ==
    /\ sdk_up /\ observers > 0
    /\ \/ /\ imu_callback = "set"
          /\ \E l \in Lidar : ImuDatum(l)
          /\ UNCHANGED crashed
       \/ /\ imu_callback = "half"
          /\ crashed' = "imu_callback_"
          /\ UNCHANGED imuVars
    /\ UNCHANGED <<nodeVars, ldsVars, handlerVars, pcdVars>>

StoreImu ==
    /\ Storing
    /\ UNCHANGED <<nodeVars, ldsVars, handlerVars, pcdVars, crashed>>

CommandCallback ==
    /\ sdk_up
    /\ \E l \in Lidar : BecomeSampling(l)
    /\ UNCHANGED <<nodeVars, ldsVars, handlerVars, pcdVars, crashed>>

\* The processing thread cuts a frame, from packets that may have waited since
\* before the SDK was brought down, and pushes it into a ring: the one that is
\* being published if it is that lidar's, unless that one is full.
CutFrame ==
    /\ process_thread = "running" /\ setups > 0
    /\ process_thread' = "storing"
    /\ \/ UNCHANGED ring
       \/ /\ pcd_poll = "publish" /\ ring < RingSize
          /\ ring' = ring + 1
    /\ UNCHANGED <<imuVars, nodeVars, ldsVars, observers, imu_callback,
                   pcd_poll, crashed>>

\* It tests the count of the semaphore and signals it, unless the ring is empty
\* again: then the poll thread does not wait.  That no wake-up is lost in between is
\* the business of PointDelivery.  A count that is left over while the poll thread
\* is not waiting is not kept: it does what the next frame does.
WakePcd ==
    /\ process_thread = "storing"
    /\ process_thread' = "running"
    /\ pcd_poll' = IF pcd_poll = "wait" THEN "scan" ELSE pcd_poll
    /\ UNCHANGED <<imuVars, nodeVars, ldsVars, observers, imu_callback, ring, crashed>>

Quit ==
    /\ main = "quit"
    /\ process_thread = "running"
    /\ process_thread' = "ended"
    /\ UNCHANGED <<imuVars, nodeVars, ldsVars, observers, imu_callback, pcdVars, crashed>>

-----------------------------------------------------------------------------
(* The poll threads                                                          *)

\* PointCloudDataPollThread: after each DistributePointCloudData it looks at
\* future_; the next one returns at once without an Lds or with an exit requested,
\* and else waits for the semaphore.
LoopPcd ==
    /\ pcd_poll = "loop"
    /\ pcd_poll' = IF stop THEN "ended"
                   ELSE IF lds /\ ~request_exit THEN "wait"
                   ELSE "loop"
    /\ UNCHANGED <<imuVars, nodeVars, ldsVars, handlerVars, ring, crashed>>

\* Its loop over the devices turns to one whose ring is not empty, unless an exit
\* is requested, or ends.
ScanPcd ==
    /\ pcd_poll = "scan"
    /\ \/ /\ ~request_exit
          /\ pcd_poll' = "publish" /\ ring' \in 1 .. RingSize
       \/ pcd_poll' = "loop" /\ UNCHANGED ring
    /\ UNCHANGED <<imuVars, nodeVars, ldsVars, handlerVars, crashed>>

\* A publishing loop ends when the ring is empty, whatever is requested.
PublishPcd ==
    /\ pcd_poll = "publish"
    /\ IF ring > 0 THEN ring' = ring - 1 /\ UNCHANGED pcd_poll
                   ELSE pcd_poll' = "scan" /\ UNCHANGED ring
    /\ UNCHANGED <<imuVars, nodeVars, ldsVars, handlerVars, crashed>>

\* DistributeImuData without an Lds returns at once.
EnterImu ==
    /\ IF lds THEN Enter
       ELSE /\ imu_poll = "enter" /\ imu_poll' = "leave"
            /\ UNCHANGED <<sampling, imu_data, count, sdkVars, i, exitVars>>
    /\ UNCHANGED <<nodeVars, ldsVars, handlerVars, pcdVars, crashed>>

PollImu ==
    /\ PollingImu
    /\ UNCHANGED <<nodeVars, ldsVars, handlerVars, pcdVars, crashed>>

\* The loop of ImuDataPollThread.
LeaveImu ==
    /\ imu_poll = "leave"
    /\ imu_poll' = IF stop THEN "ended" ELSE "enter"
    /\ UNCHANGED <<sampling, imu_data, count, sdkVars, i, exitVars, nodeVars, ldsVars,
                   handlerVars, pcdVars, crashed>>

-----------------------------------------------------------------------------
Constructing ==
    \/ ParseSummaryConfig \/ InitFails \/ SdkInit \/ SdkInitFails
    \/ SetPointCloudsCallback \/ SetImuDataCallback \/ SetPointCloudConfig
    \/ StartPollThreads

Destroying == SetExitSignal \/ JoinPcd \/ JoinImu \/ DeInitLdsLidar

Ending == UninitJoin \/ ResetLds

PcdThread == LoopPcd \/ ScanPcd \/ PublishPcd

ImuThread == EnterImu \/ PollImu \/ LeaveImu

Next ==
    /\ crashed = "no"
    /\ \/ \E data_src \in Sources : NewNode(data_src)
       \/ Constructing
       \/ RequestExit
       \/ Destroying
       \/ Uninit \/ Ending
       \/ ObserveImu \/ StoreImu \/ CommandCallback
       \/ CutFrame \/ WakePcd \/ Quit
       \/ PcdThread \/ ImuThread

\* The main thread and the poll threads run when they can.  Nothing makes lidars
\* send, or the node or the process end; of the SDK's data thread and the processing
\* thread the properties below say what they presume.
Fairness ==
    /\ WF_vars(crashed = "no" /\ (Constructing \/ Destroying))
    /\ WF_vars(crashed = "no" /\ PcdThread)
    /\ WF_vars(crashed = "no" /\ ImuThread)

Spec == Init /\ [][Next]_vars /\ Fairness

-----------------------------------------------------------------------------
(* Properties                                                                *)

\* Every variable has its type.
TypeOK ==
    /\ ImuTypeOK
    /\ main \in {"no_node", "init", "sdk_init", "observe", "imu_callback", "config",
                 "threads", "running", "exit", "join_pcd", "join_imu", "deinit",
                 "quit", "no_handler", "ended"}
    /\ nodes \in 0 .. MaxNodes
    /\ {lds, stop, is_initialized, sdk_up} \subseteq BOOLEAN
    /\ lidar_type \in {0, kLivoxLidarType}
    /\ setups \in Nat /\ observers \in Nat
    /\ imu_callback \in {"none", "half", "set"}
    /\ process_thread \in {"none", "running", "storing", "ended"}
    /\ pcd_poll \in {"none", "loop", "wait", "scan", "publish", "ended"}
    /\ ring \in 0 .. RingSize
    /\ crashed \in {"no", "lds_", "imu_callback_"}

\* What the processing thread, the observer and the SDK are set up for outlives
\* its node, so it is set up by one node only, whatever node comes next.
SetUpOnce == setups <= 1 /\ observers <= 1

\* No thread outlives what it works on.  The poll threads are gone when their
\* node's Lddc is, and the SDK is down; no callback can enter a PubHandler that
\* is gone; and no thread is left when the LdsLidar is.
NothingOutlives ==
    /\ main = "no_node" => /\ {pcd_poll, imu_poll} \subseteq {"none", "ended"}
                           /\ sdk = "idle" /\ ~sdk_up
    /\ main \in {"no_handler", "ended"} =>
          ~Processing /\ sdk = "idle" /\ ~(sdk_up /\ observers > 0)

\* Frames are cut and IMU data come again and again.
FramesKeepComing == []<><<CutFrame>>_vars
ImuKeepsComing == []<><<ObserveImu>>_vars

\* The poll threads publish faster than data come: the loops over a ring and over
\* a queue end.
RingPublisherKeepsUp == []<>(pcd_poll # "publish")
PublisherKeepsUp == []<>(imu_poll \notin {"poll", "publish"})

\* Both joins of the destructor return if both kinds of data come, since a poll
\* thread may be asleep when the exit is requested and only data of its kind
\* wake it, and if the publisher keeps up with the frames, since the loop over a
\* ring does not look at the request.  That over an IMU queue does.
JoinsReturn ==
    (FramesKeepComing /\ ImuKeepsComing /\ RingPublisherKeepsUp) =>
        (main = "exit" ~> main \notin {"exit", "join_pcd", "join_imu"})

\* As long as IMU data of some lidar come, the queue of every Sampling lidar is
\* drained, also of what it held when the lidar was not Sampling yet.
ImuDrains ==
    (ImuKeepsComing /\ PublisherKeepsUp) =>
        \A l \in Lidar :
            (l \in sampling /\ imu_data[l] > 0) ~> (imu_data[l] = 0 \/ request_exit)
=============================================================================
