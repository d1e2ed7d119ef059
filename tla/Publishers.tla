------------------------------ MODULE Publishers ------------------------------
(****************************************************************************)
(* From a lidar's data to its ROS topic: the threads that look up the        *)
(* device of a lidar and store its frames or IMU data there (lds.cpp), and   *)
(* the poll threads that publish what a device holds, on a publisher they    *)
(* create when they first need it (lddc.cpp).  Composed with CacheIndex,     *)
(* which says what device a lidar has and what is written into it.           *)
(*                                                                           *)
(* What wakes the poll threads is the business of PointDelivery and          *)
(* ImuDelivery, and the steps of a ring that of FrameQueue: here a ring is a *)
(* sequence of frames, and popping and publishing one is a step.             *)
(****************************************************************************)
EXTENDS CacheIndex, Sequences, SequencesExt

CONSTANTS
    Settings,       \* transfer format, multi-topic and output to ROS, to choose from
    MaxFrames,      \* bound on the frames of one lidar, ...
    MaxImu,         \* ... on its IMU data ...
    MaxStored       \* ... and on what is stored altogether

\* The values of TransferType.
kPointCloud2Msg == 0
kLivoxCustomMsg == 1
kPclPxyziMsg == 2
kLivoxImuMsg == 3
kAllMsg == 4

\* Handles are IPv4 addresses in network order, the first number of the dotted
\* form in the low byte; 0 is no lidar's.
ASSUME PublishersAssumption ==
    /\ Handle \subseteq Nat \ {0} /\ NoHandle = 0
    /\ Looker = {"processing", "sdk"}
    /\ Settings \subseteq [format : {kPointCloud2Msg, kLivoxCustomMsg, kPclPxyziMsg, kAllMsg},
                            multi : BOOLEAN, ros : BOOLEAN]
    /\ {MaxFrames, MaxImu, MaxStored} \subseteq Nat

VARIABLES
    transfer_format,  \* the parameters of the node, ...
    use_multi_topic,
    output_to_ros,
    sampling,         \* devices whose connect_state is kConnectStateSampling
    data,             \* frames each device holds
    imu_data,         \* IMU data each device holds
    pubs,             \* the publishers of Lddc
    polling,          \* the device the point cloud poll thread is at
    request_exit,
    stored,           \* number of frames and IMU data each lidar has stored
    out,              \* messages published, in order
    crashed           \* a publisher was used that is null

paramVars == <<transfer_format, use_multi_topic, output_to_ros>>
queueVars == <<sampling, data, imu_data, stored>>
pubVars == <<pubs, out, crashed>>
vars == <<cacheVars, paramVars, queueVars, pubVars, polling, request_exit>>

Nobody == -1           \* the point cloud poll thread is at no device

\* No publisher, or a null one.
Null == [kind |-> "none", topic |-> "none"]

\* What a lidar stores is told apart by the lidar and a number.
Datum(h, n) == [lidar |-> h, no |-> n]

Init ==
    /\ CacheInit
    /\ \E s \in Settings :
        /\ transfer_format = s.format
        /\ use_multi_topic = s.multi
        /\ output_to_ros = s.ros
    /\ sampling = {}
    /\ data = [i \in Index |-> <<>>]
    /\ imu_data = [i \in Index |-> <<>>]
    /\ pubs = [private |-> [i \in Index |-> Null], global |-> Null, global_2 |-> Null,
               private_imu |-> [i \in Index |-> Null], global_imu |-> Null]
    /\ polling = Nobody
    /\ request_exit = FALSE
    /\ stored = [h \in Handle |-> [frames |-> 0, imu |-> 0]]
    /\ out = <<>>
    /\ crashed = FALSE

-----------------------------------------------------------------------------
(* Storing                                                                   *)

\* What is stored and what an index is being looked up for.
Stored ==
    FoldFunction(LAMBDA s, n : s.frames + s.imu + n, 0, stored)
        + Cardinality({t \in Looker : look_at[t] # "idle"})

\* GetIndex for data there is still room for in the bounds.
LookUp(t, h) ==
    /\ IF t = "sdk" THEN stored[h].imu < MaxImu ELSE stored[h].frames < MaxFrames
    /\ Stored < MaxStored
    /\ Find(t, h)

\* StoragePointData, on the processing thread: a frame of the lidar whose
\* index was looked up.
StoragePointData ==
    LET h == look_key["processing"]
        i == look_index["processing"]
    IN  /\ Use("processing")
        /\ stored' = [stored EXCEPT ![h].frames = @ + 1]
        /\ data' = [data EXCEPT ![i] = Append(@, Datum(h, stored[h].frames + 1))]
        /\ UNCHANGED <<imu_data, sampling>>

\* StorageImuData, on the SDK's thread.
StorageImuData ==
    LET h == look_key["sdk"]
        i == look_index["sdk"]
    IN  /\ Use("sdk")
        /\ stored' = [stored EXCEPT ![h].imu = @ + 1]
        /\ imu_data' = [imu_data EXCEPT ![i] = Append(@, Datum(h, stored[h].imu + 1))]
        /\ UNCHANGED <<data, sampling>>

\* A command callback makes a device Sampling (see DeviceConfig).
BecomeSampling(i) ==
    /\ i \in lidar_type \ sampling
    /\ sampling' = sampling \cup {i}
    /\ UNCHANGED <<data, imu_data, stored, request_exit>>

-----------------------------------------------------------------------------
(* Publishers.  Each operator takes the publishers p and returns them as the *)
(* function leaves them, or the publisher it returns.                        *)

Topic(name, of) == [name |-> name, of |-> of]

\* A publisher for one kind of message, null for every other type.
CreatePublisher(msg_type, topic) ==
    CASE msg_type = kPointCloud2Msg -> [kind |-> "PointCloud2", topic |-> topic]
      [] msg_type = kLivoxCustomMsg -> [kind |-> "CustomMsg", topic |-> topic]
      [] msg_type = kLivoxImuMsg -> [kind |-> "Imu", topic |-> topic]
      [] OTHER -> Null

\* Fault: the first device's publisher serves them all.
PrivateTopicFirst(name, i) == Topic(name, handle[0])

\* The topic of one device, named after the address its device has.
PrivateTopic(name, i) == Topic(name, handle[i])

\* GetCurrentPublisher and GetCurrentPublisher2 create the same publishers ...
WithPublisher(p, i) ==
    IF use_multi_topic THEN
        IF p.private[i] # Null THEN p
        ELSE [p EXCEPT !.private[i] =
                 CreatePublisher(transfer_format, PrivateTopic("livox/lidar", i))]
    ELSE IF p.global # Null THEN p
    ELSE IF transfer_format = kAllMsg THEN
        [p EXCEPT !.global = CreatePublisher(kLivoxCustomMsg, Topic("livox/lidar", "all")),
                  !.global_2 = CreatePublisher(kPointCloud2Msg,
                                               Topic("livox/lidar/pointcloud", "all"))]
    ELSE [p EXCEPT !.global = CreatePublisher(transfer_format, Topic("livox/lidar", "all"))]

\* ... and return different ones.
CurrentPublisher(p, i) == IF use_multi_topic THEN p.private[i] ELSE p.global
CurrentPublisher2(p, i) == IF use_multi_topic THEN p.private[i] ELSE p.global_2

WithImuPublisher(p, i) ==
    IF use_multi_topic THEN
        IF p.private_imu[i] # Null THEN p
        ELSE [p EXCEPT !.private_imu[i] =
                 CreatePublisher(kLivoxImuMsg, PrivateTopic("livox/imu", i))]
    ELSE IF p.global_imu # Null THEN p
    ELSE [p EXCEPT !.global_imu = CreatePublisher(kLivoxImuMsg, Topic("livox/imu", "all"))]

CurrentImuPublisher(p, i) == IF use_multi_topic THEN p.private_imu[i] ELSE p.global_imu

\* dynamic_pointer_cast to the kind of the message: null for another kind.
Cast(pub, kind) == IF pub # Null /\ pub.kind = kind THEN pub ELSE Null

\* The messages: what is in them stands for itself, but a CustomMsg also has a
\* lidar_id, the handle of a device with a type cut to a uint8_t.
LowByte(address) == address % 256

InitPointcloud2Msg(datum) == [kind |-> "PointCloud2", datum |-> datum]
InitCustomMsg(datum, i) ==
    [kind |-> "CustomMsg", datum |-> datum,
     lidar_id |-> IF i \in lidar_type THEN LowByte(handle[i]) ELSE 0]
InitImuMsg(datum) == [kind |-> "Imu", datum |-> datum]

\* Publishing the messages msgs, in order, with the publishers of the same
\* place in ps.  Nothing is published when the output is not ROS.
PublishAll(ps, msgs) ==
    LET cast == [n \in DOMAIN ps |-> Cast(ps[n], msgs[n].kind)]
        null == \E n \in DOMAIN ps : cast[n] = Null
    IN  IF ~output_to_ros THEN UNCHANGED <<out, crashed>>
        ELSE IF null THEN crashed' = TRUE /\ UNCHANGED out
        ELSE /\ out' = out \o [n \in DOMAIN ps |-> [topic |-> cast[n].topic, msg |-> msgs[n]]]
             /\ UNCHANGED crashed

-----------------------------------------------------------------------------
(* The point cloud poll thread                                               *)

\* PollingLidarPointCloudData is entered for a device, or goes on with it.
Poll(i) ==
    /\ polling = Nobody
    /\ i \in sampling /\ data[i] # <<>> /\ ~request_exit
    /\ polling' = i
    /\ UNCHANGED <<queueVars, pubVars>>

\* QueuePop.
Pop(i) ==
    /\ polling = i /\ data[i] # <<>>
    /\ data' = [data EXCEPT ![i] = Tail(@)]
    /\ UNCHANGED <<sampling, imu_data, stored, polling>>

PublishPointcloud2(i) ==
    /\ transfer_format = kPointCloud2Msg
    /\ Pop(i)
    /\ pubs' = WithPublisher(pubs, i)
    /\ PublishAll(<<CurrentPublisher(pubs', i)>>, <<InitPointcloud2Msg(Head(data[i]))>>)

PublishCustomPointcloud(i) ==
    /\ transfer_format = kLivoxCustomMsg
    /\ Pop(i)
    /\ pubs' = WithPublisher(pubs, i)
    /\ PublishAll(<<CurrentPublisher(pubs', i)>>, <<InitCustomMsg(Head(data[i]), i)>>)

\* Fault: popped for each of the messages.
PublishPointcloud2AndCustomMsgTwice(i) ==
    /\ transfer_format = kAllMsg
    /\ polling = i /\ Len(data[i]) > 1
    /\ data' = [data EXCEPT ![i] = Tail(Tail(@))]
    /\ UNCHANGED <<sampling, imu_data, stored, polling>>
    /\ pubs' = WithPublisher(pubs, i)
    /\ PublishAll(<<CurrentPublisher2(pubs', i), CurrentPublisher(pubs', i)>>,
                  <<InitPointcloud2Msg(Head(data[i])), InitCustomMsg(Head(data[i]), i)>>)

PublishPointcloud2AndCustomMsg(i) ==
    /\ transfer_format = kAllMsg
    /\ Pop(i)
    /\ pubs' = WithPublisher(pubs, i)
    /\ PublishAll(<<CurrentPublisher2(pubs', i), CurrentPublisher(pubs', i)>>,
                  <<InitPointcloud2Msg(Head(data[i])), InitCustomMsg(Head(data[i]), i)>>)

\* The ROS 2 build of PublishPclMsg returns at once, and is called again.
PublishPclMsg(i) ==
    /\ transfer_format = kPclPxyziMsg
    /\ polling = i /\ data[i] # <<>> /\ ~request_exit
    /\ UNCHANGED <<queueVars, pubVars, polling>>

\* Fault: the loop around PublishPclMsg does not look at the exit request.
PollDoneDrained(i) ==
    /\ polling = i
    /\ data[i] = <<>>
    /\ polling' = Nobody
    /\ UNCHANGED <<queueVars, pubVars>>

\* The loops end.  Those that publish do not look at the exit request before
\* the ring is empty; the one around PublishPclMsg does each time.
PollDone(i) ==
    /\ polling = i
    /\ data[i] = <<>> \/ (transfer_format = kPclPxyziMsg /\ request_exit)
    /\ polling' = Nobody
    /\ UNCHANGED <<queueVars, pubVars>>

\* The IMU poll thread: PollingLidarImuData and PublishImuData.
PublishImuData(i) ==
    /\ i \in sampling /\ imu_data[i] # <<>> /\ ~request_exit
    /\ imu_data' = [imu_data EXCEPT ![i] = Tail(@)]
    /\ pubs' = WithImuPublisher(pubs, i)
    /\ PublishAll(<<CurrentImuPublisher(pubs', i)>>, <<InitImuMsg(Head(imu_data[i]))>>)
    /\ UNCHANGED <<sampling, data, stored, polling>>

RequestExit ==
    /\ ~request_exit
    /\ request_exit' = TRUE
    /\ UNCHANGED queueVars

-----------------------------------------------------------------------------
(* The threads, while none has crashed the process.                          *)

Devices ==
    /\ ~crashed
    /\ \/ Registering
       \/ \E t \in Looker : (\E h \in Handle : LookUp(t, h)) \/ Read(t)
    /\ UNCHANGED <<paramVars, queueVars, pubVars, polling, request_exit>>

Storing ==
    /\ ~crashed
    /\ StoragePointData \/ StorageImuData
    /\ UNCHANGED <<paramVars, pubVars, polling, request_exit>>

Publishing(i) ==
    \/ PublishPointcloud2(i) \/ PublishCustomPointcloud(i)
    \/ PublishPointcloud2AndCustomMsg(i) \/ PublishPclMsg(i)

PollingPoints ==
    /\ ~crashed
    /\ \E i \in Index : Poll(i) \/ Publishing(i) \/ PollDone(i)
    /\ UNCHANGED <<cacheVars, paramVars, request_exit>>

PollingImu ==
    /\ ~crashed
    /\ \E i \in Index : PublishImuData(i)
    /\ UNCHANGED <<cacheVars, paramVars, request_exit>>

Environment ==
    /\ ~crashed
    /\ RequestExit \/ \E i \in Index : BecomeSampling(i)
    /\ UNCHANGED <<cacheVars, paramVars, pubVars, polling>>

Next == Devices \/ Storing \/ PollingPoints \/ PollingImu \/ Environment

\* The poll thread runs on.
Fairness == WF_vars(PollingPoints)

Spec == Init /\ [][Next]_vars /\ Fairness

-----------------------------------------------------------------------------
(* Properties                                                                *)

\* The kinds of message that a transfer format stands for.
Kinds ==
    CASE transfer_format = kPointCloud2Msg -> {"PointCloud2"}
      [] transfer_format = kLivoxCustomMsg -> {"CustomMsg"}
      [] transfer_format = kAllMsg -> {"PointCloud2", "CustomMsg"}
      [] OTHER -> {}

\* A queue holds the last of the n data that lidar h has stored, in order.
HoldsLast(queue, h, n) ==
    /\ Len(queue) <= n
    /\ \A k \in 1 .. Len(queue) : queue[k] = Datum(h, n - Len(queue) + k)

\* The places of lidar h's messages of a kind among the messages published.
Of(messages, h, kind) ==
    {j \in 1 .. Len(messages) :
        messages[j].msg.kind = kind /\ messages[j].msg.datum.lidar = h}

\* They are of the first m data that it stored, one of each, in order.
PublishesFirst(messages, h, kind, m) ==
    LET No(j) == messages[j].msg.datum.no
    IN  /\ {No(j) : j \in Of(messages, h, kind)} = 1 .. m
        /\ \A j, k \in Of(messages, h, kind) : j < k => No(j) < No(k)

\* What a lidar stores is published once in each kind of message its format
\* stands for, and in no other, in the order it was stored, whatever device
\* the lidar was given while lookups and registrations raced; what is not
\* published yet is held by its own device, which holds nothing else.
DeliveredInOrder ==
    (output_to_ros /\ ~crashed) =>
        \A h \in Handle :
            LET i == map_index[h]
                frames == stored[h].frames
                imu == stored[h].imu
            IN  i # NoIndex =>
                    /\ HoldsLast(data[i], h, frames) /\ HoldsLast(imu_data[i], h, imu)
                    /\ \A kind \in {"PointCloud2", "CustomMsg"} :
                          IF kind \in Kinds
                             THEN PublishesFirst(out, h, kind, frames - Len(data[i]))
                             ELSE Of(out, h, kind) = {}
                    /\ PublishesFirst(out, h, "Imu", imu - Len(imu_data[i]))

\* What is published of a lidar has the name that its own device has, never that
\* of another, though the name is read when the lidar's data have long been
\* stored: the whole address in the topic, if each lidar has its own, and its low
\* byte in a CustomMsg.  Lidars that the configuration file does not list all have
\* the address 0.  That lidar_id tells lidars apart is not said, and not true:
\* see LidarIdTells.
NamedAfterItsLidar ==
    \A n \in DOMAIN out :
        LET h == out[n].msg.datum.lidar
            own == handle[map_index[h]]
        IN  /\ own \in {h, NoHandle}
            /\ use_multi_topic => out[n].topic.of = own
            /\ out[n].msg.kind = "CustomMsg" => out[n].msg.lidar_id = LowByte(own)

\* What CustomMsg.msg:6 calls lidar_id, a "Lidar device id number": two lidars
\* that have an address, and so are listed, do not publish with the same one.
LidarIdTells ==
    \A m, n \in {k \in DOMAIN out : out[k].msg.kind = "CustomMsg"} :
        LET g == out[m].msg.datum.lidar
            h == out[n].msg.datum.lidar
        IN  (g # h /\ NoHandle \notin {handle[map_index[g]], handle[map_index[h]]}) =>
                out[m].msg.lidar_id # out[n].msg.lidar_id

\* An exit request gets the poll thread out of the loop around PublishPclMsg, which
\* empties no ring, so that nothing else ends it, whatever is stored meanwhile.
\* The loops of the other formats end with the ring and not with the request:
\* PointDelivery has the premise under which they do.
ExitEndsPclLoop ==
    (request_exit /\ transfer_format = kPclPxyziMsg) ~> polling = Nobody
=============================================================================
