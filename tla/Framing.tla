------------------------------- MODULE Framing -------------------------------
(****************************************************************************)
(* How point packets become frames (comm/pub_handler.cpp).                   *)
(*                                                                           *)
(* The SDK's thread receives packets, notes in is_timestamp_sync_, one flag  *)
(* for all lidars, whether the latest packet carries a synchronised time,    *)
(* stamps those that do not with the host's clock, and queues them.  The     *)
(* processing thread takes them in order, adds their points to the lidar's   *)
(* points_clouds_ and calls CheckTimer, which cuts a frame: for this lidar,  *)
(* at a multiple of the publish interval of its own clock, when time is      *)
(* synchronised; for all lidars, when the interval has passed on the host's  *)
(* clock, when it is not.                                                    *)
(*                                                                           *)
(* A packet is one point: the points of a packet are less than a millisecond *)
(* apart.  The code keeps the publish interval in nanoseconds and, without   *)
(* the fraction, in milliseconds; a unit of time here is 1/Ms milliseconds.  *)
(****************************************************************************)
EXTENDS Integers, Sequences, FiniteSets

CONSTANTS
    Lidar,          \* lidars that send points
    Listed,         \* those of them with an entry in lidar_extrinsics_
    NoLidar,        \* not a lidar
    Ms,             \* units of time in a millisecond: kRatioOfMsToNs
    Interval,       \* publish_interval_
    SyncModes,      \* whether packets may be synchronised, not, or either
    HostEpoch,      \* what the host's clock is ahead of the lidars'
    TimeMod,        \* values of a timestamp: 2^64 ns in the code
    OffsetMod,      \* values of CustomPoint.offset_time: 2^32 ns
    MaxTime,        \* bound on the time
    MaxGap,         \* bound on the time between packets of a lidar
    MaxBurst,       \* bound on the packets of a lidar in one unit of time
    MaxRaw          \* bound on the packets queued

ASSUME FramingAssumption ==
    /\ IsFiniteSet(Lidar) /\ Listed \subseteq Lidar /\ NoLidar \notin Lidar
    /\ Ms \in Nat \ {0}
    /\ Interval \in Nat /\ Interval >= 2 * Ms    \* at least 10 ms: publish_freq is at most 100
    /\ SyncModes \subseteq BOOLEAN
    /\ HostEpoch \in Nat
    /\ TimeMod \in Nat \ {0} /\ OffsetMod \in Nat \ {0}
    /\ MaxTime \in Nat \ {0} /\ MaxBurst \in Nat \ {0}
    /\ MaxGap \in Nat /\ MaxRaw \in Nat

\* publish_interval_tolerance_: kNsTolerantFrameTimeDeviation is a millisecond.
Tolerance == Interval - Ms

\* publish_interval_ms_, a quotient of integers.
IntervalMs == Interval \div Ms

VARIABLES
    now,              \* the time
    latest,           \* when each lidar last sent a packet, and how many then
    raw_packet_queue_,
    is_timestamp_sync_,
    pc, id,           \* the processing thread: before a packet, or in CheckTimer(id)
    handlers,         \* lidar_process_handlers_: the lidars heard of
    rotation,         \* whose rotation extrinsic_global is, NoLidar for none
    points_clouds_,   \* the points of each lidar that are in no frame yet
    points_,          \* the points of each lidar's last frame
    first, last_pub_time_,
    frame,            \* the frame published last: base time and points per lidar
    seq,              \* points received from each lidar
    published,        \* points published of each lidar
    epoch, cuts       \* when host-paced framing began, and its frames so far

sdkVars == <<latest, raw_packet_queue_, is_timestamp_sync_, seq>>
cloudVars == <<points_clouds_, points_, frame, published>>
hostVars == <<first, last_pub_time_, epoch, cuts>>
vars == <<now, sdkVars, pc, id, handlers, rotation, cloudVars, hostVars>>

Init ==
    /\ now = 1
    /\ latest = [l \in Lidar |-> [time |-> 1, packets |-> 0]]
    /\ raw_packet_queue_ = <<>>
    /\ is_timestamp_sync_ = FALSE
    /\ pc = "packet" /\ id \in Lidar
    /\ handlers = {} /\ rotation = NoLidar
    /\ points_clouds_ = [l \in Lidar |-> <<>>]
    /\ points_ = [l \in Lidar |-> <<>>]
    /\ first = TRUE /\ last_pub_time_ = 0 /\ epoch = 0 /\ cuts = 0
    /\ frame = <<>>
    /\ seq = [l \in Lidar |-> 0]
    /\ published = [l \in Lidar |-> <<>>]

-----------------------------------------------------------------------------
(* Time and the SDK's thread                                                 *)

HostClock == now + HostEpoch

\* Time passes as long as no lidar is silent for longer than MaxGap.  Neither clock
\* is ever set back: of the host's this is an assumption, since high_resolution_clock
\* may be the system clock, which the operating system may adjust.
Tick ==
    /\ now < MaxTime
    /\ \A l \in Lidar : now - latest[l].time < MaxGap
    /\ now' = now + 1
    /\ UNCHANGED <<sdkVars, pc, id, handlers, rotation, cloudVars, hostVars>>

\* Fault: the host's epoch is counted twice.
ReceiveTwiceEpoch(l, synced) ==
    /\ Len(raw_packet_queue_) < MaxRaw
    /\ latest[l].time < now \/ latest[l].packets < MaxBurst
    /\ latest' = [latest EXCEPT ![l] =
                    [time |-> now,
                     packets |-> IF @.time < now THEN 1 ELSE @.packets + 1]]
    /\ is_timestamp_sync_' = synced
    /\ seq' = [seq EXCEPT ![l] = @ + 1]
    /\ raw_packet_queue_' =
          Append(raw_packet_queue_,
                 [handle |-> l,
                  point |-> [offset_time |-> IF synced THEN now ELSE HostClock + HostEpoch,
                             number |-> seq'[l]]])
    /\ UNCHANGED <<now, pc, id, handlers, rotation, cloudVars, hostVars>>

\* OnLivoxLidarPointCloudCallback: GetEthPacketTimestamp takes the packet's
\* time if it is synchronised and the host's clock if not.
Receive(l, synced) ==
    /\ Len(raw_packet_queue_) < MaxRaw
    /\ latest[l].time < now \/ latest[l].packets < MaxBurst
    /\ latest' = [latest EXCEPT ![l] =
                    [time |-> now,
                     packets |-> IF @.time < now THEN 1 ELSE @.packets + 1]]
    /\ is_timestamp_sync_' = synced
    /\ seq' = [seq EXCEPT ![l] = @ + 1]
    /\ raw_packet_queue_' =
          Append(raw_packet_queue_,
                 [handle |-> l,
                  point |-> [offset_time |-> IF synced THEN now ELSE HostClock,
                             number |-> seq'[l]]])
    /\ UNCHANGED <<now, pc, id, handlers, rotation, cloudVars, hostVars>>

\* An IMU packet is passed on at once; its time sets the flag as well.
ReceiveImu(synced) ==
    /\ is_timestamp_sync_' = synced
    /\ UNCHANGED <<now, latest, raw_packet_queue_, seq, pc, id, handlers, rotation, cloudVars,
                   hostVars>>

-----------------------------------------------------------------------------
(* The processing thread: RawDataProcess and CheckTimer                      *)

GetLidarBaseTime(l) ==
    IF points_clouds_[l] = <<>> THEN 0 ELSE Head(points_clouds_[l]).offset_time

\* Fault: the oldest point is taken for the latest.
GetRecentTimeStampFront(l) ==
    IF points_clouds_[l] = <<>> THEN 0 ELSE Head(points_clouds_[l]).offset_time

GetRecentTimeStamp(l) ==
    IF points_clouds_[l] = <<>>
    THEN 0 ELSE points_clouds_[l][Len(points_clouds_[l])].offset_time

\* Whatever the packet's coordinates are, each of its points is converted and
\* added, with its time, to what its lidar has collected.
PointCloudProcess(packet) ==
    points_clouds_' = [points_clouds_ EXCEPT ![packet.handle] = Append(@, packet.point)]

\* Fault: set again with every packet.
SetLidarsExtParamAlways(l) == IF l \in Listed THEN l ELSE rotation

\* SetLidarsExtParam on the first packet of a listed lidar: its rotation becomes
\* that of the lidar's points and, in extrinsic_global, of all IMU data.
SetLidarsExtParam(l) == IF l \in Listed \ handlers THEN l ELSE rotation

\* A packet is taken and its point added.
ProcessPacket ==
    /\ pc = "packet"
    /\ raw_packet_queue_ # <<>>
    /\ LET packet == Head(raw_packet_queue_) IN
       /\ id' = packet.handle
       /\ handlers' = handlers \cup {packet.handle}
       /\ rotation' = SetLidarsExtParam(packet.handle)
       /\ PointCloudProcess(packet)
    /\ raw_packet_queue_' = Tail(raw_packet_queue_)
    /\ pc' = "timer"
    /\ UNCHANGED <<now, latest, is_timestamp_sync_, seq, points_, frame, published,
                   hostVars>>

\* Fault: the buffer is swapped in as it is.
CleanBufferKept(l) == points_[l]

\* points_[l].clear(), and GetLidarPointClouds swaps it with what l collected.
CleanBuffer(l) == <<>>

TakeClouds(ls) ==
    /\ points_' = [l \in Lidar |-> IF l \in ls THEN points_clouds_[l] ELSE points_[l]]
    /\ points_clouds_' = [l \in Lidar |->
                            IF l \in ls THEN CleanBuffer(l) ELSE points_clouds_[l]]

\* Fault: the base time is read after the points are taken.
PublishFrameLateBase(ls) ==
    /\ TakeClouds(ls)
    /\ frame' = [l \in {m \in ls : points_'[m] # <<>>} |->
                    [base_time |-> GetLidarBaseTime(l)', points |-> points_'[l]]]
    /\ published' = [l \in Lidar |->
                        IF l \in DOMAIN frame' THEN published[l] \o frame'[l].points
                                               ELSE published[l]]

\* The frame: for each lidar that has points, the base time read before they
\* are taken, and the points.  It is stored for publishing before CheckTimer
\* returns.
PublishFrame(ls) ==
    /\ TakeClouds(ls)
    /\ frame' = [l \in {m \in ls : points_'[m] # <<>>} |->
                    [base_time |-> GetLidarBaseTime(l), points |-> points_'[l]]]
    /\ published' = [l \in Lidar |->
                        IF l \in DOMAIN frame' THEN published[l] \o frame'[l].points
                                               ELSE published[l]]

\* What decides in the synchronised case, in uint64.
OnBoundary(l) ==
    /\ (GetRecentTimeStamp(l) \div Ms) % IntervalMs = 0
    /\ GetRecentTimeStamp(l) \div Ms # 0

\* Fault: every boundary packet cuts.
LongEnoughAlways(l) == TRUE

LongEnough(l) ==
    (GetRecentTimeStamp(l) - GetLidarBaseTime(l)) % TimeMod >= Tolerance

CheckTimerSync ==
    /\ pc = "timer"
    /\ is_timestamp_sync_
    /\ pc' = "packet"
    /\ IF OnBoundary(id) /\ LongEnough(id)
       THEN PublishFrame({id})
       ELSE UNCHANGED cloudVars
    /\ UNCHANGED <<now, sdkVars, id, handlers, rotation, hostVars>>

\* The first call only starts the timer.
CheckTimerFirst ==
    /\ pc = "timer"
    /\ ~is_timestamp_sync_
    /\ first
    /\ first' = FALSE
    /\ last_pub_time_' = HostClock
    /\ epoch' = HostClock
    /\ pc' = "packet"
    /\ UNCHANGED <<now, sdkVars, id, handlers, rotation, cloudVars, cuts>>

CheckTimerEarly ==
    /\ pc = "timer"
    /\ ~is_timestamp_sync_
    /\ ~first
    /\ HostClock - last_pub_time_ < Interval
    /\ pc' = "packet"
    /\ UNCHANGED <<now, sdkVars, id, handlers, rotation, cloudVars, hostVars>>

\* Fault: the timer advances by the tolerance.
CheckTimerDueShort ==
    /\ pc = "timer"
    /\ ~is_timestamp_sync_
    /\ ~first
    /\ HostClock - last_pub_time_ >= Interval
    /\ last_pub_time_' = last_pub_time_ + Tolerance
    /\ cuts' = cuts + 1
    /\ PublishFrame(handlers)
    /\ pc' = "packet"
    /\ UNCHANGED <<now, sdkVars, id, handlers, rotation, first, epoch>>

CheckTimerDue ==
    /\ pc = "timer"
    /\ ~is_timestamp_sync_
    /\ ~first
    /\ HostClock - last_pub_time_ >= Interval
    /\ last_pub_time_' = last_pub_time_ + Interval
    /\ cuts' = cuts + 1
    /\ PublishFrame(handlers)
    /\ pc' = "packet"
    /\ UNCHANGED <<now, sdkVars, id, handlers, rotation, first, epoch>>

-----------------------------------------------------------------------------
Process ==
    \/ ProcessPacket
    \/ CheckTimerSync \/ CheckTimerFirst \/ CheckTimerEarly \/ CheckTimerDue

Next ==
    \/ Tick
    \/ \E synced \in SyncModes :
          (\E l \in Lidar : Receive(l, synced)) \/ ReceiveImu(synced)
    \/ Process

Spec == Init /\ [][Next]_vars

-----------------------------------------------------------------------------
(* Properties                                                                *)

Point == [offset_time : 1 .. MaxTime + HostEpoch, number : Nat]

\* Every variable has its type.
TypeOK ==
    /\ now \in 1 .. MaxTime
    /\ latest \in [Lidar -> [time : 1 .. MaxTime, packets : 0 .. MaxBurst]]
    /\ raw_packet_queue_ \in Seq([handle : Lidar, point : Point])
    /\ is_timestamp_sync_ \in BOOLEAN
    /\ pc \in {"packet", "timer"} /\ id \in Lidar
    /\ handlers \subseteq Lidar /\ rotation \in Listed \cup {NoLidar}
    /\ points_clouds_ \in [Lidar -> Seq(Point)]
    /\ points_ \in [Lidar -> Seq(Point)]
    /\ published \in [Lidar -> Seq(Point)]
    /\ first \in BOOLEAN
    /\ last_pub_time_ \in Nat /\ epoch \in Nat /\ cuts \in Nat
    /\ seq \in [Lidar -> Nat]

\* The packets of l that wait in the packet queue, by their place in it.
Waiting(l) ==
    {j \in 1 .. Len(raw_packet_queue_) : raw_packet_queue_[j].handle = l}

\* Every point a lidar sends is published once, in the order it was received:
\* none is lost, repeated or overtaken between the packet queue, the collected
\* points, the swapped buffers and the frames, whichever way frames are cut and
\* however the flag of the synchronisation changes in between.  Points have
\* their number in the order they were received: those published and collected
\* begin it, those in the queue end it.
PointsConserved ==
    \A l \in Lidar :
        LET got == published[l] \o points_clouds_[l]
            Number(j) == raw_packet_queue_[j].point.number
        IN  /\ \A k \in 1 .. Len(got) : got[k].number = k
            /\ Len(got) <= seq[l]
            /\ {Number(j) : j \in Waiting(l)} = Len(got) + 1 .. seq[l]
            /\ \A i, j \in Waiting(l) : i < j => Number(i) < Number(j)

\* A frame has points for each lidar in it, and the base time that goes with
\* them: that of the first of these points, not of another lidar's or of the
\* emptied collection.
FrameHasItsBase ==
    \A l \in DOMAIN frame :
        /\ frame[l].points # <<>>
        /\ frame[l].base_time = Head(frame[l].points).offset_time

End(points) == points[Len(points)].offset_time
Start(points) == Head(points).offset_time

\* The one rotation that the IMU data of all lidars go through settles: once
\* every listed lidar has sent a packet it is that of one of them, if any is
\* listed, and no packet that comes later changes it.
RotationSettles ==
    [][Listed \subseteq handlers =>
          (rotation \in Listed \/ Listed = {}) /\ rotation' = rotation]_vars

\* Synchronised frames of a lidar end at different multiples of the interval in
\* milliseconds: packets that follow in the millisecond of a cut do not make
\* another frame.
FramesApart ==
    [][\A l \in Lidar :
          (points_'[l] # points_[l] /\ points_[l] # <<>>)
              => End(points_'[l]) \div Ms - End(points_[l]) \div Ms >= IntervalMs]_vars

\* When every lidar sends a packet in every millisecond, no synchronised frame
\* is longer than two intervals, nor is what has been collected for the next:
\* a frame that begins within the tolerance of a multiple of the interval ends
\* at the multiple after the next at the latest.
SpanBounded ==
    \A l \in Lidar :
        /\ points_clouds_[l] # <<>>
              => End(points_clouds_[l]) - Start(points_clouds_[l]) < 2 * Interval
        /\ points_[l] # <<>> => End(points_[l]) - Start(points_[l]) < 2 * Interval

\* Frames paced by the host's clock are on average never more than the publish
\* frequency allows (after a stall the missed ones follow at once), as long as that
\* clock is not set back (see Tick).
HostPaced == cuts * Interval <= HostClock - epoch

\* What the points of a CustomMsg say of their time: FillPointsToCustomMsg
\* subtracts the base time and keeps 32 bits.
OffsetTime(l, point) == (point.offset_time - frame[l].base_time) % OffsetMod

\* What msg/CustomPoint.msg says of offset_time: it is relative to the base
\* time, so that the two add up to the time of the point.
OffsetsAddUp ==
    \A l \in DOMAIN frame : \A k \in 1 .. Len(frame[l].points) :
        frame[l].base_time + OffsetTime(l, frame[l].points[k])
            = frame[l].points[k].offset_time
=============================================================================
