---------------------------- MODULE FramingProofs ----------------------------
(* Frames, their base times, the pace of the host's clock and the rotation of *)
(* IMU data, for any number of lidars, any interval and any clocks; that every *)
(* point is published once and in order; and, where time is synchronised, how *)
(* long frames are and how far apart.                                         *)
EXTENDS Framing, SequenceTheorems, TLAPS

-----------------------------------------------------------------------------
(* The inductive invariant                                                   *)

\* The timer has advanced by an interval per frame since it was started, and
\* never beyond the host's clock.
TimerBehind ==
    /\ first => cuts = 0 /\ epoch = 0
    /\ ~first => last_pub_time_ = epoch + cuts * Interval /\ last_pub_time_ <= HostClock

\* The rotation is set with the first packet of the first listed lidar.
RotationOfListed == handlers \cap Listed # {} => rotation \in Listed

FramingIInv == TypeOK /\ FrameHasItsBase /\ TimerBehind /\ RotationOfListed

\* What one more frame makes of the time the frames have taken.
LEMMA IntervalAdded == \A n \in Nat : (n + 1) * Interval = n * Interval + Interval
  BY FramingAssumption

\* The head of a queue is one of its members.
LEMMA HeadOfQueue ==
    ASSUME NEW S, NEW q \in Seq(S), q # <<>>
    PROVE  Head(q) \in S
  OBVIOUS

\* Before the first packet.
LEMMA InitFramingIInv == Init => FramingIInv
<1> SUFFICES ASSUME Init
             PROVE  FramingIInv
  OBVIOUS
<1> USE FramingAssumption DEF Init
<1>1. TypeOK
  <2>1. now \in 1 .. MaxTime
    OBVIOUS
  <2>2. latest \in [Lidar -> [time : 1 .. MaxTime, packets : 0 .. MaxBurst]]
    OBVIOUS
  <2>3. <<>> \in Seq(Point) /\ <<>> \in Seq([handle : Lidar, point : Point])
    OBVIOUS
  <2> QED
    BY <2>1, <2>2, <2>3 DEF TypeOK
<1>2. FrameHasItsBase
  BY DEF FrameHasItsBase
<1>3. TimerBehind /\ RotationOfListed
  BY DEF TimerBehind, RotationOfListed
<1> QED
  BY <1>1, <1>2, <1>3 DEF FramingIInv

-----------------------------------------------------------------------------
(* Time and the SDK's thread                                                 *)

\* Time only moves the host's clock on.
LEMMA TickStep == FramingIInv /\ Tick => FramingIInv'
<1> SUFFICES ASSUME FramingIInv, Tick
             PROVE  FramingIInv'
  OBVIOUS
<1> USE FramingAssumption
<1>1. TypeOK'
  <2>1. now \in 1 .. MaxTime /\ now < MaxTime /\ now' = now + 1
    BY DEF FramingIInv, TypeOK, Tick
  <2>2. now' \in 1 .. MaxTime
    BY <2>1
  <2>3. /\ UNCHANGED <<latest, raw_packet_queue_, is_timestamp_sync_, seq, pc, id, handlers,
                        rotation, points_clouds_, points_, published>>
        /\ UNCHANGED <<first, last_pub_time_, epoch, cuts>>
    BY DEF Tick, sdkVars, cloudVars, hostVars
  <2> QED
    BY <2>2, <2>3 DEF FramingIInv, TypeOK
<1>2. TimerBehind'
  BY DEF FramingIInv, TypeOK, TimerBehind, HostClock, Tick, hostVars
<1>3. FrameHasItsBase' /\ RotationOfListed'
  BY DEF FramingIInv, FrameHasItsBase, RotationOfListed, Tick, cloudVars
<1> QED
  BY <1>1, <1>2, <1>3 DEF FramingIInv

\* A packet is queued with one of the two clocks, both within their bound.
LEMMA ReceiveStep ==
    ASSUME FramingIInv, NEW l \in Lidar, NEW synced \in BOOLEAN, Receive(l, synced)
    PROVE  FramingIInv'
<1> USE FramingAssumption
<1>1. /\ seq' \in [Lidar -> Nat] /\ seq'[l] \in Nat
  <2>1. seq \in [Lidar -> Nat] /\ seq' = [seq EXCEPT ![l] = @ + 1]
    BY DEF FramingIInv, TypeOK, Receive
  <2> QED
    BY <2>1
<1>2. latest' \in [Lidar -> [time : 1 .. MaxTime, packets : 0 .. MaxBurst]]
  <2>1. /\ latest[l].time \in 1 .. MaxTime /\ latest[l].packets \in 0 .. MaxBurst
        /\ now \in 1 .. MaxTime
    BY DEF FramingIInv, TypeOK
  <2>2. (IF latest[l].time < now THEN 1 ELSE latest[l].packets + 1) \in 0 .. MaxBurst
    BY <2>1 DEF Receive
  <2> QED
    BY <2>1, <2>2 DEF FramingIInv, TypeOK, Receive
<1>3. raw_packet_queue_' \in Seq([handle : Lidar, point : Point])
  <2> DEFINE stamp == IF synced THEN now ELSE HostClock
             packet == [handle |-> l, point |-> [offset_time |-> stamp, number |-> seq'[l]]]
  <2>1. stamp \in 1 .. MaxTime + HostEpoch
    <3>1. now \in 1 .. MaxTime
      BY DEF FramingIInv, TypeOK
    <3>2. HostEpoch \in Nat /\ MaxTime \in Nat
      OBVIOUS
    <3>3. now \in 1 .. MaxTime + HostEpoch /\ now + HostEpoch \in 1 .. MaxTime + HostEpoch
      BY ONLY <3>1, <3>2
    <3> QED
      BY <3>3 DEF HostClock
  <2>2. raw_packet_queue_' = Append(raw_packet_queue_, packet)
    BY DEF Receive
  <2> HIDE DEF stamp
  <2>3. packet \in [handle : Lidar, point : Point]
    BY <1>1, <2>1 DEF Point
  <2> HIDE DEF packet
  <2> QED
    BY <2>2, <2>3 DEF FramingIInv, TypeOK
<1>4. TypeOK'
  BY <1>1, <1>2, <1>3 DEF FramingIInv, TypeOK, Receive, cloudVars, hostVars
<1>5. TimerBehind' /\ FrameHasItsBase' /\ RotationOfListed'
  BY DEF FramingIInv, TimerBehind, HostClock, FrameHasItsBase, RotationOfListed, Receive,
         cloudVars, hostVars
<1> QED
  BY <1>4, <1>5 DEF FramingIInv

\* An IMU packet sets the flag.
LEMMA ReceiveImuStep ==
    ASSUME FramingIInv, NEW synced \in BOOLEAN, ReceiveImu(synced)
    PROVE  FramingIInv'
<1>1. TypeOK'
  BY DEF FramingIInv, TypeOK, ReceiveImu, cloudVars, hostVars
<1>2. TimerBehind' /\ FrameHasItsBase' /\ RotationOfListed'
  BY DEF FramingIInv, TimerBehind, HostClock, FrameHasItsBase, RotationOfListed, ReceiveImu,
         cloudVars, hostVars
<1> QED
  BY <1>1, <1>2 DEF FramingIInv

-----------------------------------------------------------------------------
(* The processing thread                                                     *)

\* The first packet of a listed lidar sets the rotation.
LEMMA ProcessPacketStep == FramingIInv /\ ProcessPacket => FramingIInv'
<1> SUFFICES ASSUME FramingIInv, ProcessPacket
             PROVE  FramingIInv'
  OBVIOUS
<1> DEFINE packet == Head(raw_packet_queue_)
<1>1. packet \in [handle : Lidar, point : Point]
  <2>1. /\ raw_packet_queue_ \in Seq([handle : Lidar, point : Point])
        /\ raw_packet_queue_ # <<>>
    BY DEF FramingIInv, TypeOK, ProcessPacket
  <2> QED
    BY <2>1, HeadOfQueue
<1>2. /\ packet.handle \in Lidar /\ packet.point \in Point
      /\ id' = packet.handle /\ handlers' = handlers \cup {packet.handle}
      /\ rotation' = SetLidarsExtParam(packet.handle)
      /\ points_clouds_' =
            [points_clouds_ EXCEPT ![packet.handle] = Append(@, packet.point)]
      /\ raw_packet_queue_' = Tail(raw_packet_queue_)
  BY <1>1 DEF ProcessPacket, PointCloudProcess
<1> HIDE DEF packet
<1>3. points_clouds_' \in [Lidar -> Seq(Point)]
  <2>1. Append(points_clouds_[packet.handle], packet.point) \in Seq(Point)
    BY <1>2 DEF FramingIInv, TypeOK
  <2> QED
    BY <1>2, <2>1 DEF FramingIInv, TypeOK
<1>4. raw_packet_queue_' \in Seq([handle : Lidar, point : Point])
  BY <1>2 DEF FramingIInv, TypeOK, ProcessPacket
<1>5. rotation' \in Listed \cup {NoLidar} /\ RotationOfListed'
  <2>1. /\ rotation \in Listed \cup {NoLidar}
        /\ handlers \cap Listed # {} => rotation \in Listed
    BY DEF FramingIInv, TypeOK, RotationOfListed
  <2>2. CASE packet.handle \in Listed \ handlers
    <3>1. rotation' = packet.handle
      BY <1>2, <2>2 DEF SetLidarsExtParam
    <3> QED
      BY <2>2, <3>1 DEF RotationOfListed
  <2>3. CASE packet.handle \notin Listed \ handlers
    <3>1. rotation' = rotation
      BY <1>2, <2>3 DEF SetLidarsExtParam
    <3>2. handlers' \cap Listed # {} => handlers \cap Listed # {}
      BY <1>2, <2>3
    <3> QED
      BY <2>1, <3>1, <3>2 DEF RotationOfListed
  <2> QED
    BY <2>2, <2>3
<1>6. TypeOK'
  BY <1>2, <1>3, <1>4, <1>5 DEF FramingIInv, TypeOK, ProcessPacket, hostVars
<1>7. TimerBehind' /\ FrameHasItsBase'
  BY DEF FramingIInv, TimerBehind, HostClock, FrameHasItsBase, ProcessPacket, hostVars
<1> QED
  BY <1>5, <1>6, <1>7 DEF FramingIInv

\* A frame has the points that were collected, and the base time of the first.
LEMMA PublishFrameStep ==
    ASSUME TypeOK, NEW ls \in SUBSET Lidar, PublishFrame(ls)
    PROVE  /\ points_clouds_' \in [Lidar -> Seq(Point)]
           /\ points_' \in [Lidar -> Seq(Point)]
           /\ published' \in [Lidar -> Seq(Point)]
           /\ FrameHasItsBase'
<1>1. \A l \in Lidar :
          /\ points_clouds_[l] \in Seq(Point) /\ points_[l] \in Seq(Point)
          /\ published[l] \in Seq(Point)
  BY DEF TypeOK
<1>2. /\ points_' = [l \in Lidar |-> IF l \in ls THEN points_clouds_[l] ELSE points_[l]]
      /\ points_clouds_' = [l \in Lidar |-> IF l \in ls THEN <<>> ELSE points_clouds_[l]]
  BY DEF PublishFrame, TakeClouds, CleanBuffer
<1>3. points_clouds_' \in [Lidar -> Seq(Point)] /\ points_' \in [Lidar -> Seq(Point)]
  BY <1>1, <1>2
<1>4. frame' = [l \in {m \in ls : points_'[m] # <<>>} |->
                    [base_time |-> GetLidarBaseTime(l), points |-> points_'[l]]]
  BY DEF PublishFrame
<1>5. \A l \in DOMAIN frame' :
          /\ l \in Lidar /\ points_clouds_[l] # <<>>
          /\ frame'[l].points = points_clouds_[l]
          /\ frame'[l].base_time = Head(points_clouds_[l]).offset_time
  BY <1>2, <1>4 DEF GetLidarBaseTime
<1>6. FrameHasItsBase'
  BY <1>5 DEF FrameHasItsBase
<1>7. published' \in [Lidar -> Seq(Point)]
  <2>1. published' = [l \in Lidar |->
                         IF l \in DOMAIN frame' THEN published[l] \o frame'[l].points
                                                ELSE published[l]]
    BY DEF PublishFrame
  <2>2. \A l \in DOMAIN frame' : published[l] \o frame'[l].points \in Seq(Point)
    BY <1>1, <1>5
  <2> QED
    BY <1>1, <2>1, <2>2
<1> QED
  BY <1>3, <1>6, <1>7

\* A frame is cut at a boundary of the lidar's clock, or not.
LEMMA CheckTimerSyncStep == FramingIInv /\ CheckTimerSync => FramingIInv'
<1> SUFFICES ASSUME FramingIInv, CheckTimerSync
             PROVE  FramingIInv'
  OBVIOUS
<1>1. /\ points_clouds_' \in [Lidar -> Seq(Point)]
      /\ points_' \in [Lidar -> Seq(Point)]
      /\ published' \in [Lidar -> Seq(Point)]
      /\ FrameHasItsBase'
  <2>1. CASE PublishFrame({id})
    <3>1. TypeOK /\ {id} \in SUBSET Lidar
      BY DEF FramingIInv, TypeOK
    <3> QED
      BY <2>1, <3>1, PublishFrameStep
  <2>2. CASE UNCHANGED cloudVars
    BY <2>2 DEF FramingIInv, TypeOK, FrameHasItsBase, cloudVars
  <2> QED
    BY <2>1, <2>2 DEF CheckTimerSync
<1>2. TypeOK'
  BY <1>1 DEF FramingIInv, TypeOK, CheckTimerSync, sdkVars, hostVars
<1>3. TimerBehind' /\ RotationOfListed'
  BY DEF FramingIInv, TimerBehind, HostClock, RotationOfListed, CheckTimerSync, hostVars
<1> QED
  BY <1>1, <1>2, <1>3 DEF FramingIInv

\* The timer is started, or not due.
LEMMA CheckTimerIdleStep == FramingIInv /\ (CheckTimerFirst \/ CheckTimerEarly) => FramingIInv'
<1> SUFFICES ASSUME FramingIInv, CheckTimerFirst \/ CheckTimerEarly
             PROVE  FramingIInv'
  OBVIOUS
<1>1. now \in Nat /\ HostClock \in Nat
  BY FramingAssumption DEF FramingIInv, TypeOK, HostClock
<1>2. TypeOK'
  BY <1>1 DEF FramingIInv, TypeOK, CheckTimerFirst, CheckTimerEarly, sdkVars, cloudVars, hostVars
<1>3. TimerBehind'
  <2>1. CASE CheckTimerFirst
    <3>1. /\ ~first' /\ epoch' = HostClock /\ last_pub_time_' = HostClock /\ cuts' = 0
          /\ HostClock' = HostClock
      BY <2>1 DEF FramingIInv, TimerBehind, HostClock, CheckTimerFirst
    <3>2. 0 * Interval = 0
      BY FramingAssumption
    <3> QED
      BY <1>1, <3>1, <3>2 DEF TimerBehind
  <2>2. CASE CheckTimerEarly
    BY <2>2 DEF FramingIInv, TimerBehind, HostClock, CheckTimerEarly, hostVars
  <2> QED
    BY <2>1, <2>2
<1>4. FrameHasItsBase' /\ RotationOfListed'
  BY DEF FramingIInv, FrameHasItsBase, RotationOfListed, CheckTimerFirst, CheckTimerEarly,
         cloudVars
<1> QED
  BY <1>2, <1>3, <1>4 DEF FramingIInv

\* A frame of all lidars, and the timer advances by one interval.
LEMMA CheckTimerDueStep == FramingIInv /\ CheckTimerDue => FramingIInv'
<1> SUFFICES ASSUME FramingIInv, CheckTimerDue
             PROVE  FramingIInv'
  OBVIOUS
<1>1. /\ points_clouds_' \in [Lidar -> Seq(Point)]
      /\ points_' \in [Lidar -> Seq(Point)]
      /\ published' \in [Lidar -> Seq(Point)]
      /\ FrameHasItsBase'
  <2>1. TypeOK /\ handlers \in SUBSET Lidar /\ PublishFrame(handlers)
    BY DEF FramingIInv, TypeOK, CheckTimerDue
  <2> QED
    BY <2>1, PublishFrameStep
<1>2. /\ cuts \in Nat /\ epoch \in Nat /\ last_pub_time_ \in Nat
      /\ HostClock \in Nat /\ Interval \in Nat
  BY FramingAssumption DEF FramingIInv, TypeOK, HostClock
<1>3. TypeOK'
  BY <1>1, <1>2 DEF FramingIInv, TypeOK, CheckTimerDue, sdkVars
<1>4. TimerBehind'
  <2>1. /\ ~first' /\ epoch' = epoch /\ cuts' = cuts + 1 /\ HostClock' = HostClock
        /\ last_pub_time_' = last_pub_time_ + Interval
        /\ last_pub_time_ = epoch + cuts * Interval
        /\ HostClock - last_pub_time_ >= Interval
    BY DEF FramingIInv, TimerBehind, HostClock, CheckTimerDue
  <2>2. (cuts + 1) * Interval = cuts * Interval + Interval /\ cuts * Interval \in Nat
    BY <1>2, IntervalAdded
  <2> QED
    BY <1>2, <2>1, <2>2 DEF TimerBehind
<1>5. RotationOfListed'
  BY DEF FramingIInv, RotationOfListed, CheckTimerDue
<1> QED
  BY <1>1, <1>3, <1>4, <1>5 DEF FramingIInv

-----------------------------------------------------------------------------
(* The theorems                                                              *)

\* Every step keeps the invariant.
LEMMA FramingNextStep == FramingIInv /\ [Next]_vars => FramingIInv'
<1> SUFFICES ASSUME FramingIInv, [Next]_vars
             PROVE  FramingIInv'
  OBVIOUS
<1>1. ASSUME NEW synced \in SyncModes,
             (\E l \in Lidar : Receive(l, synced)) \/ ReceiveImu(synced)
      PROVE  FramingIInv'
  <2>1. synced \in BOOLEAN
    BY FramingAssumption
  <2> QED
    BY <1>1, <2>1, ReceiveStep, ReceiveImuStep
<1>2. CASE Process
  BY <1>2, ProcessPacketStep, CheckTimerSyncStep, CheckTimerIdleStep, CheckTimerDueStep
     DEF Process
<1>3. CASE UNCHANGED vars
  BY <1>3 DEF FramingIInv, TypeOK, TimerBehind, HostClock, FrameHasItsBase,
              RotationOfListed, vars, sdkVars, cloudVars, hostVars
<1> QED
  BY <1>1, <1>2, <1>3, TickStep DEF Next

\* The invariant holds for any number of lidars, any interval and any clocks.
THEOREM FramingInvariance == Spec => []FramingIInv
  BY InitFramingIInv, FramingNextStep, PTL DEF Spec

\* Every variable has its type.
THEOREM FramingTypes == Spec => []TypeOK
<1>1. FramingIInv => TypeOK
  BY DEF FramingIInv
<1> QED
  BY <1>1, FramingInvariance, PTL

\* A frame has points for each lidar in it and the base time of their first.
THEOREM BaseOfFrame == Spec => []FrameHasItsBase
<1>1. FramingIInv => FrameHasItsBase
  BY DEF FramingIInv
<1> QED
  BY <1>1, FramingInvariance, PTL

\* Since host-paced framing began there were no more frames than intervals.
THEOREM PacedByHost == Spec => []HostPaced
<1>1. FramingIInv => HostPaced
  <2> SUFFICES ASSUME FramingIInv
               PROVE  HostPaced
    OBVIOUS
  <2>1. /\ cuts \in Nat /\ epoch \in Nat /\ HostClock \in Nat /\ Interval \in Nat
        /\ first \in BOOLEAN
    BY FramingAssumption DEF FramingIInv, TypeOK, HostClock
  <2>2. CASE first
    <3>1. cuts = 0 /\ epoch = 0 /\ 0 * Interval = 0
      BY <2>1, <2>2 DEF FramingIInv, TimerBehind
    <3> QED
      BY <2>1, <3>1 DEF HostPaced
  <2>3. CASE ~first
    <3>1. cuts * Interval \in Nat
      BY <2>1
    <3>2. last_pub_time_ = epoch + cuts * Interval /\ last_pub_time_ <= HostClock
      BY <2>3 DEF FramingIInv, TimerBehind
    <3> QED
      BY <2>1, <3>1, <3>2 DEF HostPaced
  <2> QED
    BY <2>1, <2>2, <2>3
<1> QED
  BY <1>1, FramingInvariance, PTL

\* Once every listed lidar has sent a packet the rotation of the IMU data is
\* that of one of them and stays.
THEOREM RotationSettled == Spec => RotationSettles
<1>1. FramingIInv /\ [Next]_vars =>
        [Listed \subseteq handlers =>
            (rotation \in Listed \/ Listed = {}) /\ rotation' = rotation]_vars
  <2> SUFFICES ASSUME FramingIInv, [Next]_vars, Listed \subseteq handlers
               PROVE  (rotation \in Listed \/ Listed = {}) /\ rotation' = rotation
    BY DEF vars
  <2>1. rotation \in Listed \/ Listed = {}
    BY DEF FramingIInv, RotationOfListed
  <2>2. rotation' = rotation
    BY DEF Next, Tick, Receive, ReceiveImu, Process, ProcessPacket, SetLidarsExtParam,
           CheckTimerSync, CheckTimerFirst, CheckTimerEarly, CheckTimerDue, vars
  <2> QED
    BY <2>1, <2>2
<1> QED
  BY <1>1, FramingInvariance, PTL DEF Spec, RotationSettles

-----------------------------------------------------------------------------
(* No point is lost, repeated or overtaken                                   *)

\* Points of l that are in a frame or collected.
Passed(l) == Len(published[l]) + Len(points_clouds_[l])

\* The points that have left the queue have the numbers from 1 on.
PassedNumbered ==
    \A l \in Lidar :
        /\ \A k \in 1 .. Len(published[l]) : published[l][k].number = k
        /\ \A k \in 1 .. Len(points_clouds_[l]) :
              points_clouds_[l][k].number = Len(published[l]) + k
        /\ Passed(l) <= seq[l]

\* Those in the queue have the numbers that follow, each once and in order.
WaitingNumbered ==
    \A l \in Lidar :
        /\ \A j \in Waiting(l) : raw_packet_queue_[j].point.number \in Passed(l) + 1 .. seq[l]
        /\ \A n \in Passed(l) + 1 .. seq[l] :
              \E j \in Waiting(l) : raw_packet_queue_[j].point.number = n
        /\ \A i, j \in Waiting(l) :
              i < j => raw_packet_queue_[i].point.number < raw_packet_queue_[j].point.number

\* points_ is what was published last of a lidar, and what the frame has of it.
FrameIsLast ==
    /\ \A l \in Lidar :
          /\ Len(points_[l]) <= Len(published[l])
          /\ \A k \in 1 .. Len(points_[l]) :
                points_[l][k].number = Len(published[l]) - Len(points_[l]) + k
    /\ \A l \in DOMAIN frame : l \in Lidar /\ frame[l].points = points_[l]

ConservedIInv == PassedNumbered /\ WaitingNumbered /\ FrameIsLast


\* A concatenation is numbered when its parts are.
LEMMA NumberedConcat ==
    ASSUME NEW s \in Seq(Point), NEW t \in Seq(Point)
    PROVE  /\ s \o t \in Seq(Point)
           /\ Len(s \o t) = Len(s) + Len(t)
           /\ \A k \in 1 .. Len(s) : (s \o t)[k] = s[k]
           /\ \A k \in 1 .. Len(t) : (s \o t)[Len(s) + k] = t[k]
<1>1. /\ s \o t \in Seq(Point)
      /\ Len(s \o t) = Len(s) + Len(t)
      /\ \A i \in 1 .. Len(s) + Len(t) :
            (s \o t)[i] = IF i <= Len(s) THEN s[i] ELSE t[i - Len(s)]
  BY ConcatProperties
<1>2. Len(s) \in Nat /\ Len(t) \in Nat
  BY LenProperties
<1>3. ASSUME NEW k \in 1 .. Len(s)
      PROVE  (s \o t)[k] = s[k]
  BY <1>1, <1>2
<1>4. ASSUME NEW k \in 1 .. Len(t)
      PROVE  (s \o t)[Len(s) + k] = t[k]
  <2>1. Len(s) + k \in 1 .. Len(s) + Len(t) /\ ~(Len(s) + k <= Len(s))
        /\ Len(s) + k - Len(s) = k
    BY <1>2
  <2> QED
    BY <1>1, <2>1
<1> QED
  BY <1>1, <1>3, <1>4

\* The lengths and members of the sequences a lidar's points are in.
LEMMA CloudFacts ==
    ASSUME TypeOK, NEW l \in Lidar
    PROVE  /\ published[l] \in Seq(Point) /\ Len(published[l]) \in Nat
           /\ points_clouds_[l] \in Seq(Point) /\ Len(points_clouds_[l]) \in Nat
           /\ points_[l] \in Seq(Point) /\ Len(points_[l]) \in Nat
           /\ Passed(l) \in Nat /\ seq[l] \in Nat
           /\ raw_packet_queue_ \in Seq([handle : Lidar, point : Point])
           /\ Len(raw_packet_queue_) \in Nat
           /\ \A j \in 1 .. Len(raw_packet_queue_) :
                 /\ raw_packet_queue_[j].handle \in Lidar
                 /\ raw_packet_queue_[j].point \in Point
                 /\ raw_packet_queue_[j].point.number \in Nat
<1>1. /\ published[l] \in Seq(Point) /\ points_clouds_[l] \in Seq(Point)
      /\ points_[l] \in Seq(Point) /\ seq[l] \in Nat
      /\ raw_packet_queue_ \in Seq([handle : Lidar, point : Point])
  BY DEF TypeOK
<1>2. /\ Len(published[l]) \in Nat /\ Len(points_clouds_[l]) \in Nat
      /\ Len(points_[l]) \in Nat /\ Len(raw_packet_queue_) \in Nat
  BY <1>1, LenProperties
<1>3. \A j \in 1 .. Len(raw_packet_queue_) :
          raw_packet_queue_[j] \in [handle : Lidar, point : Point]
  BY <1>1, ElementOfSeq
<1>4. \A j \in 1 .. Len(raw_packet_queue_) :
          /\ raw_packet_queue_[j].handle \in Lidar
          /\ raw_packet_queue_[j].point \in Point
          /\ raw_packet_queue_[j].point.number \in Nat
  BY <1>3 DEF Point
<1>5. Passed(l) \in Nat
  <2>1. \A a, b \in Nat : a + b \in Nat
    OBVIOUS
  <2> QED
    BY <1>2, <2>1, Zenon DEF Passed
<1> QED
  BY <1>1, <1>2, <1>4, <1>5

\* Before the first packet.
LEMMA InitConserved == Init => ConservedIInv
<1> SUFFICES ASSUME Init
             PROVE  ConservedIInv
  OBVIOUS
<1>1. Len(<<>>) = 0
  OBVIOUS
<1>2. /\ \A l \in Lidar : /\ published[l] = <<>> /\ points_clouds_[l] = <<>>
                          /\ points_[l] = <<>> /\ seq[l] = 0
      /\ raw_packet_queue_ = <<>> /\ DOMAIN frame = {}
  BY DEF Init
<1>3. ASSUME NEW l \in Lidar
      PROVE  /\ Len(published[l]) = 0 /\ Len(points_clouds_[l]) = 0 /\ Len(points_[l]) = 0
             /\ Passed(l) = 0 /\ seq[l] = 0 /\ Waiting(l) = {}
  <2>1. Len(published[l]) = 0 /\ Len(points_clouds_[l]) = 0 /\ Len(points_[l]) = 0
    BY <1>1, <1>2
  <2>2. Waiting(l) = {}
    <3>1. Len(raw_packet_queue_) = 0
      BY <1>1, <1>2
    <3> QED
      BY <3>1 DEF Waiting
  <2> QED
    BY <1>2, <2>1, <2>2 DEF Passed
<1>4. PassedNumbered
  BY <1>3 DEF PassedNumbered
<1>5. WaitingNumbered
  BY <1>3 DEF WaitingNumbered
<1>6. FrameIsLast
  <2>1. \A l \in Lidar : 1 .. Len(points_[l]) = {} /\ Len(points_[l]) <= Len(published[l])
    BY <1>3
  <2> QED
    BY <1>2, <2>1, Zenon DEF FrameIsLast
<1> QED
  BY <1>4, <1>5, <1>6 DEF ConservedIInv

\* A packet that is received gets the next number and the last place.
LEMMA ReceiveConserves ==
    ASSUME FramingIInv, ConservedIInv, NEW l \in Lidar, NEW synced \in BOOLEAN,
           Receive(l, synced)
    PROVE  ConservedIInv'
<1> DEFINE q == raw_packet_queue_
           n == Len(raw_packet_queue_)
           stamp == IF synced THEN now ELSE HostClock
           packet == [handle |-> l, point |-> [offset_time |-> stamp, number |-> seq'[l]]]
<1>1. TypeOK
  BY DEF FramingIInv
<1>2. UNCHANGED cloudVars
  BY DEF Receive
<1>3. seq' = [seq EXCEPT ![l] = seq[l] + 1] /\ seq \in [Lidar -> Nat]
  BY <1>1 DEF TypeOK, Receive
<1>4. \A m \in Lidar : seq'[m] = IF m = l THEN seq[m] + 1 ELSE seq[m]
  BY <1>3
<1>5. /\ n \in Nat
      /\ Len(q') = n + 1
      /\ \A j \in 1 .. n : q'[j] = q[j]
      /\ q'[n + 1] = packet
  <2>1. q \in Seq([handle : Lidar, point : Point]) /\ n \in Nat
    BY <1>1, CloudFacts
  <2>2. q' = Append(q, packet)
    BY DEF Receive
  <2> HIDE DEF packet
  <2> QED
    BY <2>1, <2>2
<1>6. packet.handle = l /\ packet.point.number = seq[l] + 1
  BY <1>4
<1> HIDE DEF packet, q
<1>7. \A m \in Lidar :
          Waiting(m)' = IF m = l THEN Waiting(m) \cup {n + 1} ELSE Waiting(m)
  BY <1>5, <1>6 DEF Waiting, q
<1>8. \A m \in Lidar : Passed(m)' = Passed(m) /\ Passed(m) \in Nat /\ seq[m] \in Nat
  BY <1>1, <1>2, CloudFacts DEF Passed, cloudVars
<1>9. PassedNumbered'
  <2> SUFFICES ASSUME NEW m \in Lidar
               PROVE  Passed(m)' <= seq'[m]
    BY <1>2 DEF ConservedIInv, PassedNumbered, cloudVars
  <2> QED
    BY <1>4, <1>8 DEF ConservedIInv, PassedNumbered
<1>10. WaitingNumbered'
  <2> SUFFICES ASSUME NEW m \in Lidar
               PROVE  /\ \A j \in Waiting(m)' : q'[j].point.number \in Passed(m) + 1 .. seq'[m]
                      /\ \A k \in Passed(m) + 1 .. seq'[m] :
                            \E j \in Waiting(m)' : q'[j].point.number = k
                      /\ \A i, j \in Waiting(m)' :
                            i < j => q'[i].point.number < q'[j].point.number
    BY <1>8 DEF WaitingNumbered, q
  <2>1. \A j \in Waiting(m) : j \in 1 .. n /\ q'[j] = q[j]
    BY <1>5 DEF Waiting
  <2>2. /\ \A j \in Waiting(m) : q[j].point.number \in Passed(m) + 1 .. seq[m]
        /\ \A k \in Passed(m) + 1 .. seq[m] : \E j \in Waiting(m) : q[j].point.number = k
        /\ \A i, j \in Waiting(m) : i < j => q[i].point.number < q[j].point.number
        /\ Passed(m) <= seq[m]
    BY DEF ConservedIInv, WaitingNumbered, PassedNumbered, q
  <2>3. CASE m # l
    BY <1>4, <1>7, <2>1, <2>2, <2>3
  <2>4. CASE m = l
    <3>1. /\ seq'[m] = seq[m] + 1
          /\ Waiting(m)' = Waiting(m) \cup {n + 1}
          /\ q'[n + 1].point.number = seq[m] + 1
      BY <1>4, <1>5, <1>6, <1>7, <2>4
    <3>2. ASSUME NEW j \in Waiting(m)'
          PROVE  q'[j].point.number \in Passed(m) + 1 .. seq'[m]
      <4>1. CASE j \in Waiting(m)
        <5>1. q[j].point.number \in Passed(m) + 1 .. seq[m] /\ q'[j] = q[j]
          BY <2>1, <2>2, <4>1
        <5> QED
          BY <1>8, <3>1, <5>1
      <4>2. CASE j = n + 1
        <5>1. seq[m] + 1 \in Passed(m) + 1 .. seq'[m]
          BY <1>8, <2>2, <3>1
        <5> QED
          BY <3>1, <4>2, <5>1
      <4> QED
        BY <3>1, <4>1, <4>2
    <3>3. ASSUME NEW k \in Passed(m) + 1 .. seq'[m]
          PROVE  \E j \in Waiting(m)' : q'[j].point.number = k
      <4>1. k \in Passed(m) + 1 .. seq[m] \/ k = seq[m] + 1
        BY <1>8, <3>1
      <4> QED
        BY <2>1, <2>2, <3>1, <4>1
    <3>4. ASSUME NEW i \in Waiting(m)', NEW j \in Waiting(m)', i < j
          PROVE  q'[i].point.number < q'[j].point.number
      <4>1. i \in Waiting(m)
        BY <1>5, <2>1, <3>1, <3>4
      <4>2. CASE j \in Waiting(m)
        BY <2>1, <2>2, <3>4, <4>1, <4>2
      <4>3. CASE j = n + 1
        <5>1. q[i].point.number \in Passed(m) + 1 .. seq[m] /\ q'[i] = q[i]
          BY <2>1, <2>2, <4>1
        <5>2. q[i].point.number < seq[m] + 1
          BY <1>8, <5>1
        <5> QED
          BY <3>1, <4>3, <5>1, <5>2
      <4> QED
        BY <3>1, <4>2, <4>3
    <3> QED
      BY <3>2, <3>3, <3>4
  <2> QED
    BY <2>3, <2>4
<1>11. FrameIsLast'
  BY <1>2 DEF ConservedIInv, FrameIsLast, cloudVars
<1> QED
  BY <1>9, <1>10, <1>11 DEF ConservedIInv

\* The packet at the head of the queue goes to the end of what its lidar has
\* collected, the others move up.
LEMMA PacketTaken ==
    ASSUME TypeOK, ProcessPacket
    PROVE  /\ id' \in Lidar /\ pc' = "timer"
           /\ Len(raw_packet_queue_) \in Nat \ {0}
           /\ raw_packet_queue_[1].handle = id' /\ 1 \in Waiting(id')
           /\ raw_packet_queue_[1].point \in Point
           /\ Len(raw_packet_queue_') = Len(raw_packet_queue_) - 1
           /\ \A j \in 1 .. Len(raw_packet_queue_) - 1 :
                 /\ raw_packet_queue_'[j] = raw_packet_queue_[j + 1]
                 /\ \A m \in Lidar : j \in Waiting(m)' <=> j + 1 \in Waiting(m)
           /\ \A m \in Lidar : m # id' => points_clouds_'[m] = points_clouds_[m]
           /\ Len(points_clouds_'[id']) = Len(points_clouds_[id']) + 1
           /\ \A k \in 1 .. Len(points_clouds_[id']) :
                 points_clouds_'[id'][k] = points_clouds_[id'][k]
           /\ points_clouds_'[id'][Len(points_clouds_[id']) + 1] = raw_packet_queue_[1].point
           /\ UNCHANGED <<published, points_, frame, seq, latest, now, is_timestamp_sync_>>
<1> DEFINE q == raw_packet_queue_
           n == Len(raw_packet_queue_)
           l == id'
           point == raw_packet_queue_[1].point
<1>1. /\ q \in Seq([handle : Lidar, point : Point]) /\ q # <<>>
      /\ n \in Nat /\ n > 0
      /\ Head(q) = q[1]
      /\ Len(q') = n - 1
      /\ \A j \in 1 .. n - 1 : q'[j] = q[j + 1]
  <2>1. q \in Seq([handle : Lidar, point : Point]) /\ q # <<>> /\ q' = Tail(q)
    BY DEF TypeOK, ProcessPacket
  <2> QED
    BY <2>1
<1>2. /\ q[1].handle = l /\ l \in Lidar /\ point \in Point
      /\ 1 \in Waiting(l)
  <2>1. Head(q) \in [handle : Lidar, point : Point] /\ l = Head(q).handle
    BY <1>1, HeadOfQueue DEF ProcessPacket
  <2>2. 1 \in 1 .. n
    BY <1>1
  <2> QED
    BY <1>1, <2>1, <2>2 DEF Waiting
<1>3. points_clouds_' = [points_clouds_ EXCEPT ![l] = Append(points_clouds_[l], point)]
  BY <1>1 DEF ProcessPacket, PointCloudProcess
<1> HIDE DEF l, point
<1>4. /\ \A m \in Lidar : m # l => points_clouds_'[m] = points_clouds_[m]
      /\ Len(points_clouds_'[l]) = Len(points_clouds_[l]) + 1
      /\ \A k \in 1 .. Len(points_clouds_[l]) : points_clouds_'[l][k] = points_clouds_[l][k]
      /\ points_clouds_'[l][Len(points_clouds_[l]) + 1] = point
  <2>1. points_clouds_ \in [Lidar -> Seq(Point)] /\ points_clouds_[l] \in Seq(Point)
    BY <1>2 DEF TypeOK
  <2>2. points_clouds_'[l] = Append(points_clouds_[l], point)
    BY <1>2, <1>3, <2>1
  <2> QED
    BY <1>2, <1>3, <2>1, <2>2, AppendProperties
<1>5. \A m \in Lidar, j \in 1 .. n - 1 : j \in Waiting(m)' <=> j + 1 \in Waiting(m)
  <2> SUFFICES ASSUME NEW m \in Lidar, NEW j \in 1 .. n - 1
               PROVE  j \in Waiting(m)' <=> j + 1 \in Waiting(m)
    OBVIOUS
  <2>1. j + 1 \in 1 .. n /\ q'[j] = q[j + 1] /\ j \in 1 .. Len(q')
    BY <1>1
  <2> QED
    BY <2>1 DEF Waiting
<1>6. /\ pc' = "timer"
      /\ UNCHANGED <<published, points_, frame, seq, latest, now, is_timestamp_sync_>>
  BY DEF ProcessPacket
<1> QED
  BY <1>1, <1>2, <1>4, <1>5, <1>6 DEF l, point

\* The packet that is taken has the number that follows those passed.
LEMMA ProcessPacketConserves == FramingIInv /\ ConservedIInv /\ ProcessPacket => ConservedIInv'
<1> SUFFICES ASSUME FramingIInv, ConservedIInv, ProcessPacket
             PROVE  ConservedIInv'
  OBVIOUS
<1> DEFINE q == raw_packet_queue_
           n == Len(raw_packet_queue_)
           l == id'
           point == raw_packet_queue_[1].point
           No(j) == raw_packet_queue_[j].point.number
<1>1. TypeOK
  BY DEF FramingIInv
<1>2. /\ n \in Nat /\ n > 0
      /\ Len(q') = n - 1
      /\ \A j \in 1 .. n - 1 : q'[j] = q[j + 1]
  BY <1>1, PacketTaken
<1>3. /\ l \in Lidar
      /\ 1 \in Waiting(l)
      /\ \A m \in Lidar : 1 \in Waiting(m) => m = l
  BY <1>1, PacketTaken DEF Waiting
<1>4. UNCHANGED <<published, points_, frame, seq>>
  BY DEF ProcessPacket
<1>5. /\ \A m \in Lidar : m # l => points_clouds_'[m] = points_clouds_[m]
      /\ Len(points_clouds_'[l]) = Len(points_clouds_[l]) + 1
      /\ \A k \in 1 .. Len(points_clouds_[l]) : points_clouds_'[l][k] = points_clouds_[l][k]
      /\ points_clouds_'[l][Len(points_clouds_[l]) + 1] = point
  BY <1>1, PacketTaken
<1>6. No(1) = point.number
  OBVIOUS
<1>7. \A m \in Lidar, j \in 1 .. n - 1 : j \in Waiting(m)' <=> j + 1 \in Waiting(m)
  BY <1>1, PacketTaken
<1> HIDE DEF l, point
<1>8. \A m \in Lidar :
          /\ Passed(m) \in Nat /\ seq[m] \in Nat
          /\ Len(published[m]) \in Nat /\ Len(points_clouds_[m]) \in Nat
  BY <1>1, CloudFacts
<1>9. \A m \in Lidar : Passed(m)' = IF m = l THEN Passed(m) + 1 ELSE Passed(m)
  <2> SUFFICES ASSUME NEW m \in Lidar
               PROVE  Passed(m)' = IF m = l THEN Passed(m) + 1 ELSE Passed(m)
    OBVIOUS
  <2>1. Passed(m)' = Len(published[m]) + Len(points_clouds_'[m])
    BY <1>4 DEF Passed
  <2>2. Passed(m) = Len(published[m]) + Len(points_clouds_[m])
    BY DEF Passed
  <2>3. CASE m = l
    <3>1. \A a, b \in Nat : a + (b + 1) = (a + b) + 1
      OBVIOUS
    <3>2. Passed(m)' = Len(published[m]) + (Len(points_clouds_[m]) + 1)
      BY <1>5, <2>1, <2>3, Zenon
    <3>3. Passed(m)' = Passed(m) + 1
      BY <1>8, <2>2, <3>1, <3>2, Zenon
    <3> QED
      BY <2>3, <3>3, Zenon
  <2>4. CASE m # l
    BY <1>5, <2>1, <2>2, <2>4
  <2> QED
    BY <2>3, <2>4
<1>10. \A m \in Lidar :
          /\ Waiting(m) \subseteq 1 .. n
          /\ Waiting(m)' \subseteq 1 .. n - 1
  BY <1>2 DEF Waiting
<1>11. \A m \in Lidar :
           /\ \A j \in Waiting(m) : No(j) \in Passed(m) + 1 .. seq[m]
           /\ \A k \in Passed(m) + 1 .. seq[m] : \E j \in Waiting(m) : No(j) = k
           /\ \A i, j \in Waiting(m) : i < j => No(i) < No(j)
           /\ Passed(m) <= seq[m]
  BY DEF ConservedIInv, WaitingNumbered, PassedNumbered
<1>12. \A j \in 1 .. n - 1 : No(j)' = No(j + 1)
  BY <1>2
<1> HIDE DEF No, q
<1>13. No(1) = Passed(l) + 1 /\ Passed(l) + 1 <= seq[l]
  <2>1. No(1) \in Passed(l) + 1 .. seq[l]
    BY <1>3, <1>11
  <2>2. Passed(l) + 1 \in Passed(l) + 1 .. seq[l]
    BY <1>3, <1>8, <2>1
  <2>3. PICK j \in Waiting(l) : No(j) = Passed(l) + 1
    BY <1>3, <1>11, <2>2
  <2>4. j = 1 \/ 1 < j
    BY <1>3, <1>10, <2>3
  <2> QED
    BY <1>3, <1>8, <1>11, <2>1, <2>2, <2>3, <2>4
<1>14. PassedNumbered'
  <2> SUFFICES ASSUME NEW m \in Lidar
               PROVE  /\ \A k \in 1 .. Len(published[m]) : published[m][k].number = k
                      /\ \A k \in 1 .. Len(points_clouds_'[m]) :
                            points_clouds_'[m][k].number = Len(published[m]) + k
                      /\ Passed(m)' <= seq[m]
    BY <1>4 DEF PassedNumbered
  <2>1. /\ \A k \in 1 .. Len(published[m]) : published[m][k].number = k
        /\ \A k \in 1 .. Len(points_clouds_[m]) :
              points_clouds_[m][k].number = Len(published[m]) + k
    BY DEF ConservedIInv, PassedNumbered
  <2>2. CASE m # l
    BY <1>5, <1>9, <1>11, <2>1, <2>2
  <2>3. CASE m = l
    <3>1. point.number = Len(published[l]) + (Len(points_clouds_[l]) + 1)
      <4>1. \A a, b \in Nat : a + b + 1 = a + (b + 1)
        OBVIOUS
      <4>2. point.number = Len(published[l]) + Len(points_clouds_[l]) + 1
        BY <1>6, <1>13, Zenon DEF Passed
      <4> QED
        BY <1>3, <1>8, <4>1, <4>2, Zenon
    <3>2. ASSUME NEW k \in 1 .. Len(points_clouds_'[l])
          PROVE  points_clouds_'[l][k].number = Len(published[l]) + k
      <4>1. k \in 1 .. Len(points_clouds_[l]) \/ k = Len(points_clouds_[l]) + 1
        BY <1>3, <1>5, <1>8
      <4>2. CASE k \in 1 .. Len(points_clouds_[l])
        BY <1>5, <2>1, <2>3, <4>2
      <4>3. CASE k = Len(points_clouds_[l]) + 1
        BY <1>5, <3>1, <4>3
      <4> QED
        BY <4>1, <4>2, <4>3
    <3> QED
      BY <1>3, <1>8, <1>9, <1>13, <2>1, <2>3, <3>2
  <2> QED
    BY <2>2, <2>3
<1>15. WaitingNumbered'
  <2> SUFFICES ASSUME NEW m \in Lidar
               PROVE  /\ \A j \in Waiting(m)' : No(j)' \in Passed(m)' + 1 .. seq[m]
                      /\ \A k \in Passed(m)' + 1 .. seq[m] :
                            \E j \in Waiting(m)' : No(j)' = k
                      /\ \A i, j \in Waiting(m)' : i < j => No(i)' < No(j)'
    BY <1>4 DEF WaitingNumbered, No
  <2>1. \A j \in Waiting(m)' : j \in 1 .. n - 1 /\ j + 1 \in Waiting(m) /\ No(j)' = No(j + 1)
    BY <1>7, <1>10, <1>12
  <2>2. \A j \in Waiting(m) : j # 1 => j - 1 \in Waiting(m)' /\ No(j - 1)' = No(j)
    <3> SUFFICES ASSUME NEW j \in Waiting(m), j # 1
                 PROVE  j - 1 \in Waiting(m)' /\ No(j - 1)' = No(j)
      OBVIOUS
    <3>1. j - 1 \in 1 .. n - 1 /\ (j - 1) + 1 = j
      BY <1>2, <1>10
    <3> QED
      BY <1>7, <1>12, <3>1
  <2>3. ASSUME NEW i \in Waiting(m)', NEW j \in Waiting(m)', i < j
        PROVE  No(i)' < No(j)'
    <3>1. i + 1 < j + 1
      BY <1>2, <2>1, <2>3
    <3> QED
      BY <1>11, <2>1, <3>1
  <2>4. ASSUME NEW j \in Waiting(m)'
        PROVE  No(j)' \in Passed(m)' + 1 .. seq[m]
    <3>1. No(j + 1) \in Passed(m) + 1 .. seq[m]
      BY <1>11, <2>1
    <3>2. CASE m # l
      BY <1>9, <2>1, <3>1, <3>2
    <3>3. CASE m = l
      <4>1. 1 < j + 1
        BY <1>2, <2>1
      <4>2. No(1) < No(j + 1)
        BY <1>3, <1>11, <2>1, <3>3, <4>1
      <4> QED
        BY <1>8, <1>9, <1>13, <2>1, <3>1, <3>3, <4>2
    <3> QED
      BY <3>2, <3>3
  <2>5. ASSUME NEW k \in Passed(m)' + 1 .. seq[m]
        PROVE  \E j \in Waiting(m)' : No(j)' = k
    <3>1. k \in Passed(m) + 1 .. seq[m]
      BY <1>8, <1>9
    <3>2. PICK j \in Waiting(m) : No(j) = k
      BY <1>11, <3>1
    <3>3. j # 1
      <4>1. CASE m # l
        BY <1>3, <4>1
      <4>2. CASE m = l
        BY <1>8, <1>9, <1>13, <3>2, <4>2
      <4> QED
        BY <4>1, <4>2
    <3> QED
      BY <2>2, <3>2, <3>3
  <2> QED
    BY <2>3, <2>4, <2>5
<1>16. FrameIsLast'
  BY <1>4 DEF ConservedIInv, FrameIsLast
<1> QED
  BY <1>14, <1>15, <1>16 DEF ConservedIInv

\* A frame takes the collected points of its lidars, all of them; their
\* collections begin anew, those of the others stay.
LEMMA FrameTaken ==
    ASSUME TypeOK, NEW ls \in SUBSET Lidar, PublishFrame(ls)
    PROVE  /\ \A l \in ls :
                 /\ points_'[l] = points_clouds_[l]
                 /\ points_clouds_'[l] = <<>>
                 /\ published'[l] = published[l] \o points_clouds_[l]
           /\ \A l \in Lidar \ ls :
                 /\ points_'[l] = points_[l]
                 /\ points_clouds_'[l] = points_clouds_[l]
                 /\ published'[l] = published[l]
           /\ \A l \in DOMAIN frame' : l \in Lidar /\ frame'[l].points = points_'[l]
<1>1. /\ points_' = [l \in Lidar |-> IF l \in ls THEN points_clouds_[l] ELSE points_[l]]
      /\ points_clouds_' = [l \in Lidar |-> IF l \in ls THEN <<>> ELSE points_clouds_[l]]
      /\ frame' = [l \in {m \in ls : points_'[m] # <<>>} |->
                      [base_time |-> GetLidarBaseTime(l), points |-> points_'[l]]]
      /\ published' = [l \in Lidar |->
                          IF l \in DOMAIN frame' THEN published[l] \o frame'[l].points
                                                 ELSE published[l]]
  BY DEF PublishFrame, TakeClouds, CleanBuffer
<1>2. \A l \in DOMAIN frame' : l \in Lidar /\ frame'[l].points = points_'[l]
  BY <1>1
<1>3. ASSUME NEW l \in Lidar, l \in ls
      PROVE  /\ points_'[l] = points_clouds_[l]
             /\ points_clouds_'[l] = <<>>
             /\ published'[l] = published[l] \o points_clouds_[l]
  <2>1. points_'[l] = points_clouds_[l] /\ points_clouds_'[l] = <<>>
    BY <1>1, <1>3
  <2>2. CASE points_clouds_[l] # <<>>
    <3>1. l \in DOMAIN frame' /\ frame'[l].points = points_clouds_[l]
      BY <1>1, <1>3, <2>1, <2>2
    <3> QED
      BY <1>1, <2>1, <3>1
  <2>3. CASE points_clouds_[l] = <<>>
    <3>1. l \notin DOMAIN frame'
      BY <1>1, <2>1, <2>3
    <3>2. published'[l] = published[l]
      BY <1>1, <3>1
    <3>3. published[l] \in Seq(Point)
      BY CloudFacts
    <3>4. published[l] \o <<>> = published[l]
      BY <3>3, ConcatEmptySeq
    <3> QED
      BY <2>1, <2>3, <3>2, <3>4
  <2> QED
    BY <2>2, <2>3
<1>4. ASSUME NEW l \in Lidar, l \notin ls
      PROVE  /\ points_'[l] = points_[l]
             /\ points_clouds_'[l] = points_clouds_[l]
             /\ published'[l] = published[l]
  <2>1. l \notin DOMAIN frame'
    BY <1>1, <1>4
  <2> QED
    BY <1>1, <1>4, <2>1
<1> QED
  BY <1>2, <1>3, <1>4

\* What a frame takes is appended to what was published.
LEMMA PublishFrameConserves ==
    ASSUME FramingIInv, ConservedIInv, NEW ls \in SUBSET Lidar, PublishFrame(ls),
           UNCHANGED <<seq, raw_packet_queue_>>
    PROVE  ConservedIInv'
<1>1. TypeOK
  BY DEF FramingIInv
<1>2. \A l \in DOMAIN frame' : l \in Lidar /\ frame'[l].points = points_'[l]
  BY <1>1, FrameTaken
<1>3. \A l \in Lidar :
          l \in ls => /\ points_'[l] = points_clouds_[l]
                     /\ points_clouds_'[l] = <<>>
                     /\ published'[l] = published[l] \o points_clouds_[l]
  BY <1>1, FrameTaken
<1>4. \A l \in Lidar :
          l \notin ls => /\ points_'[l] = points_[l]
                        /\ points_clouds_'[l] = points_clouds_[l]
                        /\ published'[l] = published[l]
  BY <1>1, FrameTaken
<1>5. ASSUME NEW l \in Lidar
      PROVE  /\ \A k \in 1 .. Len(published[l]) : published[l][k].number = k
             /\ \A k \in 1 .. Len(points_clouds_[l]) :
                   points_clouds_[l][k].number = Len(published[l]) + k
             /\ Passed(l) <= seq[l]
             /\ Len(points_[l]) <= Len(published[l])
             /\ \A k \in 1 .. Len(points_[l]) :
                   points_[l][k].number = Len(published[l]) - Len(points_[l]) + k
  BY DEF ConservedIInv, PassedNumbered, FrameIsLast
<1>6. ASSUME NEW l \in Lidar
      PROVE  /\ \A k \in 1 .. Len(published'[l]) : published'[l][k].number = k
             /\ \A k \in 1 .. Len(points_clouds_'[l]) :
                   points_clouds_'[l][k].number = Len(published'[l]) + k
             /\ Passed(l)' = Passed(l)
             /\ Len(points_'[l]) <= Len(published'[l])
             /\ \A k \in 1 .. Len(points_'[l]) :
                   points_'[l][k].number = Len(published'[l]) - Len(points_'[l]) + k
  <2>1. CASE l \notin ls
    BY <1>4, <1>5, <2>1 DEF Passed
  <2>2. CASE l \in ls
    <3> DEFINE p == Len(published[l])
               c == Len(points_clouds_[l])
    <3>1. p \in Nat /\ c \in Nat
      BY <1>1, CloudFacts
    <3>2. /\ Len(published'[l]) = p + c
          /\ \A k \in 1 .. p : published'[l][k] = published[l][k]
          /\ \A k \in 1 .. c : published'[l][p + k] = points_clouds_[l][k]
      <4>1. published[l] \in Seq(Point) /\ points_clouds_[l] \in Seq(Point)
        BY <1>1, CloudFacts
      <4>2. published'[l] = published[l] \o points_clouds_[l]
        BY <1>3, <2>2
      <4> DEFINE s == published[l]
                 t == points_clouds_[l]
      <4>3. s \in Seq(Point) /\ t \in Seq(Point)
        BY <4>1
      <4> HIDE DEF s, t
      <4>4. /\ Len(s \o t) = Len(s) + Len(t)
            /\ \A k \in 1 .. Len(s) : (s \o t)[k] = s[k]
            /\ \A k \in 1 .. Len(t) : (s \o t)[Len(s) + k] = t[k]
        BY <4>3, NumberedConcat
      <4> QED
        BY <4>2, <4>4, Zenon DEF s, t
    <3>3. /\ \A k \in 1 .. p : published[l][k].number = k
          /\ \A k \in 1 .. c : points_clouds_[l][k].number = p + k
      BY <1>5
    <3>4. Len(points_'[l]) = c /\ \A k \in 1 .. c : points_'[l][k] = points_clouds_[l][k]
      BY <1>3, <2>2
    <3>5. Len(points_clouds_'[l]) = 0
      <4>1. Len(<<>>) = 0
        OBVIOUS
      <4> QED
        BY <1>3, <2>2, <4>1
    <3>6. Passed(l)' = p + c + 0 /\ Passed(l) = p + c
      BY <3>2, <3>5 DEF Passed
    <3> HIDE DEF p, c
    <3>7. ASSUME NEW k \in 1 .. Len(published'[l])
          PROVE  published'[l][k].number = k
      <4>1. CASE k \in 1 .. p
        BY <3>2, <3>3, <4>1
      <4>2. CASE k \notin 1 .. p
        <5>1. k - p \in 1 .. c /\ p + (k - p) = k
          BY <3>1, <3>2, <4>2
        <5>2. published'[l][p + (k - p)].number = p + (k - p)
          BY <3>2, <3>3, <5>1
        <5> QED
          BY <5>1, <5>2
      <4> QED
        BY <4>1, <4>2
    <3>8. ASSUME NEW k \in 1 .. c
          PROVE  points_'[l][k].number = Len(published'[l]) - c + k
      <4>1. Len(published'[l]) - c + k = p + k
        BY <3>1, <3>2
      <4> QED
        BY <3>3, <3>4, <4>1
    <3>9. 1 .. Len(points_clouds_'[l]) = {}
      BY <3>5
    <3>10. Passed(l)' = Passed(l) /\ c <= p + c
      BY <3>1, <3>6
    <3> QED
      BY <3>2, <3>4, <3>7, <3>8, <3>9, <3>10
  <2> QED
    BY <2>1, <2>2
<1>7. PassedNumbered'
  BY <1>5, <1>6 DEF PassedNumbered
<1>8. WaitingNumbered'
  <2>1. \A l \in Lidar : Waiting(l)' = Waiting(l) /\ Passed(l)' = Passed(l)
    BY <1>6 DEF Waiting
  <2> QED
    BY <2>1 DEF ConservedIInv, WaitingNumbered
<1>9. FrameIsLast'
  BY <1>2, <1>6 DEF FrameIsLast
<1> QED
  BY <1>7, <1>8, <1>9 DEF ConservedIInv

\* Every step conserves the points.
LEMMA ConservedStep == FramingIInv /\ ConservedIInv /\ [Next]_vars => ConservedIInv'
<1> SUFFICES ASSUME FramingIInv, ConservedIInv, [Next]_vars
             PROVE  ConservedIInv'
  OBVIOUS
<1>1. ASSUME UNCHANGED <<raw_packet_queue_, seq, cloudVars>>
      PROVE  ConservedIInv'
  <2>1. UNCHANGED <<raw_packet_queue_, seq, points_clouds_, points_, frame, published>>
    BY <1>1 DEF cloudVars
  <2>2. \A l \in Lidar : Passed(l)' = Passed(l) /\ Waiting(l)' = Waiting(l)
    BY <2>1 DEF Passed, Waiting
  <2>3. PassedNumbered'
    BY <2>1, <2>2 DEF ConservedIInv, PassedNumbered
  <2>4. WaitingNumbered'
    BY <2>1, <2>2 DEF ConservedIInv, WaitingNumbered
  <2>5. FrameIsLast'
    BY <2>1 DEF ConservedIInv, FrameIsLast
  <2> QED
    BY <2>3, <2>4, <2>5 DEF ConservedIInv
<1>2. CASE Tick
  BY <1>1, <1>2 DEF Tick, sdkVars
<1>3. ASSUME NEW synced \in SyncModes,
             (\E l \in Lidar : Receive(l, synced)) \/ ReceiveImu(synced)
      PROVE  ConservedIInv'
  <2>1. synced \in BOOLEAN
    BY FramingAssumption
  <2>2. CASE ReceiveImu(synced)
    BY <1>1, <2>2 DEF ReceiveImu
  <2> QED
    BY <1>3, <2>1, <2>2, ReceiveConserves
<1>4. CASE CheckTimerSync
  <2>1. UNCHANGED <<raw_packet_queue_, seq>> /\ {id} \in SUBSET Lidar
    BY <1>4 DEF CheckTimerSync, sdkVars, FramingIInv, TypeOK
  <2>2. PublishFrame({id}) \/ UNCHANGED cloudVars
    BY <1>4 DEF CheckTimerSync
  <2> QED
    BY <1>1, <2>1, <2>2, PublishFrameConserves
<1>5. CASE CheckTimerFirst \/ CheckTimerEarly
  BY <1>1, <1>5 DEF CheckTimerFirst, CheckTimerEarly, sdkVars
<1>6. CASE CheckTimerDue
  <2>1. UNCHANGED <<raw_packet_queue_, seq>> /\ handlers \in SUBSET Lidar
        /\ PublishFrame(handlers)
    BY <1>6 DEF CheckTimerDue, sdkVars, FramingIInv, TypeOK
  <2> QED
    BY <2>1, PublishFrameConserves
<1>7. CASE UNCHANGED vars
  BY <1>1, <1>7 DEF vars, sdkVars
<1> QED
  BY <1>2, <1>3, <1>4, <1>5, <1>6, <1>7, ProcessPacketConserves DEF Next, Process

\* Every point is published once and in the order it was received, for any
\* number of lidars, both ways of cutting frames and any changes between them.
THEOREM PointsKept == Spec => []PointsConserved
<1>1. FramingIInv /\ ConservedIInv => PointsConserved
  <2> SUFFICES ASSUME FramingIInv, ConservedIInv, NEW l \in Lidar
               PROVE  LET got == published[l] \o points_clouds_[l]
                          Number(j) == raw_packet_queue_[j].point.number
                      IN  /\ \A k \in 1 .. Len(got) : got[k].number = k
                          /\ Len(got) <= seq[l]
                          /\ {Number(j) : j \in Waiting(l)} = Len(got) + 1 .. seq[l]
                          /\ \A i, j \in Waiting(l) : i < j => Number(i) < Number(j)
    BY DEF PointsConserved
  <2> DEFINE got == published[l] \o points_clouds_[l]
             p == Len(published[l])
             c == Len(points_clouds_[l])
             Number(j) == raw_packet_queue_[j].point.number
  <2>1. TypeOK
    BY DEF FramingIInv
  <2>2. /\ p \in Nat /\ c \in Nat
        /\ published[l] \in Seq(Point) /\ points_clouds_[l] \in Seq(Point)
    BY <2>1, CloudFacts
  <2>3. /\ Len(got) = p + c
        /\ \A k \in 1 .. p : got[k] = published[l][k]
        /\ \A k \in 1 .. c : got[p + k] = points_clouds_[l][k]
    BY <2>2, NumberedConcat
  <2>4. /\ \A k \in 1 .. p : published[l][k].number = k
        /\ \A k \in 1 .. c : points_clouds_[l][k].number = p + k
        /\ p + c <= seq[l]
    BY DEF ConservedIInv, PassedNumbered, Passed
  <2>5. /\ \A j \in Waiting(l) : Number(j) \in p + c + 1 .. seq[l]
        /\ \A k \in p + c + 1 .. seq[l] : \E j \in Waiting(l) : Number(j) = k
        /\ \A i, j \in Waiting(l) : i < j => Number(i) < Number(j)
    BY DEF ConservedIInv, WaitingNumbered, Passed
  <2> HIDE DEF got, p, c, Number
  <2>6. ASSUME NEW k \in 1 .. Len(got)
        PROVE  got[k].number = k
    <3>1. CASE k \in 1 .. p
      BY <2>3, <2>4, <3>1
    <3>2. CASE k \notin 1 .. p
      <4>1. k - p \in 1 .. c /\ p + (k - p) = k
        BY <2>2, <2>3, <3>2
      <4>2. got[p + (k - p)].number = p + (k - p)
        BY <2>3, <2>4, <4>1
      <4> QED
        BY <4>1, <4>2
    <3> QED
      BY <3>1, <3>2
  <2>7. {Number(j) : j \in Waiting(l)} = p + c + 1 .. seq[l]
    BY <2>5
  <2>8. /\ Len(got) <= seq[l]
        /\ {Number(j) : j \in Waiting(l)} = Len(got) + 1 .. seq[l]
    BY <2>3, <2>4, <2>7
  <2> QED
    BY <2>5, <2>6, <2>8 DEF got, Number
<1>2. FramingIInv /\ ConservedIInv /\ [Next]_vars => ConservedIInv'
  BY ConservedStep
<1> QED
  BY <1>1, <1>2, InitConserved, FramingInvariance, PTL DEF Spec

-----------------------------------------------------------------------------
(* Quotients                                                                 *)

\* A number is the multiple of its quotient plus the remainder.
LEMMA DivMod ==
    ASSUME NEW a \in Nat, NEW m \in Nat \ {0}
    PROVE  /\ a \div m \in Nat
           /\ a % m \in 0 .. m - 1
           /\ a = m * (a \div m) + (a % m)
  OBVIOUS

\* A multiple grows with its factor.
LEMMA TimesMonotone == \A m, a, b \in Nat : a <= b => m * a <= m * b
  OBVIOUS

\* Quotients grow with the number, by one at most when it grows by the divisor.
LEMMA DivMonotone ==
    ASSUME NEW a \in Nat, NEW b \in Nat, NEW m \in Nat \ {0}
    PROVE  /\ a <= b => a \div m <= b \div m
           /\ a + m <= b => (a \div m) + 1 <= b \div m
           /\ b <= a + m => b \div m <= (a \div m) + 1
<1> DEFINE p == a \div m
           q == b \div m
<1>1. /\ p \in Nat /\ q \in Nat
      /\ m * p <= a /\ a < m * p + m
      /\ m * q <= b /\ b < m * q + m
  BY DivMod
<1> HIDE DEF p, q
<1>2. /\ m * (p + 1) = m * p + m /\ m * (q + 1) = m * q + m
      /\ m * (p + 2) = m * p + m + m
      /\ m * p \in Nat /\ m * q \in Nat
  BY <1>1
<1>3. ASSUME a <= b, q + 1 <= p
      PROVE  FALSE
  <2>1. m * (q + 1) <= m * p
    BY <1>1, <1>3, TimesMonotone
  <2> QED
    BY <1>1, <1>2, <1>3, <2>1
<1>4. ASSUME a + m <= b, q <= p
      PROVE  FALSE
  <2>1. m * q <= m * p
    BY <1>1, <1>4, TimesMonotone
  <2> QED
    BY <1>1, <1>2, <1>4, <2>1
<1>5. ASSUME b <= a + m, p + 2 <= q
      PROVE  FALSE
  <2>1. m * (p + 2) <= m * q
    BY <1>1, <1>5, TimesMonotone
  <2> QED
    BY <1>1, <1>2, <1>5, <2>1
<1>6. /\ a <= b => p <= q
      /\ a + m <= b => p + 1 <= q
      /\ b <= a + m => q <= p + 1
  BY <1>1, <1>3, <1>4, <1>5
<1> QED
  BY <1>6 DEF p, q

\* From one number to the next the quotient only changes at a multiple.
LEMMA SameQuotient ==
    ASSUME NEW a \in Nat, NEW b \in Nat, NEW m \in Nat \ {0},
           a <= b, b <= a + 1, b % m # 0
    PROVE  a \div m = b \div m
<1> DEFINE p == a \div m
           q == b \div m
           r == b % m
<1>1. /\ p \in Nat /\ q \in Nat /\ r \in Nat /\ r # 0
      /\ m * p <= a /\ a < m * p + m
      /\ b = m * q + r
      /\ p <= q
  BY DivMod, DivMonotone
<1> HIDE DEF p, q, r
<1>2. m * (p + 1) = m * p + m /\ m * p \in Nat /\ m * q \in Nat
  BY <1>1
<1>3. ASSUME p + 1 <= q
      PROVE  FALSE
  <2>1. m * (p + 1) <= m * q
    BY <1>1, <1>3, TimesMonotone
  <2> QED
    BY <1>1, <1>2, <2>1
<1>4. p = q
  BY <1>1, <1>3
<1> QED
  BY <1>4 DEF p, q

\* Different multiples are apart by the factor at least.
LEMMA MultiplesApart ==
    ASSUME NEW a \in Nat, NEW b \in Nat, NEW m \in Nat \ {0},
           a % m = 0, b % m = 0, a < b
    PROVE  b - a >= m
<1> DEFINE p == a \div m
           q == b \div m
<1>1. p \in Nat /\ q \in Nat /\ a = m * p /\ b = m * q
  BY DivMod
<1> HIDE DEF p, q
<1>2. m * (p + 1) = m * p + m
  BY <1>1
<1>3. p + 1 <= q
  <2>1. q <= p => m * q <= m * p
    BY <1>1, TimesMonotone
  <2> QED
    BY <1>1, <2>1
<1>4. m * (p + 1) <= m * q
  BY <1>1, <1>3, TimesMonotone
<1> QED
  BY <1>1, <1>2, <1>4

\* The interval has a millisecond at least, and two in its own unit of time.
LEMMA IntervalFacts ==
    /\ Ms \in Nat \ {0} /\ Interval \in Nat
    /\ IntervalMs \in Nat \ {0} /\ Ms * IntervalMs \in Nat /\ Ms * IntervalMs <= Interval
    /\ Tolerance \in Nat /\ Ms <= Tolerance /\ Tolerance = Interval - Ms
<1>1. Ms \in Nat \ {0} /\ Interval \in Nat /\ Ms <= Interval - Ms
  BY FramingAssumption
<1>2. 0 \div Ms \in Nat
  BY <1>1, DivMod
<1>3. (0 \div Ms) + 1 <= IntervalMs
  BY <1>1, DivMonotone DEF IntervalMs
<1>4. /\ IntervalMs \in Nat
      /\ Interval = Ms * IntervalMs + (Interval % Ms) /\ Interval % Ms \in Nat
  BY <1>1, DivMod DEF IntervalMs
<1>5. IntervalMs # 0
  BY <1>2, <1>3, <1>4
<1> HIDE DEF IntervalMs
<1>6. Ms * IntervalMs \in Nat
  BY <1>1, <1>4
<1>7. Ms * IntervalMs <= Interval
  BY <1>1, <1>4, <1>6
<1>8. Tolerance \in Nat /\ Ms <= Tolerance /\ Tolerance = Interval - Ms
  BY <1>1 DEF Tolerance
<1> QED
  BY <1>1, <1>4, <1>5, <1>6, <1>7, <1>8

-----------------------------------------------------------------------------
(* Frames of lidars whose time is synchronised                               *)

\* All packets carry a synchronised time, which never reaches its modulus.
AlwaysSynced == SyncModes = {TRUE} /\ MaxTime <= TimeMod

\* The points of l that are queued, collected or in its last frame.
InHand(l) ==
    {p \in Point :
        \/ \E k \in 1 .. Len(points_[l]) : p = points_[l][k]
        \/ \E k \in 1 .. Len(points_clouds_[l]) : p = points_clouds_[l][k]
        \/ \E j \in Waiting(l) : p = raw_packet_queue_[j].point}

\* Before there is a packet the flag is not set, and never unset afterwards.
FlagSet ==
    /\ pc = "timer" => is_timestamp_sync_
    /\ raw_packet_queue_ # <<>> => is_timestamp_sync_

\* Their times are ordered like their numbers, at most MaxGap apart, and the
\* last was the latest.
Chronology ==
    \A l \in Lidar :
        /\ latest[l].time <= now /\ now <= latest[l].time + MaxGap
        /\ \A p \in InHand(l) :
              /\ p.offset_time <= latest[l].time
              /\ p.number <= seq[l]
              /\ p.number = seq[l] => p.offset_time = latest[l].time
        /\ \A p, q \in InHand(l) :
              /\ p.number <= q.number => p.offset_time <= q.offset_time
              /\ q.number = p.number + 1 => q.offset_time <= p.offset_time + MaxGap

\* The last multiple of the interval, in milliseconds, at or before time t.
LastBoundary(t) == IntervalMs * ((t \div Ms) \div IntervalMs)

\* How many collected points of l CheckTimer has looked at.
Looked(l) == Len(points_clouds_[l]) - (IF pc = "timer" /\ id = l THEN 1 ELSE 0)

\* At the last boundary among them the collection was too short to be cut.
NotDueYet ==
    \A l \in Lidar :
        LET points == points_clouds_[l] IN
        Looked(l) > 0 =>
            Ms * LastBoundary(points[Looked(l)].offset_time) - points[1].offset_time < Tolerance

\* A frame ends at a boundary.
CutAtBoundary ==
    \A l \in Lidar :
        points_[l] # <<>> => (End(points_[l]) \div Ms) % IntervalMs = 0

\* A packet is being looked at.
UnderWay == pc = "timer" => points_clouds_[id] # <<>>

SyncedIInv == FlagSet /\ Chronology /\ UnderWay /\ CutAtBoundary

\* No frame is longer than two intervals.
FrameSpan ==
    \A l \in Lidar :
        points_[l] # <<>> => End(points_[l]) - Start(points_[l]) < 2 * Interval

SpanIInv == NotDueYet /\ FrameSpan

\* Times are natural numbers.
LEMMA ClockFacts ==
    ASSUME TypeOK
    PROVE  now \in Nat /\ MaxGap \in Nat /\ \A l \in Lidar : latest[l].time \in Nat
<1>1. \A l \in Lidar : latest[l] \in [time : 1 .. MaxTime, packets : 0 .. MaxBurst]
  BY DEF TypeOK
<1> QED
  BY <1>1, FramingAssumption DEF TypeOK

\* Where no point is new and no time passes the times stay in order.
LEMMA ChronologyKept ==
    ASSUME Chronology, UNCHANGED <<now, latest, seq>>,
           \A l \in Lidar : InHand(l)' \subseteq InHand(l)
    PROVE  Chronology'
  BY DEF Chronology

\* Before the first packet.
LEMMA InitSynced == Init => SyncedIInv
<1> SUFFICES ASSUME Init
             PROVE  SyncedIInv
  OBVIOUS
<1>1. Len(<<>>) = 0
  OBVIOUS
<1>2. ASSUME NEW l \in Lidar
      PROVE  /\ points_[l] = <<>> /\ points_clouds_[l] = <<>> /\ InHand(l) = {}
             /\ latest[l].time = 1
  <2>1. /\ points_[l] = <<>> /\ points_clouds_[l] = <<>> /\ raw_packet_queue_ = <<>>
        /\ latest[l].time = 1
    BY DEF Init
  <2>2. /\ Len(points_[l]) = 0 /\ Len(points_clouds_[l]) = 0
        /\ Len(raw_packet_queue_) = 0
    BY <1>1, <2>1
  <2>3. Waiting(l) = {}
    BY <2>2 DEF Waiting
  <2>4. InHand(l) = {}
    BY <2>2, <2>3 DEF InHand
  <2> QED
    BY <2>1, <2>4
<1>3. Chronology
  <2>1. now = 1 /\ MaxGap \in Nat
    BY FramingAssumption DEF Init
  <2> QED
    BY <1>2, <2>1 DEF Chronology
<1>4. FlagSet /\ UnderWay
  BY DEF Init, FlagSet, UnderWay
<1>5. CutAtBoundary
  BY <1>2 DEF CutAtBoundary
<1> QED
  BY <1>3, <1>4, <1>5 DEF SyncedIInv

\* No lidar is silent for longer than MaxGap.
LEMMA TickSynced == FramingIInv /\ SyncedIInv /\ Tick => SyncedIInv'
<1> SUFFICES ASSUME FramingIInv, SyncedIInv, Tick
             PROVE  SyncedIInv'
  OBVIOUS
<1>1. /\ UNCHANGED <<latest, raw_packet_queue_, is_timestamp_sync_, seq, pc, id,
                     points_clouds_, points_>>
      /\ now' = now + 1
  BY DEF Tick, sdkVars, cloudVars
<1>2. Chronology'
  <2>1. \A l \in Lidar : InHand(l)' = InHand(l)
    BY <1>1 DEF InHand, Waiting
  <2>2. \A l \in Lidar : latest[l].time <= now + 1 /\ now + 1 <= latest[l].time + MaxGap
    <3>1. \A l \in Lidar : latest[l].time <= now /\ now - latest[l].time < MaxGap
      BY DEF SyncedIInv, Chronology, Tick
    <3> QED
      BY <3>1, ClockFacts DEF FramingIInv
  <2> QED
    BY <1>1, <2>1, <2>2 DEF SyncedIInv, Chronology
<1>3. FlagSet' /\ UnderWay' /\ CutAtBoundary'
  BY <1>1 DEF SyncedIInv, FlagSet, UnderWay, CutAtBoundary, End
<1> QED
  BY <1>2, <1>3 DEF SyncedIInv

\* What is received is later than all before it, by MaxGap at most.
LEMMA ReceiveSynced ==
    ASSUME FramingIInv, SyncedIInv, NEW l \in Lidar, Receive(l, TRUE)
    PROVE  SyncedIInv'
<1> DEFINE q == raw_packet_queue_
           n == Len(raw_packet_queue_)
           point == [offset_time |-> now, number |-> seq'[l]]
           packet == [handle |-> l, point |-> point]
<1>1. TypeOK /\ Chronology
  BY DEF FramingIInv, SyncedIInv
<1>2. UNCHANGED <<now, pc, id, points_clouds_, points_>>
  BY DEF Receive, cloudVars
<1>3. \A m \in Lidar : /\ seq[m] \in Nat
                       /\ seq'[m] = IF m = l THEN seq[m] + 1 ELSE seq[m]
  BY <1>1 DEF TypeOK, Receive
<1>4. /\ now \in Nat /\ MaxGap \in Nat
      /\ \A m \in Lidar : /\ latest[m].time \in Nat
                          /\ m # l => latest'[m] = latest[m]
                          /\ m = l => latest'[m].time = now
  <2>1. /\ latest \in [Lidar -> [time : 1 .. MaxTime, packets : 0 .. MaxBurst]]
        /\ latest' = [latest EXCEPT ![l] = [time |-> now,
                          packets |-> IF latest[l].time < now THEN 1
                                                              ELSE latest[l].packets + 1]]
    BY <1>1 DEF TypeOK, Receive
  <2> QED
    BY <1>1, <2>1, ClockFacts
<1>5. /\ n \in Nat
      /\ Len(q') = n + 1
      /\ \A j \in 1 .. n : q'[j] = q[j]
      /\ q'[n + 1] = packet
  <2>1. q \in Seq([handle : Lidar, point : Point]) /\ n \in Nat
    BY <1>1, CloudFacts
  <2>2. q' = Append(q, packet)
    BY DEF Receive
  <2> HIDE DEF packet
  <2> QED
    BY <2>1, <2>2
<1>6. packet.handle = l /\ packet.point = point
      /\ point.offset_time = now /\ point.number = seq[l] + 1
  BY <1>3
<1> HIDE DEF point, packet, q
<1>7. \A m \in Lidar :
          Waiting(m)' = IF m = l THEN Waiting(m) \cup {n + 1} ELSE Waiting(m)
  BY <1>5, <1>6 DEF Waiting, q
<1>8. \A m \in Lidar : \A j \in Waiting(m) : q'[j] = q[j]
  BY <1>5 DEF Waiting
<1>9. \A m \in Lidar : m # l => InHand(m)' \subseteq InHand(m)
  BY <1>2, <1>7, <1>8 DEF InHand, q
<1>10. InHand(l)' \subseteq InHand(l) \cup {point}
  <2> SUFFICES ASSUME NEW p \in InHand(l)', p \notin InHand(l)
               PROVE  p = point
    OBVIOUS
  <2>1. PICK j \in Waiting(l)' : p = q'[j].point
    BY <1>2 DEF InHand, q
  <2>2. j \notin Waiting(l)
    BY <1>8, <2>1 DEF InHand, q
  <2>3. j = n + 1
    BY <1>7, <2>1, <2>2
  <2> QED
    BY <1>5, <1>6, <2>1, <2>3
<1>11. \A m \in Lidar : \A p \in InHand(m) : p.number \in Nat /\ p.offset_time \in Nat
  <2>1. MaxTime + HostEpoch \in Nat
    BY FramingAssumption
  <2> QED
    BY <2>1 DEF InHand, Point
<1>12. Chronology'
  <2> SUFFICES ASSUME NEW m \in Lidar
               PROVE  /\ latest'[m].time <= now /\ now <= latest'[m].time + MaxGap
                      /\ \A p \in InHand(m)' :
                            /\ p.offset_time <= latest'[m].time
                            /\ p.number <= seq'[m]
                            /\ p.number = seq'[m] => p.offset_time = latest'[m].time
                      /\ \A p, r \in InHand(m)' :
                            /\ p.number <= r.number => p.offset_time <= r.offset_time
                            /\ r.number = p.number + 1
                                  => r.offset_time <= p.offset_time + MaxGap
    BY <1>2 DEF Chronology
  <2>1. /\ latest[m].time <= now /\ now <= latest[m].time + MaxGap
        /\ \A p \in InHand(m) :
              /\ p.offset_time <= latest[m].time
              /\ p.number <= seq[m]
              /\ p.number = seq[m] => p.offset_time = latest[m].time
        /\ \A p, r \in InHand(m) :
              /\ p.number <= r.number => p.offset_time <= r.offset_time
              /\ r.number = p.number + 1 => r.offset_time <= p.offset_time + MaxGap
    BY <1>1 DEF Chronology
  <2>2. CASE m # l
    BY <1>3, <1>4, <1>9, <2>1, <2>2
  <2>3. CASE m = l
    <3>1. latest'[m].time = now /\ seq'[m] = seq[m] + 1 /\ now <= now + MaxGap
      BY <1>3, <1>4, <2>3
    <3>2. ASSUME NEW p \in InHand(m)
          PROVE  p.offset_time <= now /\ p.number < seq[m] + 1
      BY <1>3, <1>4, <1>11, <2>1
    <3>3. ASSUME NEW p \in InHand(m), p.number + 1 = seq[m] + 1
          PROVE  now <= p.offset_time + MaxGap
      <4>1. p.number = seq[m]
        BY <1>3, <1>11, <3>3
      <4> QED
        BY <2>1, <4>1
    <3>4. point.offset_time = now /\ point.number = seq[m] + 1
          /\ InHand(m)' \subseteq InHand(m) \cup {point}
      BY <1>6, <1>10, <2>3
    <3>5. \A p \in InHand(m)' :
              /\ p.offset_time <= now
              /\ p.number <= seq[m] + 1
              /\ p.number = seq[m] + 1 => p.offset_time = now
      BY <1>3, <1>4, <1>11, <3>2, <3>4
    <3>6. ASSUME NEW p \in InHand(m)', NEW r \in InHand(m)'
          PROVE  /\ p.number <= r.number => p.offset_time <= r.offset_time
                 /\ r.number = p.number + 1 => r.offset_time <= p.offset_time + MaxGap
      <4>1. CASE p \in InHand(m) /\ r \in InHand(m)
        BY <2>1, <4>1
      <4>2. CASE p \in InHand(m) /\ r = point
        BY <3>2, <3>3, <3>4, <4>2
      <4>3. CASE p = point /\ r \in InHand(m)
        BY <1>3, <1>11, <3>2, <3>4, <4>3
      <4>4. CASE p = point /\ r = point
        BY <1>3, <1>4, <3>1, <3>4, <4>4
      <4> QED
        BY <3>4, <4>1, <4>2, <4>3, <4>4
    <3> QED
      BY <1>4, <3>1, <3>5, <3>6
  <2> QED
    BY <2>2, <2>3
<1>13. FlagSet'
  BY DEF Receive, FlagSet
<1>14. UnderWay' /\ CutAtBoundary'
  BY <1>2 DEF SyncedIInv, UnderWay, CutAtBoundary, End
<1> QED
  BY <1>12, <1>13, <1>14 DEF SyncedIInv

\* A packet that is taken is still in hand.
LEMMA ProcessPacketSynced == FramingIInv /\ SyncedIInv /\ ProcessPacket => SyncedIInv'
<1> SUFFICES ASSUME FramingIInv, SyncedIInv, ProcessPacket
             PROVE  SyncedIInv'
  OBVIOUS
<1> DEFINE q == raw_packet_queue_
           n == Len(raw_packet_queue_)
           l == id'
<1>1. TypeOK /\ Chronology /\ FlagSet /\ CutAtBoundary
  BY DEF FramingIInv, SyncedIInv
<1>2. /\ l \in Lidar /\ n \in Nat \ {0} /\ 1 \in Waiting(l)
      /\ Len(q') = n - 1
      /\ \A j \in 1 .. n - 1 : /\ q'[j] = q[j + 1]
                               /\ \A m \in Lidar : j \in Waiting(m)' <=> j + 1 \in Waiting(m)
      /\ \A m \in Lidar : m # l => points_clouds_'[m] = points_clouds_[m]
      /\ Len(points_clouds_'[l]) = Len(points_clouds_[l]) + 1
      /\ \A k \in 1 .. Len(points_clouds_[l]) : points_clouds_'[l][k] = points_clouds_[l][k]
      /\ points_clouds_'[l][Len(points_clouds_[l]) + 1] = q[1].point
      /\ UNCHANGED <<points_, seq, latest, now, is_timestamp_sync_>>
  BY <1>1, PacketTaken
<1>3. Len(points_clouds_[l]) \in Nat
  BY <1>1, <1>2, CloudFacts
<1> HIDE DEF q, l
<1>4. \A m \in Lidar : InHand(m)' \subseteq InHand(m)
  <2> SUFFICES ASSUME NEW m \in Lidar, NEW p \in InHand(m)'
               PROVE  p \in InHand(m)
    OBVIOUS
  <2>1. p \in Point
    BY DEF InHand
  <2>2. CASE \E k \in 1 .. Len(points_'[m]) : p = points_'[m][k]
    BY <1>2, <2>1, <2>2 DEF InHand
  <2>3. CASE \E k \in 1 .. Len(points_clouds_'[m]) : p = points_clouds_'[m][k]
    <3>1. CASE m # l
      BY <1>2, <2>1, <2>3, <3>1 DEF InHand
    <3>2. CASE m = l
      <4>1. PICK k \in 1 .. Len(points_clouds_[l]) + 1 : p = points_clouds_'[l][k]
        BY <1>2, <2>3, <3>2
      <4>2. CASE k \in 1 .. Len(points_clouds_[l])
        BY <1>2, <2>1, <3>2, <4>1, <4>2 DEF InHand
      <4>3. CASE k = Len(points_clouds_[l]) + 1
        BY <1>2, <2>1, <3>2, <4>1, <4>3 DEF InHand, q
      <4> QED
        BY <1>3, <4>1, <4>2, <4>3
    <3> QED
      BY <3>1, <3>2
  <2>4. CASE \E j \in Waiting(m)' : p = q'[j].point
    <3>1. PICK j \in Waiting(m)' : p = q'[j].point
      BY <2>4
    <3>2. j \in 1 .. n - 1
      BY <1>2, <3>1 DEF Waiting, q
    <3>3. j + 1 \in Waiting(m) /\ p = q[j + 1].point
      BY <1>2, <3>1, <3>2
    <3> QED
      BY <2>1, <3>3 DEF InHand, q
  <2> QED
    BY <2>2, <2>3, <2>4 DEF InHand, q
<1>5. Chronology'
  BY <1>1, <1>2, <1>4, ChronologyKept
<1>6. FlagSet'
  BY <1>1, <1>2 DEF FlagSet, ProcessPacket
<1>7. UnderWay'
  <2>1. Len(points_clouds_'[l]) # 0
    BY <1>2, <1>3
  <2>2. Len(<<>>) = 0
    OBVIOUS
  <2> QED
    BY <2>1, <2>2 DEF UnderWay, l
<1>8. CutAtBoundary'
  BY <1>1, <1>2 DEF CutAtBoundary, End
<1> QED
  BY <1>5, <1>6, <1>7, <1>8 DEF SyncedIInv

\* A frame that is cut ends at a boundary.
LEMMA CheckTimerSynced == FramingIInv /\ SyncedIInv /\ CheckTimerSync => SyncedIInv'
<1> SUFFICES ASSUME FramingIInv, SyncedIInv, CheckTimerSync
             PROVE  SyncedIInv'
  OBVIOUS
<1>1. /\ TypeOK /\ id \in Lidar /\ {id} \in SUBSET Lidar
      /\ UnderWay /\ points_clouds_[id] # <<>> /\ CutAtBoundary /\ Chronology /\ FlagSet
  BY DEF FramingIInv, TypeOK, SyncedIInv, UnderWay, CheckTimerSync
<1>2. /\ UNCHANGED <<now, latest, seq, raw_packet_queue_, is_timestamp_sync_>>
      /\ pc' = "packet"
  BY DEF CheckTimerSync, sdkVars
<1>3. FlagSet' /\ UnderWay'
  BY <1>1, <1>2 DEF FlagSet, UnderWay
<1>4. CASE UNCHANGED cloudVars
  <2>1. \A l \in Lidar : InHand(l)' = InHand(l)
    BY <1>2, <1>4 DEF InHand, Waiting, cloudVars
  <2>2. CutAtBoundary'
    BY <1>1, <1>4 DEF CutAtBoundary, End, cloudVars
  <2> QED
    BY <1>1, <1>2, <1>3, <2>1, <2>2, ChronologyKept DEF SyncedIInv
<1>5. CASE PublishFrame({id}) /\ OnBoundary(id)
  <2>1. /\ points_'[id] = points_clouds_[id] /\ points_clouds_'[id] = <<>>
        /\ \A l \in Lidar : l # id => /\ points_'[l] = points_[l]
                                      /\ points_clouds_'[l] = points_clouds_[l]
    BY <1>1, <1>5, FrameTaken
  <2>2. \A l \in Lidar : InHand(l)' \subseteq InHand(l)
    <3>1. Len(<<>>) = 0
      OBVIOUS
    <3>2. Len(points_clouds_'[id]) = 0
      BY <2>1, <3>1
    <3> QED
      BY <1>2, <2>1, <3>2 DEF InHand, Waiting
  <2>3. CutAtBoundary'
    BY <1>1, <1>5, <2>1 DEF CutAtBoundary, OnBoundary, GetRecentTimeStamp, End
  <2> QED
    BY <1>1, <1>2, <1>3, <2>2, <2>3, ChronologyKept DEF SyncedIInv
<1> QED
  BY <1>4, <1>5 DEF CheckTimerSync

\* Every step keeps the order of times and the flag.
LEMMA SyncedStep ==
    ASSUME AlwaysSynced, FramingIInv, SyncedIInv, [Next]_vars
    PROVE  SyncedIInv'
<1>1. SyncModes = {TRUE}
  BY DEF AlwaysSynced
<1>2. CASE \E l \in Lidar : Receive(l, TRUE)
  BY <1>2, ReceiveSynced
<1>3. ASSUME UNCHANGED <<now, latest, raw_packet_queue_, seq, pc, id, cloudVars>>,
             is_timestamp_sync_' \in {is_timestamp_sync_, TRUE}
      PROVE  SyncedIInv'
  <2>1. UNCHANGED <<points_, points_clouds_>>
    BY <1>3 DEF cloudVars
  <2>2. \A l \in Lidar : InHand(l)' = InHand(l)
    BY <1>3, <2>1 DEF InHand, Waiting
  <2>3. Chronology'
    BY <1>3, <2>2, ChronologyKept DEF SyncedIInv
  <2>4. FlagSet' /\ UnderWay' /\ CutAtBoundary'
    BY <1>3, <2>1 DEF SyncedIInv, FlagSet, UnderWay, CutAtBoundary, End
  <2> QED
    BY <2>3, <2>4 DEF SyncedIInv
<1>4. CASE ReceiveImu(TRUE)
  BY <1>3, <1>4 DEF ReceiveImu
<1>5. CASE CheckTimerFirst \/ CheckTimerEarly \/ CheckTimerDue
  <2>1. pc = "timer" /\ ~is_timestamp_sync_
    BY <1>5 DEF CheckTimerFirst, CheckTimerEarly, CheckTimerDue
  <2> QED
    BY <2>1 DEF SyncedIInv, FlagSet
<1>6. CASE UNCHANGED vars
  BY <1>3, <1>6 DEF vars, sdkVars
<1> QED
  BY <1>1, <1>2, <1>4, <1>5, <1>6, TickSynced, ProcessPacketSynced, CheckTimerSynced
     DEF Next, Process

\* The collected points of a lidar and those of its last frame are in the order
\* of their times; the frame came before, and no gap is longer than MaxGap.
LEMMA TimesOrdered ==
    ASSUME TypeOK, ConservedIInv, Chronology, NEW l \in Lidar
    PROVE  /\ \A k \in 1 .. Len(points_clouds_[l]) :
                 points_clouds_[l][k].offset_time \in 1 .. MaxTime
           /\ \A j, k \in 1 .. Len(points_clouds_[l]) :
                 j <= k => points_clouds_[l][j].offset_time <= points_clouds_[l][k].offset_time
           /\ \A j, k \in 1 .. Len(points_clouds_[l]) :
                 k = j + 1 => points_clouds_[l][k].offset_time
                                <= points_clouds_[l][j].offset_time + MaxGap
           /\ \A k \in 1 .. Len(points_[l]) : points_[l][k].offset_time \in 1 .. MaxTime
           /\ \A j, k \in 1 .. Len(points_[l]) :
                 j <= k => points_[l][j].offset_time <= points_[l][k].offset_time
           /\ \A j \in 1 .. Len(points_[l]), k \in 1 .. Len(points_clouds_[l]) :
                 points_[l][j].offset_time <= points_clouds_[l][k].offset_time
<1> DEFINE c == points_clouds_[l]
           f == points_[l]
           p == Len(published[l])
<1>1. /\ c \in Seq(Point) /\ f \in Seq(Point)
      /\ Len(c) \in Nat /\ Len(f) \in Nat /\ p \in Nat
  BY CloudFacts
<1>2. /\ \A k \in 1 .. Len(c) : c[k].number = p + k
      /\ Len(f) <= p
      /\ \A k \in 1 .. Len(f) : f[k].number = p - Len(f) + k
  BY DEF ConservedIInv, PassedNumbered, FrameIsLast
<1>3. /\ \A k \in 1 .. Len(c) : c[k] \in Point
      /\ \A k \in 1 .. Len(f) : f[k] \in Point
  BY <1>1, ElementOfSeq
<1>4. /\ \A k \in 1 .. Len(c) : c[k] \in InHand(l)
      /\ \A k \in 1 .. Len(f) : f[k] \in InHand(l)
  BY <1>3 DEF InHand
<1>5. /\ \A x \in InHand(l) : x.offset_time <= latest[l].time
      /\ \A x, y \in InHand(l) :
            /\ x.number <= y.number => x.offset_time <= y.offset_time
            /\ y.number = x.number + 1 => y.offset_time <= x.offset_time + MaxGap
  BY DEF Chronology
<1>6. \A x \in InHand(l) : x.offset_time \in 1 .. MaxTime
  <2>1. latest[l].time \in 1 .. MaxTime
    BY DEF TypeOK
  <2>2. MaxTime \in Nat /\ HostEpoch \in Nat
    BY FramingAssumption
  <2>3. \A x \in InHand(l) : x.offset_time \in 1 .. MaxTime + HostEpoch
    BY DEF InHand, Point
  <2> QED
    BY <1>5, <2>1, <2>2, <2>3
<1> HIDE DEF c, f, p
<1>7. /\ \A k \in 1 .. Len(c) : c[k].offset_time \in 1 .. MaxTime
      /\ \A k \in 1 .. Len(f) : f[k].offset_time \in 1 .. MaxTime
  BY <1>4, <1>6
<1>8. \A j, k \in 1 .. Len(c) : j <= k => c[j].offset_time <= c[k].offset_time
  <2> SUFFICES ASSUME NEW j \in 1 .. Len(c), NEW k \in 1 .. Len(c), j <= k
               PROVE  c[j].offset_time <= c[k].offset_time
    OBVIOUS
  <2>1. c[j].number <= c[k].number
    BY <1>1, <1>2
  <2> QED
    BY <1>4, <1>5, <2>1
<1>9. \A j, k \in 1 .. Len(c) : k = j + 1 => c[k].offset_time <= c[j].offset_time + MaxGap
  <2> SUFFICES ASSUME NEW j \in 1 .. Len(c), NEW k \in 1 .. Len(c), k = j + 1
               PROVE  c[k].offset_time <= c[j].offset_time + MaxGap
    OBVIOUS
  <2>1. c[k].number = c[j].number + 1
    BY <1>1, <1>2
  <2> QED
    BY <1>4, <1>5, <2>1
<1>10. \A j, k \in 1 .. Len(f) : j <= k => f[j].offset_time <= f[k].offset_time
  <2> SUFFICES ASSUME NEW j \in 1 .. Len(f), NEW k \in 1 .. Len(f), j <= k
               PROVE  f[j].offset_time <= f[k].offset_time
    OBVIOUS
  <2>1. f[j].number <= f[k].number
    BY <1>1, <1>2
  <2> QED
    BY <1>4, <1>5, <2>1
<1>11. \A j \in 1 .. Len(f), k \in 1 .. Len(c) : f[j].offset_time <= c[k].offset_time
  <2> SUFFICES ASSUME NEW j \in 1 .. Len(f), NEW k \in 1 .. Len(c)
               PROVE  f[j].offset_time <= c[k].offset_time
    OBVIOUS
  <2>1. f[j].number <= c[k].number
    BY <1>1, <1>2
  <2> QED
    BY <1>4, <1>5, <2>1
<1> QED
  BY <1>7, <1>8, <1>9, <1>10, <1>11 DEF c, f

\* The ends of a sequence that is not empty.
LEMMA EndsOf ==
    ASSUME NEW s \in Seq(Point), s # <<>>
    PROVE  /\ Len(s) \in Nat \ {0} /\ 1 \in 1 .. Len(s) /\ Len(s) \in 1 .. Len(s)
           /\ Start(s) = s[1].offset_time
           /\ End(s) = s[Len(s)].offset_time
<1>1. Len(s) \in Nat \ {0} /\ Head(s) = s[1]
  OBVIOUS
<1> QED
  BY <1>1 DEF Start, End

\* A number less than the modulus is its own remainder.
LEMMA SmallMod == \A a \in Nat, m \in Nat \ {0} : a < m => a % m = a
  OBVIOUS

\* In CheckTimer, with all times synchronised, what decides is the time since
\* the first point.
LEMMA LongEnoughIsSpan ==
    ASSUME AlwaysSynced, TypeOK, ConservedIInv, Chronology, NEW l \in Lidar,
           points_clouds_[l] # <<>>
    PROVE  /\ Start(points_clouds_[l]) \in 1 .. MaxTime /\ End(points_clouds_[l]) \in 1 .. MaxTime
           /\ Start(points_clouds_[l]) <= End(points_clouds_[l])
           /\ GetRecentTimeStamp(l) = End(points_clouds_[l])
           /\ LongEnough(l) <=> End(points_clouds_[l]) - Start(points_clouds_[l]) >= Tolerance
<1> DEFINE s == Start(points_clouds_[l])
           e == End(points_clouds_[l])
<1>1. points_clouds_[l] \in Seq(Point)
  BY CloudFacts
<1>2. s \in 1 .. MaxTime /\ e \in 1 .. MaxTime /\ s <= e
  <2>1. /\ Len(points_clouds_[l]) \in Nat \ {0}
        /\ 1 \in 1 .. Len(points_clouds_[l])
        /\ Len(points_clouds_[l]) \in 1 .. Len(points_clouds_[l])
        /\ 1 <= Len(points_clouds_[l])
        /\ s = points_clouds_[l][1].offset_time
        /\ e = points_clouds_[l][Len(points_clouds_[l])].offset_time
    BY <1>1, EndsOf
  <2> HIDE DEF s, e
  <2> QED
    BY <2>1, TimesOrdered
<1>3. GetRecentTimeStamp(l) = e /\ GetLidarBaseTime(l) = s
  BY DEF GetRecentTimeStamp, GetLidarBaseTime, Start, End
<1> HIDE DEF s, e
<1>4. (e - s) % TimeMod = e - s
  <2>1. TimeMod \in Nat \ {0} /\ MaxTime \in Nat /\ MaxTime <= TimeMod
    BY FramingAssumption DEF AlwaysSynced
  <2>2. e - s \in Nat /\ e - s < TimeMod
    BY <1>2, <2>1
  <2> QED
    BY <2>1, <2>2, SmallMod
<1>5. LongEnough(l) <=> e - s >= Tolerance
  BY <1>3, <1>4 DEF LongEnough
<1> QED
  BY <1>2, <1>3, <1>5 DEF s, e

\* Only CheckTimer at a boundary, long enough after the first point, makes a
\* frame, and only one of the lidar it looks at.
LEMMA OnlyBoundaryCuts ==
    ASSUME AlwaysSynced, FramingIInv, SyncedIInv, [Next]_vars, NEW l \in Lidar,
           points_'[l] # points_[l]
    PROVE  /\ l = id /\ OnBoundary(l) /\ LongEnough(l)
           /\ points_clouds_[l] # <<>> /\ points_'[l] = points_clouds_[l]
<1>1. CheckTimerSync
  <2>1. ~(CheckTimerFirst \/ CheckTimerEarly \/ CheckTimerDue)
    BY DEF SyncedIInv, FlagSet, CheckTimerFirst, CheckTimerEarly, CheckTimerDue
  <2> QED
    BY <2>1 DEF Next, Process, Tick, Receive, ReceiveImu, ProcessPacket, cloudVars, vars
<1>2. PublishFrame({id}) /\ OnBoundary(id) /\ LongEnough(id)
  BY <1>1 DEF CheckTimerSync, cloudVars
<1>3. TypeOK /\ {id} \in SUBSET Lidar /\ points_clouds_[id] # <<>>
  BY <1>1 DEF FramingIInv, TypeOK, SyncedIInv, UnderWay, CheckTimerSync
<1>4. l = id /\ points_'[l] = points_clouds_[l]
  BY <1>2, <1>3, FrameTaken
<1> QED
  BY <1>2, <1>3, <1>4

\* Synchronised frames of a lidar end at different multiples of the interval,
\* for any clocks and packets: the tolerance is more than a millisecond.
THEOREM FramesAreApart == AlwaysSynced => (Spec => FramesApart)
<1> SUFFICES ASSUME AlwaysSynced
             PROVE  Spec => FramesApart
  OBVIOUS
<1>1. FramingIInv /\ ConservedIInv /\ SyncedIInv /\ [Next]_vars =>
        [\A l \in Lidar :
            (points_'[l] # points_[l] /\ points_[l] # <<>>)
                => End(points_'[l]) \div Ms - End(points_[l]) \div Ms >= IntervalMs]_vars
  <2> SUFFICES ASSUME FramingIInv, ConservedIInv, SyncedIInv, [Next]_vars, NEW l \in Lidar,
                      points_'[l] # points_[l], points_[l] # <<>>
               PROVE  End(points_'[l]) \div Ms - End(points_[l]) \div Ms >= IntervalMs
    OBVIOUS
  <2> DEFINE s == Start(points_clouds_[l])
             e == End(points_clouds_[l])
             d == End(points_[l])
  <2>1. TypeOK /\ Chronology /\ CutAtBoundary
    BY DEF FramingIInv, SyncedIInv
  <2>2. /\ OnBoundary(l) /\ LongEnough(l)
        /\ points_clouds_[l] # <<>> /\ points_'[l] = points_clouds_[l]
    BY OnlyBoundaryCuts
  <2>3. /\ s \in Nat /\ e \in Nat /\ e - s >= Tolerance
        /\ (e \div Ms) % IntervalMs = 0
    BY <2>1, <2>2, LongEnoughIsSpan DEF OnBoundary
  <2>4. d \in Nat /\ d <= s
    <3>1. points_[l] \in Seq(Point) /\ points_clouds_[l] \in Seq(Point)
      BY <2>1, CloudFacts
    <3>2. /\ Len(points_[l]) \in 1 .. Len(points_[l]) /\ 1 \in 1 .. Len(points_clouds_[l])
          /\ d = points_[l][Len(points_[l])].offset_time
          /\ s = points_clouds_[l][1].offset_time
      BY <2>2, <3>1, EndsOf
    <3> HIDE DEF s, d
    <3>3. d \in 1 .. MaxTime /\ d <= s
      BY <2>1, <3>2, TimesOrdered
    <3> QED
      BY <3>3
  <2>5. (d \div Ms) % IntervalMs = 0
    BY <2>1 DEF CutAtBoundary
  <2> HIDE DEF s, e, d
  <2>6. d + Ms <= e
    BY <2>3, <2>4, IntervalFacts
  <2>7. (d \div Ms) + 1 <= e \div Ms /\ d \div Ms \in Nat /\ e \div Ms \in Nat
    BY <2>3, <2>4, <2>6, IntervalFacts, DivMonotone, DivMod
  <2>8. (e \div Ms) - (d \div Ms) >= IntervalMs
    <3>1. d \div Ms < e \div Ms
      BY <2>7
    <3> QED
      BY <2>3, <2>5, <2>7, <3>1, IntervalFacts, MultiplesApart
  <2> QED
    BY <2>2, <2>8 DEF e, d
<1>2. FramingIInv /\ SyncedIInv /\ [Next]_vars => SyncedIInv'
  BY SyncedStep
<1>3. FramingIInv /\ ConservedIInv /\ [Next]_vars => ConservedIInv'
  BY ConservedStep
<1> QED
  BY <1>1, <1>2, <1>3, InitSynced, InitConserved, FramingInvariance, PTL DEF Spec, FramesApart

\* The last boundary is not after the time, and the next is.
LEMMA BoundaryBefore ==
    ASSUME NEW t \in Nat
    PROVE  /\ LastBoundary(t) \in Nat /\ Ms * LastBoundary(t) \in Nat
           /\ Ms * LastBoundary(t) <= t
           /\ t < Ms * LastBoundary(t) + Interval
<1> DEFINE n == t \div Ms
           b == LastBoundary(t)
<1>1. /\ Ms \in Nat \ {0} /\ IntervalMs \in Nat \ {0} /\ Interval \in Nat
      /\ Ms * IntervalMs \in Nat /\ Ms * IntervalMs <= Interval
  BY IntervalFacts
<1>2. n \in Nat /\ Ms * n <= t /\ t < Ms * n + Ms
  BY <1>1, DivMod
<1> HIDE DEF n
<1>3. /\ n \div IntervalMs \in Nat
      /\ b = IntervalMs * (n \div IntervalMs)
      /\ n = IntervalMs * (n \div IntervalMs) + (n % IntervalMs)
      /\ n % IntervalMs \in 0 .. IntervalMs - 1
  BY <1>1, <1>2, DivMod DEF LastBoundary, n
<1> HIDE DEF b
<1>4. b \in Nat /\ b <= n /\ n + 1 <= b + IntervalMs
  BY <1>1, <1>2, <1>3
<1>5. /\ Ms * b \in Nat /\ Ms * b <= Ms * n
      /\ Ms * (n + 1) <= Ms * (b + IntervalMs)
  BY <1>1, <1>2, <1>4, TimesMonotone
<1>6. Ms * (n + 1) = Ms * n + Ms /\ Ms * (b + IntervalMs) = Ms * b + Ms * IntervalMs
  BY <1>1, <1>2, <1>4
<1>7. Ms * b <= t /\ t < Ms * b + Interval
  BY <1>1, <1>2, <1>5, <1>6
<1> QED
  BY <1>4, <1>5, <1>7 DEF b

\* The collected points of a lidar span less than two intervals: less than the
\* tolerance up to the last boundary, an interval from there, and a millisecond
\* if the last point has not been looked at.
LEMMA CloudsSpan ==
    ASSUME MaxGap <= Ms, TypeOK, ConservedIInv, Chronology, NotDueYet,
           NEW l \in Lidar, points_clouds_[l] # <<>>
    PROVE  End(points_clouds_[l]) - Start(points_clouds_[l]) < 2 * Interval
<1> DEFINE c == points_clouds_[l]
           n == Len(points_clouds_[l])
           k == Looked(l)
           s == c[1].offset_time
           e == c[n].offset_time
<1>1. points_clouds_[l] \in Seq(Point)
  BY CloudFacts
<1>2. /\ n \in Nat \ {0} /\ 1 \in 1 .. n /\ n \in 1 .. n
      /\ Start(points_clouds_[l]) = s /\ End(points_clouds_[l]) = e
  BY <1>1, EndsOf
<1>3. k \in {n, n - 1}
  <2>1. k = n - 1 \/ k = n - 0
    BY Zenon DEF Looked
  <2>2. n - 0 = n
    BY <1>2
  <2> QED
    BY <2>1, <2>2
<1>4. /\ \A j \in 1 .. n : c[j].offset_time \in 1 .. MaxTime
      /\ \A i, j \in 1 .. n :
            j = i + 1 => c[j].offset_time <= c[i].offset_time + MaxGap
  BY TimesOrdered
<1>5. k > 0 => Ms * LastBoundary(c[k].offset_time) - s < Tolerance
  BY DEF NotDueYet
<1> HIDE DEF c, n, k
<1>6. /\ Ms \in Nat \ {0} /\ Interval \in Nat /\ MaxGap \in Nat
      /\ Tolerance = Interval - Ms /\ Ms <= Tolerance
  BY IntervalFacts, ClockFacts
<1>7. s \in Nat /\ e \in Nat
  BY <1>2, <1>4
<1>8. CASE k > 0
  <2> DEFINE t == c[k].offset_time
             b == Ms * LastBoundary(t)
  <2>1. k \in 1 .. n
    BY <1>2, <1>3, <1>8
  <2>2. t \in Nat
    BY <1>4, <2>1
  <2>3. b \in Nat /\ t < b + Interval /\ b - s < Tolerance
    BY <1>5, <1>8, <2>2, BoundaryBefore
  <2>4. e <= t + MaxGap
    <3>1. CASE k = n
      BY <1>6, <2>2, <3>1
    <3>2. CASE k = n - 1
      <4>1. n = k + 1
        BY <1>2, <3>2
      <4> QED
        BY <1>2, <1>4, <2>1, <4>1
    <3> QED
      BY <1>3, <3>1, <3>2
  <2> HIDE DEF s, e, t, b
  <2>5. e - s < 2 * Interval
    BY <1>6, <1>7, <2>2, <2>3, <2>4
  <2> QED
    BY <1>2, <2>5
<1>9. CASE ~(k > 0)
  <2>1. n = 1
    BY <1>2, <1>3, <1>9
  <2>2. s = e /\ 0 < 2 * Interval
    BY <1>6, <2>1
  <2> QED
    BY <1>2, <1>7, <2>2
<1> QED
  BY <1>8, <1>9

\* When CheckTimer does not cut, the collection was too short at the last
\* boundary: at an earlier one before, or just now.
LEMMA NotCutNotDue ==
    ASSUME AlwaysSynced, MaxGap <= Ms, TypeOK, ConservedIInv, Chronology, UnderWay, NotDueYet,
           pc = "timer", ~(OnBoundary(id) /\ LongEnough(id))
    PROVE  Ms * LastBoundary(points_clouds_[id][Len(points_clouds_[id])].offset_time)
               - points_clouds_[id][1].offset_time < Tolerance
<1> DEFINE c == points_clouds_[id]
           n == Len(points_clouds_[id])
           s == c[1].offset_time
           t == c[n].offset_time
<1>1. id \in Lidar /\ points_clouds_[id] # <<>>
  BY DEF TypeOK, UnderWay
<1>2. points_clouds_[id] \in Seq(Point)
  BY <1>1, CloudFacts
<1>3. /\ n \in Nat \ {0} /\ 1 \in 1 .. n /\ n \in 1 .. n
      /\ Start(points_clouds_[id]) = s /\ End(points_clouds_[id]) = t
  BY <1>1, <1>2, EndsOf
<1>4. /\ \A j \in 1 .. n : c[j].offset_time \in 1 .. MaxTime
      /\ \A i, j \in 1 .. n : i <= j => c[i].offset_time <= c[j].offset_time
      /\ \A i, j \in 1 .. n :
            j = i + 1 => c[j].offset_time <= c[i].offset_time + MaxGap
  BY <1>1, TimesOrdered
<1>5. n - 1 > 0 => Ms * LastBoundary(c[n - 1].offset_time) - s < Tolerance
  <2>1. Looked(id) = n - 1
    BY DEF Looked
  <2> QED
    BY <1>1, <2>1 DEF NotDueYet
<1>6. /\ t \div Ms # 0 /\ (t \div Ms) % IntervalMs = 0 => t - s < Tolerance
  <2>1. /\ GetRecentTimeStamp(id) = t
        /\ LongEnough(id) <=> t - s >= Tolerance
    BY <1>1, <1>3, LongEnoughIsSpan
  <2>2. t \in 1 .. MaxTime /\ s \in 1 .. MaxTime /\ Tolerance \in Nat
    BY <1>3, <1>4, IntervalFacts
  <2> HIDE DEF t, s
  <2>3. ~(t - s >= Tolerance) => t - s < Tolerance
    BY <2>2
  <2> QED
    BY <2>1, <2>3 DEF OnBoundary
<1> HIDE DEF c, n
<1>7. /\ Ms \in Nat \ {0} /\ IntervalMs \in Nat \ {0} /\ MaxGap \in Nat
      /\ Tolerance \in Nat /\ Ms <= Tolerance
  BY IntervalFacts, ClockFacts
<1>8. s \in Nat /\ t \in Nat
  BY <1>3, <1>4
<1>9. /\ LastBoundary(t) \in Nat /\ Ms * LastBoundary(t) \in Nat
      /\ Ms * LastBoundary(t) <= t
  BY <1>8, BoundaryBefore
<1>10. CASE (t \div Ms) % IntervalMs = 0
  <2>1. CASE t \div Ms # 0
    <3>1. t - s < Tolerance
      BY <1>6, <1>10, <2>1
    <3> HIDE DEF s, t
    <3> QED
      BY <1>7, <1>8, <1>9, <3>1 DEF s, t, c, n
  <2>2. CASE t \div Ms = 0
    <3>1. t < Ms
      <4> HIDE DEF t
      <4>1. t = Ms * (t \div Ms) + (t % Ms) /\ t % Ms \in 0 .. Ms - 1
        BY <1>7, <1>8, DivMod
      <4> QED
        BY <1>7, <2>2, <4>1
    <3> HIDE DEF s, t
    <3>2. Ms * LastBoundary(t) - s < Tolerance
      BY <1>7, <1>8, <1>9, <3>1
    <3> QED
      BY <3>2 DEF s, t, c, n
  <2> QED
    BY <2>1, <2>2
<1>11. CASE (t \div Ms) % IntervalMs # 0
  <2>1. CASE n = 1
    <3>1. s = t
      BY <2>1
    <3> HIDE DEF s, t
    <3>2. Ms * LastBoundary(t) - s < Tolerance
      BY <1>7, <1>8, <1>9, <3>1
    <3> QED
      BY <3>2 DEF s, t, c, n
  <2>2. CASE n # 1
    <3> DEFINE r == c[n - 1].offset_time
    <3>1. n - 1 \in 1 .. n /\ n = (n - 1) + 1 /\ n - 1 <= n /\ n - 1 > 0
      BY <1>3, <2>2
    <3>2. r \in Nat /\ r <= t /\ t <= r + MaxGap
      BY <1>3, <1>4, <3>1
    <3>3. Ms * LastBoundary(r) - s < Tolerance
      BY <1>5, <3>1
    <3> HIDE DEF r, s, t
    <3>4. /\ r \div Ms \in Nat /\ t \div Ms \in Nat
          /\ r \div Ms <= t \div Ms /\ t \div Ms <= (r \div Ms) + 1
      <4>1. t <= r + Ms
        BY <1>7, <1>8, <3>2
      <4> QED
        BY <1>7, <1>8, <3>2, <4>1, DivMonotone, DivMod
    <3>5. (r \div Ms) \div IntervalMs = (t \div Ms) \div IntervalMs
      BY <1>7, <1>11, <3>4, SameQuotient
    <3>6. LastBoundary(t) = LastBoundary(r)
      BY <3>5 DEF LastBoundary
    <3> QED
      BY <3>3, <3>6 DEF s, t, c, n
  <2> QED
    BY <2>1, <2>2
<1> QED
  BY <1>10, <1>11

\* Every step keeps what has been looked at too short at the last boundary.
LEMMA NotDueStep ==
    ASSUME AlwaysSynced, MaxGap <= Ms, FramingIInv, ConservedIInv, SyncedIInv, NotDueYet,
           [Next]_vars
    PROVE  NotDueYet'
<1>1. TypeOK /\ Chronology /\ UnderWay
  BY DEF FramingIInv, SyncedIInv
<1>2. CASE UNCHANGED <<points_clouds_, pc, id>>
  <2>1. \A l \in Lidar : Looked(l)' = Looked(l)
    BY <1>2 DEF Looked
  <2> QED
    BY <1>2, <2>1 DEF NotDueYet
<1>3. CASE ProcessPacket
  <2> SUFFICES ASSUME NEW l \in Lidar, Looked(l)' > 0
               PROVE  Ms * LastBoundary(points_clouds_'[l][Looked(l)'].offset_time)
                          - points_clouds_'[l][1].offset_time < Tolerance
    BY DEF NotDueYet
  <2>1. pc = "packet" /\ pc' = "timer"
    BY <1>3 DEF ProcessPacket
  <2>2. Len(points_clouds_[l]) \in Nat
    BY <1>1, CloudFacts
  <2>3. Looked(l) = Len(points_clouds_[l])
    BY <2>1, <2>2 DEF Looked
  <2>4. /\ Looked(l)' = Looked(l)
        /\ \A k \in 1 .. Looked(l) : points_clouds_'[l][k] = points_clouds_[l][k]
    <3>1. CASE l = id'
      <4>1. /\ Len(points_clouds_'[l]) = Len(points_clouds_[l]) + 1
            /\ \A k \in 1 .. Len(points_clouds_[l]) :
                  points_clouds_'[l][k] = points_clouds_[l][k]
        BY <1>1, <1>3, <3>1, PacketTaken
      <4>2. Looked(l)' = Len(points_clouds_'[l]) - 1
        BY <2>1, <3>1 DEF Looked
      <4> QED
        BY <2>2, <2>3, <4>1, <4>2
    <3>2. CASE l # id'
      <4>1. points_clouds_'[l] = points_clouds_[l]
        BY <1>1, <1>3, <3>2, PacketTaken
      <4>2. Looked(l)' = Len(points_clouds_[l]) - 0
        BY <3>2, <4>1 DEF Looked
      <4> QED
        BY <2>2, <2>3, <4>1, <4>2
    <3> QED
      BY <3>1, <3>2
  <2>5. 1 \in 1 .. Looked(l) /\ Looked(l) \in 1 .. Looked(l) /\ Looked(l) > 0
    BY <2>2, <2>3, <2>4
  <2> QED
    BY <2>4, <2>5 DEF NotDueYet
<1>4. CASE CheckTimerSync
  <2> SUFFICES ASSUME NEW l \in Lidar, Looked(l)' > 0
               PROVE  Ms * LastBoundary(points_clouds_'[l][Looked(l)'].offset_time)
                          - points_clouds_'[l][1].offset_time < Tolerance
    BY DEF NotDueYet
  <2>1. pc = "timer" /\ pc' = "packet" /\ id \in Lidar /\ {id} \in SUBSET Lidar
    BY <1>1, <1>4 DEF CheckTimerSync, TypeOK
  <2>2. CASE l # id
    <3>1. points_clouds_'[l] = points_clouds_[l]
      <4>1. CASE PublishFrame({id})
        BY <1>1, <2>1, <2>2, <4>1, FrameTaken
      <4>2. CASE UNCHANGED cloudVars
        BY <4>2 DEF cloudVars
      <4> QED
        BY <1>4, <4>1, <4>2 DEF CheckTimerSync
    <3>2. Looked(l)' = Looked(l)
      BY <2>1, <2>2, <3>1 DEF Looked
    <3> QED
      BY <3>1, <3>2 DEF NotDueYet
  <2>3. CASE l = id
    <3>1. Looked(l)' = Len(points_clouds_'[l]) - 0
      BY <2>1 DEF Looked
    <3>2. CASE PublishFrame({id})
      <4>1. points_clouds_'[l] = <<>>
        BY <1>1, <2>1, <2>3, <3>2, FrameTaken
      <4>2. Len(<<>>) = 0
        OBVIOUS
      <4> QED
        BY <3>1, <4>1, <4>2
    <3>3. CASE UNCHANGED cloudVars /\ ~(OnBoundary(id) /\ LongEnough(id))
      <4>1. points_clouds_'[l] = points_clouds_[l] /\ Len(points_clouds_[l]) \in Nat
        BY <1>1, <3>3, CloudFacts DEF cloudVars
      <4>2. Looked(l)' = Len(points_clouds_[l])
        BY <3>1, <4>1
      <4>3. Ms * LastBoundary(points_clouds_[l][Len(points_clouds_[l])].offset_time)
                - points_clouds_[l][1].offset_time < Tolerance
        BY <1>1, <2>1, <2>3, <3>3, NotCutNotDue
      <4> QED
        BY <4>1, <4>2, <4>3
    <3> QED
      BY <1>4, <3>2, <3>3 DEF CheckTimerSync
  <2> QED
    BY <2>2, <2>3
<1>5. ~(CheckTimerFirst \/ CheckTimerEarly \/ CheckTimerDue)
  BY DEF SyncedIInv, FlagSet, CheckTimerFirst, CheckTimerEarly, CheckTimerDue
<1>6. CASE Tick \/ (\E synced \in SyncModes :
                       (\E l \in Lidar : Receive(l, synced)) \/ ReceiveImu(synced))
  BY <1>2, <1>6 DEF Tick, Receive, ReceiveImu, cloudVars
<1>7. CASE UNCHANGED vars
  BY <1>2, <1>7 DEF vars, cloudVars
<1> QED
  BY <1>3, <1>4, <1>5, <1>6, <1>7 DEF Next, Process

\* A frame spans what was collected.
LEMMA FrameSpanStep ==
    ASSUME AlwaysSynced, MaxGap <= Ms, FramingIInv, ConservedIInv, SyncedIInv, SpanIInv,
           [Next]_vars
    PROVE  FrameSpan'
<1> SUFFICES ASSUME NEW l \in Lidar, points_'[l] # <<>>
             PROVE  End(points_'[l]) - Start(points_'[l]) < 2 * Interval
  BY DEF FrameSpan, End, Start
<1>1. CASE points_'[l] = points_[l]
  BY <1>1 DEF SpanIInv, FrameSpan
<1>2. CASE points_'[l] # points_[l]
  <2>1. points_clouds_[l] # <<>> /\ points_'[l] = points_clouds_[l]
    BY <1>2, OnlyBoundaryCuts
  <2>2. End(points_clouds_[l]) - Start(points_clouds_[l]) < 2 * Interval
    BY <2>1, CloudsSpan DEF FramingIInv, SyncedIInv, SpanIInv
  <2> QED
    BY <2>1, <2>2
<1> QED
  BY <1>1, <1>2

\* With synchronised time and a packet in every millisecond the collections and
\* frames keep to the bound.
LEMMA SpanInvariance ==
    ASSUME AlwaysSynced, MaxGap <= Ms
    PROVE  Spec => [](FramingIInv /\ ConservedIInv /\ SyncedIInv /\ SpanIInv)
<1>1. Init => SpanIInv
  <2> SUFFICES ASSUME Init
               PROVE  SpanIInv
    OBVIOUS
  <2>1. \A l \in Lidar : points_clouds_[l] = <<>> /\ points_[l] = <<>>
    BY DEF Init
  <2>2. Len(<<>>) = 0 /\ pc # "timer"
    BY DEF Init
  <2>3. \A l \in Lidar : ~(Looked(l) > 0)
    BY <2>1, <2>2 DEF Looked
  <2> QED
    BY <2>1, <2>3 DEF SpanIInv, NotDueYet, FrameSpan
<1>2. FramingIInv /\ ConservedIInv /\ SyncedIInv /\ SpanIInv /\ [Next]_vars => SpanIInv'
  BY NotDueStep, FrameSpanStep DEF SpanIInv
<1>3. FramingIInv /\ SyncedIInv /\ [Next]_vars => SyncedIInv'
  BY SyncedStep
<1>4. FramingIInv /\ ConservedIInv /\ [Next]_vars => ConservedIInv'
  BY ConservedStep
<1> QED
  BY <1>1, <1>2, <1>3, <1>4, InitSynced, InitConserved, FramingInvariance, PTL DEF Spec

\* With synchronised time and a packet in every millisecond no frame is longer
\* than two intervals, for any interval, also one of no whole milliseconds.
THEOREM SpansBounded == AlwaysSynced /\ MaxGap <= Ms => (Spec => []SpanBounded)
<1> SUFFICES ASSUME AlwaysSynced, MaxGap <= Ms
             PROVE  Spec => []SpanBounded
  OBVIOUS
<1>1. FramingIInv /\ ConservedIInv /\ SyncedIInv /\ SpanIInv => SpanBounded
  BY CloudsSpan DEF FramingIInv, SyncedIInv, SpanIInv, FrameSpan, SpanBounded
<1> QED
  BY <1>1, SpanInvariance, PTL

\* Then 32 bits hold the offset of every point, if they hold two intervals: it
\* and the base time add up to the time of the point.
THEOREM OffsetsExact ==
    AlwaysSynced /\ MaxGap <= Ms /\ 2 * Interval <= OffsetMod => (Spec => []OffsetsAddUp)
<1> SUFFICES ASSUME AlwaysSynced, MaxGap <= Ms, 2 * Interval <= OffsetMod
             PROVE  Spec => []OffsetsAddUp
  OBVIOUS
<1>1. FramingIInv /\ ConservedIInv /\ SyncedIInv /\ SpanIInv => OffsetsAddUp
  <2> SUFFICES ASSUME FramingIInv, ConservedIInv, SyncedIInv, SpanIInv,
                      NEW l \in DOMAIN frame, NEW k \in 1 .. Len(frame[l].points)
               PROVE  frame[l].base_time + OffsetTime(l, frame[l].points[k])
                          = frame[l].points[k].offset_time
    BY DEF OffsetsAddUp
  <2> DEFINE s == frame[l].base_time
             t == frame[l].points[k].offset_time
             e == End(points_[l])
  <2>1. l \in Lidar /\ frame[l].points = points_[l] /\ k \in 1 .. Len(points_[l])
    BY DEF ConservedIInv, FrameIsLast
  <2>2. points_[l] # <<>> /\ s = Start(points_[l])
    BY <2>1 DEF FramingIInv, FrameHasItsBase, Start
  <2>3. points_[l] \in Seq(Point)
    BY <2>1, CloudFacts DEF FramingIInv
  <2>4. /\ Len(points_[l]) \in Nat \ {0}
        /\ 1 \in 1 .. Len(points_[l]) /\ Len(points_[l]) \in 1 .. Len(points_[l])
        /\ s = points_[l][1].offset_time /\ e = points_[l][Len(points_[l])].offset_time
        /\ t = points_[l][k].offset_time
    BY <2>1, <2>2, <2>3, EndsOf
  <2>5. 1 <= k /\ k <= Len(points_[l])
    BY <2>1, <2>4
  <2>6. e - s < 2 * Interval
    BY <2>1, <2>2 DEF SpanIInv, FrameSpan
  <2> HIDE DEF s, t, e
  <2>7. s \in 1 .. MaxTime /\ t \in 1 .. MaxTime /\ e \in 1 .. MaxTime /\ s <= t /\ t <= e
    BY <2>1, <2>4, <2>5, TimesOrdered DEF FramingIInv, SyncedIInv
  <2>8. (t - s) % OffsetMod = t - s
    <3>1. OffsetMod \in Nat \ {0} /\ Interval \in Nat
      BY FramingAssumption
    <3>2. t - s \in Nat /\ t - s < OffsetMod
      BY <2>6, <2>7, <3>1
    <3> QED
      BY <3>1, <3>2, SmallMod
  <2>9. s + (t - s) = t
    BY <2>7
  <2> QED
    BY <2>8, <2>9 DEF OffsetTime, s, t
<1> QED
  BY <1>1, SpanInvariance, PTL
=============================================================================
