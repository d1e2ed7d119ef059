-------------------------- MODULE PublishersProofs --------------------------
(* The threads of the driver use CacheIndex as CacheIndex describes it, so    *)
(* that what is proved of it holds of them; and what a lidar stores is        *)
(* published once, in order and under its name, for any number of lidars,     *)
(* devices and data, any format and both topic modes.                         *)
EXTENDS Publishers, CacheIndexProofs, SequenceTheorems

-----------------------------------------------------------------------------
(* CacheIndex                                                                *)

\* What the threads that store do with the indices they looked up.
LEMMA StoringUses == Storing => \E t \in Looker : LookingUp(t)
<1>1. {"processing", "sdk"} \subseteq Looker
  BY PublishersAssumption
<1> QED
  BY <1>1 DEF Storing, StoragePointData, StorageImuData, LookingUp

\* The poll threads and the environment leave the indices alone.
LEMMA OthersKeepCache == PollingPoints \/ PollingImu \/ Environment => UNCHANGED cacheVars
  BY DEF PollingPoints, PollingImu, Environment

\* Every step of the composed system is one of CacheIndex, or leaves it alone.
LEMMA CacheStep == [Next]_vars => [CacheNext]_cacheVars
<1>1. UNCHANGED vars => UNCHANGED cacheVars
  BY DEF vars, cacheVars
<1>2. Devices => CacheNext
  BY DEF Devices, CacheNext, LookingUp, LookUp
<1>3. Storing => CacheNext
  BY StoringUses DEF CacheNext
<1> QED
  BY <1>1, <1>2, <1>3, OthersKeepCache DEF Next

\* The composed system implements CacheIndex, with the processing thread and the
\* SDK's thread as the threads that look indices up.
THEOREM ImplementsCache == Spec => CacheSpec
<1>1. Init => CacheInit
  BY DEF Init
<1> QED
  BY <1>1, CacheStep, PTL DEF Spec, CacheSpec

\* So frames and IMU data always go to the device of their lidar, which is no
\* other lidar's and stays the same.
THEOREM DevicesRight ==
    Spec => [](IndexUnique /\ NoIndexLost /\ LookupRight) /\ IndexStable
  BY ImplementsCache, DevicesUnique, DevicesKept, LookupsRight, DevicesStable, PTL

-----------------------------------------------------------------------------
(* The inductive invariant                                                   *)

Data == [lidar : Handle, no : Nat \ {0}]

TopicSet ==
    [name : {"livox/lidar", "livox/lidar/pointcloud", "livox/imu"},
     of : Handle \cup {NoHandle, "all"}]

PubSet == [kind : {"PointCloud2", "CustomMsg", "Imu"}, topic : TopicSet] \cup {Null}

Body ==
    [kind : {"PointCloud2", "Imu"}, datum : Data]
        \cup [kind : {"CustomMsg"}, datum : Data, lidar_id : 0 .. 255]

Message == [topic : TopicSet, msg : Body]

\* Every variable of Publishers has its type.
PublishersTypeOK ==
    /\ [format |-> transfer_format, multi |-> use_multi_topic, ros |-> output_to_ros]
           \in Settings
    /\ sampling \subseteq lidar_type
    /\ data \in [Index -> Seq(Data)] /\ imu_data \in [Index -> Seq(Data)]
    /\ pubs \in [private : [Index -> PubSet], global : PubSet, global_2 : PubSet,
                 private_imu : [Index -> PubSet], global_imu : PubSet]
    /\ polling \in sampling \cup {Nobody}
    /\ request_exit \in BOOLEAN
    /\ stored \in [Handle -> [frames : Nat, imu : Nat]]
    /\ out \in Seq(Message)
    /\ crashed \in BOOLEAN

\* A device holds what its lidar stored last, and nothing if it is nobody's; a
\* lidar without a device has stored nothing.
QueuesOwned ==
    /\ \A h \in Handle :
          IF map_index[h] = NoIndex
             THEN stored[h].frames = 0 /\ stored[h].imu = 0
             ELSE /\ HoldsLast(data[map_index[h]], h, stored[h].frames)
                  /\ HoldsLast(imu_data[map_index[h]], h, stored[h].imu)
    /\ \A i \in Index :
          (\A h \in Handle : map_index[h] # i) => data[i] = <<>> /\ imu_data[i] = <<>>

\* The topics of a device's own publishers have the name that its handle gives.
TopicsNamed ==
    \A i \in Index :
        /\ pubs.private[i] # Null =>
              i \in lidar_type /\ pubs.private[i].topic.of = handle[i]
        /\ pubs.private_imu[i] # Null =>
              i \in lidar_type /\ pubs.private_imu[i].topic.of = handle[i]

\* A message is of a lidar that has a device with a type, and has the name of that
\* device, whole in the topic and cut to a byte in lidar_id.
OutNamed ==
    \A n \in 1 .. Len(out) :
        LET i == map_index[out[n].msg.datum.lidar] IN
        /\ i \in lidar_type
        /\ use_multi_topic => out[n].topic.of = handle[i]
        /\ out[n].msg.kind = "CustomMsg" => out[n].msg.lidar_id = LowByte(handle[i])

\* What a lidar's device does not hold has been published, in order.
OutOrdered ==
    (output_to_ros /\ ~crashed) =>
        \A h \in Handle : map_index[h] # NoIndex =>
            LET frames == stored[h].frames - Len(data[map_index[h]])
                imu == stored[h].imu - Len(imu_data[map_index[h]])
            IN  /\ \A kind \in {"PointCloud2", "CustomMsg"} :
                      IF kind \in Kinds
                         THEN PublishesFirst(out, h, kind, frames)
                         ELSE Of(out, h, kind) = {}
                /\ PublishesFirst(out, h, "Imu", imu)

DeliveryIInv ==
    PublishersTypeOK /\ HandlesNamed /\ QueuesOwned /\ TopicsNamed /\ OutNamed /\ OutOrdered

\* What a device holds has the type of data.
LEMMA QueueFacts ==
    ASSUME PublishersTypeOK, NEW i \in Index
    PROVE  /\ data[i] \in Seq(Data) /\ imu_data[i] \in Seq(Data)
           /\ Len(data[i]) \in Nat /\ Len(imu_data[i]) \in Nat
<1>1. data[i] \in Seq(Data) /\ imu_data[i] \in Seq(Data)
  BY DEF PublishersTypeOK
<1> QED
  BY <1>1, LenProperties

\* The index of a lidar that has a device.
LEMMA DeviceFacts ==
    ASSUME CacheIInv
    PROVE  /\ NoIndex \notin Index /\ lidar_type \subseteq Index
           /\ \A h \in Handle : map_index[h] # NoIndex => map_index[h] \in Index
           /\ \A g, h \in Handle :
                 map_index[g] = map_index[h] /\ map_index[h] # NoIndex => g = h
  BY CacheAssumption DEF CacheIInv, CacheTypeOK, IndexUnique, Index, NoIndex

-----------------------------------------------------------------------------
(* Queues and what was published                                             *)

\* A datum that is stored is the next.
LEMMA AppendHoldsLast ==
    ASSUME NEW q \in Seq(Data), NEW h, NEW n \in Nat, HoldsLast(q, h, n)
    PROVE  HoldsLast(Append(q, Datum(h, n + 1)), h, n + 1)
<1> DEFINE d == Datum(h, n + 1)
           a == Append(q, d)
           m == Len(q)
<1>1. m \in Nat
  BY LenProperties
<1> HIDE DEF d
<1>2. Len(a) = m + 1 /\ a[m + 1] = d /\ \A k \in 1 .. m : a[k] = q[k]
  OBVIOUS
<1> HIDE DEF a
<1>3. m <= n /\ \A k \in 1 .. m : q[k] = Datum(h, n - m + k)
  BY DEF HoldsLast
<1> HIDE DEF m
<1>4. (n + 1) - (m + 1) = n - m /\ n - m + (m + 1) = n + 1 /\ m + 1 <= n + 1
  BY <1>1, <1>3
<1>5. ASSUME NEW k \in 1 .. Len(a)
      PROVE  a[k] = Datum(h, (n + 1) - Len(a) + k)
  <2>1. CASE k \in 1 .. m
    BY <1>2, <1>3, <1>4, <2>1
  <2>2. CASE k = m + 1
    BY <1>2, <1>4, <2>2 DEF d
  <2> QED
    BY <1>1, <1>2, <2>1, <2>2
<1> QED
  BY <1>2, <1>4, <1>5 DEF HoldsLast, a, d

\* The datum that is popped is the oldest of those the queue holds.
LEMMA TailHoldsLast ==
    ASSUME NEW q \in Seq(Data), q # <<>>, NEW h, NEW n \in Nat, HoldsLast(q, h, n)
    PROVE  /\ Head(q) \in Data /\ Head(q) = Datum(h, n - Len(q) + 1)
           /\ Tail(q) \in Seq(Data) /\ HoldsLast(Tail(q), h, n)
           /\ n - Len(q) \in Nat /\ n - Len(Tail(q)) = n - Len(q) + 1
<1> DEFINE t == Tail(q)
           m == Len(q)
<1>1. /\ m \in Nat \ {0} /\ Head(q) = q[1] /\ Head(q) \in Data
      /\ t \in Seq(Data) /\ Len(t) = m - 1
      /\ \A k \in 1 .. m - 1 : t[k] = q[k + 1]
  OBVIOUS
<1> HIDE DEF t
<1>2. m <= n /\ \A k \in 1 .. m : q[k] = Datum(h, n - m + k)
  BY DEF HoldsLast
<1> HIDE DEF m
<1>3. Head(q) = Datum(h, n - m + 1)
  BY <1>1, <1>2
<1>4. ASSUME NEW k \in 1 .. Len(t)
      PROVE  t[k] = Datum(h, n - Len(t) + k)
  <2>1. k + 1 \in 1 .. m /\ k \in 1 .. m - 1 /\ n - Len(t) + k = n - m + (k + 1)
    BY <1>1, <1>2
  <2> QED
    BY <1>1, <1>2, <2>1
<1>5. n - m \in Nat /\ n - Len(t) = n - m + 1 /\ Len(t) <= n
  BY <1>1, <1>2
<1> QED
  BY <1>1, <1>3, <1>4, <1>5 DEF HoldsLast, t, m

\* Where there are no messages, those of no data are there.
LEMMA NoneFirst ==
    ASSUME NEW messages, NEW h, NEW kind, Of(messages, h, kind) = {}
    PROVE  PublishesFirst(messages, h, kind, 0)
  BY DEF PublishesFirst

\* The elements of a concatenation.
LEMMA ConcatFacts ==
    ASSUME NEW S, NEW s \in Seq(S), NEW t \in Seq(S)
    PROVE  /\ s \o t \in Seq(S)
           /\ Len(s) \in Nat /\ Len(t) \in Nat /\ Len(s \o t) = Len(s) + Len(t)
           /\ \A k \in 1 .. Len(s) : (s \o t)[k] = s[k]
           /\ \A k \in 1 .. Len(t) : (s \o t)[Len(s) + k] = t[k]
           /\ \A k \in 1 .. Len(s \o t) :
                 k \in 1 .. Len(s) \/ (k - Len(s) \in 1 .. Len(t) /\ Len(s) + (k - Len(s)) = k)
<1>1. /\ s \o t \in Seq(S)
      /\ Len(s \o t) = Len(s) + Len(t)
      /\ \A i \in 1 .. Len(s) + Len(t) :
            (s \o t)[i] = IF i <= Len(s) THEN s[i] ELSE t[i - Len(s)]
  BY ConcatProperties
<1>2. Len(s) \in Nat /\ Len(t) \in Nat
  BY LenProperties
<1>3. ASSUME NEW k \in 1 .. Len(s)
      PROVE  (s \o t)[k] = s[k]
  BY <1>1, <1>2
<1>4. ASSUME NEW k \in 1 .. Len(t)
      PROVE  (s \o t)[Len(s) + k] = t[k]
  <2>1. Len(s) + k \in 1 .. Len(s) + Len(t) /\ ~(Len(s) + k <= Len(s))
        /\ Len(s) + k - Len(s) = k
    BY <1>2
  <2> QED
    BY <1>1, <2>1
<1>5. ASSUME NEW k \in 1 .. Len(s \o t)
      PROVE  k \in 1 .. Len(s) \/ (k - Len(s) \in 1 .. Len(t) /\ Len(s) + (k - Len(s)) = k)
  BY <1>1, <1>2
<1> QED
  BY <1>1, <1>2, <1>3, <1>4, <1>5

\* Messages of another lidar or kind change nothing.
LEMMA OthersFirst ==
    ASSUME NEW o \in Seq(Message), NEW t \in Seq(Message), NEW h, NEW kind,
           Of(t, h, kind) = {}
    PROVE  /\ Of(o \o t, h, kind) = Of(o, h, kind)
           /\ \A m \in Nat : PublishesFirst(o, h, kind, m) => PublishesFirst(o \o t, h, kind, m)
<1>1. /\ Len(o) \in Nat /\ Len(t) \in Nat /\ Len(o \o t) = Len(o) + Len(t)
      /\ \A k \in 1 .. Len(o) : (o \o t)[k] = o[k]
      /\ \A k \in 1 .. Len(t) : (o \o t)[Len(o) + k] = t[k]
      /\ \A k \in 1 .. Len(o \o t) :
            k \in 1 .. Len(o) \/ (k - Len(o) \in 1 .. Len(t) /\ Len(o) + (k - Len(o)) = k)
  BY ConcatFacts
<1> DEFINE c == o \o t
<1> HIDE DEF c
<1>2. \A k \in 1 .. Len(o) : k \in 1 .. Len(c) /\ c[k] = o[k]
  BY <1>1 DEF c
<1>3. ASSUME NEW k \in Of(c, h, kind)
      PROVE  k \in Of(o, h, kind)
  <2>1. CASE k \in 1 .. Len(o)
    BY <1>2, <2>1 DEF Of
  <2>2. CASE k - Len(o) \in 1 .. Len(t) /\ Len(o) + (k - Len(o)) = k
    <3>1. c[k] = t[k - Len(o)]
      BY <1>1, <2>2 DEF c
    <3>2. k - Len(o) \in Of(t, h, kind)
      BY <2>2, <3>1 DEF Of
    <3> QED
      BY <3>2
  <2>3. k \in 1 .. Len(c)
    BY DEF Of
  <2> QED
    BY <1>1, <2>1, <2>2, <2>3 DEF c
<1>4. Of(c, h, kind) = Of(o, h, kind)
  BY <1>2, <1>3 DEF Of
<1>5. \A k \in Of(o, h, kind) : c[k] = o[k]
  BY <1>2 DEF Of
<1>6. ASSUME NEW m \in Nat, PublishesFirst(o, h, kind, m)
      PROVE  PublishesFirst(c, h, kind, m)
  BY <1>4, <1>5, <1>6 DEF PublishesFirst
<1> QED
  BY <1>4, <1>6 DEF c

\* The message of the next datum continues those of the data before.
LEMMA NextFirst ==
    ASSUME NEW o \in Seq(Message), NEW t \in Seq(Message), NEW h, NEW kind,
           NEW m \in Nat, PublishesFirst(o, h, kind, m),
           NEW j \in 1 .. Len(t), Of(t, h, kind) = {j}, t[j].msg.datum.no = m + 1
    PROVE  PublishesFirst(o \o t, h, kind, m + 1)
<1>1. /\ Len(o) \in Nat /\ Len(t) \in Nat /\ Len(o \o t) = Len(o) + Len(t)
      /\ \A k \in 1 .. Len(o) : (o \o t)[k] = o[k]
      /\ \A k \in 1 .. Len(t) : (o \o t)[Len(o) + k] = t[k]
      /\ \A k \in 1 .. Len(o \o t) :
            k \in 1 .. Len(o) \/ (k - Len(o) \in 1 .. Len(t) /\ Len(o) + (k - Len(o)) = k)
  BY ConcatFacts
<1> DEFINE c == o \o t
           l == Len(o) + j
           No(k) == o[k].msg.datum.no
<1> HIDE DEF c
<1>2. \A k \in 1 .. Len(o) : k \in 1 .. Len(c) /\ c[k] = o[k]
  BY <1>1 DEF c
<1>3. l \in 1 .. Len(c) /\ c[l] = t[j] /\ \A k \in 1 .. Len(o) : k < l
  BY <1>1 DEF c
<1>4. ASSUME NEW k \in Of(c, h, kind)
      PROVE  k \in Of(o, h, kind) \cup {l}
  <2>1. CASE k \in 1 .. Len(o)
    BY <1>2, <2>1 DEF Of
  <2>2. CASE k - Len(o) \in 1 .. Len(t) /\ Len(o) + (k - Len(o)) = k
    <3>1. c[k] = t[k - Len(o)]
      BY <1>1, <2>2 DEF c
    <3>2. k - Len(o) \in Of(t, h, kind)
      BY <2>2, <3>1 DEF Of
    <3>3. k - Len(o) = j
      BY <3>2
    <3> QED
      BY <2>2, <3>3
  <2>3. k \in 1 .. Len(c)
    BY DEF Of
  <2> QED
    BY <1>1, <2>1, <2>2, <2>3 DEF c
<1>5. l \in Of(c, h, kind)
  <2>1. j \in Of(t, h, kind)
    OBVIOUS
  <2> QED
    BY <1>3, <2>1 DEF Of
<1>6. Of(c, h, kind) = Of(o, h, kind) \cup {l}
  BY <1>2, <1>4, <1>5 DEF Of
<1>7. /\ \A k \in Of(o, h, kind) : c[k] = o[k] /\ k < l /\ k \in 1 .. Len(o)
      /\ c[l].msg.datum.no = m + 1
  BY <1>2, <1>3 DEF Of
<1>8. /\ {No(k) : k \in Of(o, h, kind)} = 1 .. m
      /\ \A i, k \in Of(o, h, kind) : i < k => No(i) < No(k)
  BY DEF PublishesFirst
<1> DEFINE Nc(k) == c[k].msg.datum.no
<1>9. \A k \in Of(o, h, kind) : Nc(k) = No(k) /\ No(k) \in 1 .. m
  BY <1>7, <1>8
<1>10. Nc(l) = m + 1 /\ l \in Nat
  BY <1>1, <1>7
<1> HIDE DEF l, No, Nc
<1>11. {Nc(k) : k \in Of(c, h, kind)} = 1 .. m + 1
  <2>1. {Nc(k) : k \in Of(c, h, kind)} = {Nc(k) : k \in Of(o, h, kind)} \cup {m + 1}
    BY <1>6, <1>10
  <2>2. {Nc(k) : k \in Of(o, h, kind)} = 1 .. m
    BY <1>8, <1>9
  <2>3. 1 .. m + 1 = (1 .. m) \cup {m + 1}
    OBVIOUS
  <2> QED
    BY <2>1, <2>2, <2>3
<1>12. ASSUME NEW i \in Of(c, h, kind), NEW k \in Of(c, h, kind), i < k
       PROVE  Nc(i) < Nc(k)
  <2>1. i \in Of(o, h, kind)
    <3>1. CASE i = l
      <4>1. k \in Nat
        BY DEF Of
      <4>2. k <= l
        BY <1>1, <1>6, <1>7, <1>10
      <4> QED
        BY <1>10, <1>12, <3>1, <4>1, <4>2
    <3> QED
      BY <1>6, <3>1
  <2>2. CASE k = l
    BY <1>9, <1>10, <2>1, <2>2
  <2>3. CASE k \in Of(o, h, kind)
    BY <1>8, <1>9, <1>12, <2>1, <2>3
  <2> QED
    BY <1>6, <2>2, <2>3
<1> QED
  BY <1>11, <1>12 DEF PublishesFirst, Nc, c

-----------------------------------------------------------------------------
(* Publishers and messages                                                   *)

\* A publisher that is created has the topic it was created with.
LEMMA CreatedPublisher ==
    ASSUME NEW topic \in TopicSet, NEW msg_type
    PROVE  /\ CreatePublisher(msg_type, topic) \in PubSet
           /\ CreatePublisher(msg_type, topic) # Null =>
                  CreatePublisher(msg_type, topic).topic = topic
  BY DEF CreatePublisher, PubSet

\* The topics are named after a device or all.
LEMMA TopicFacts ==
    ASSUME NEW name \in {"livox/lidar", "livox/lidar/pointcloud", "livox/imu"},
           NEW of \in Handle \cup {NoHandle, "all"}
    PROVE  Topic(name, of) \in TopicSet /\ Topic(name, of).of = of
  BY DEF Topic, TopicSet

\* The publisher of a device with a type is named after its handle, whether it
\* was there or is created.
LEMMA PublisherNamed ==
    ASSUME CacheTypeOK, PublishersTypeOK, TopicsNamed, UNCHANGED <<use_multi_topic, deviceVars>>,
           NEW i \in lidar_type, pubs' = WithPublisher(pubs, i)
    PROVE  /\ pubs' \in [private : [Index -> PubSet], global : PubSet, global_2 : PubSet,
                         private_imu : [Index -> PubSet], global_imu : PubSet]
           /\ TopicsNamed'
           /\ \A p \in {CurrentPublisher(pubs', i), CurrentPublisher2(pubs', i)} :
                 p \in PubSet /\ (use_multi_topic /\ p # Null => p.topic.of = handle[i])
<1> DEFINE pubsType == [private : [Index -> PubSet], global : PubSet, global_2 : PubSet,
                        private_imu : [Index -> PubSet], global_imu : PubSet]
           own == CreatePublisher(transfer_format, PrivateTopic("livox/lidar", i))
           all == CreatePublisher(transfer_format, Topic("livox/lidar", "all"))
           custom == CreatePublisher(kLivoxCustomMsg, Topic("livox/lidar", "all"))
           cloud == CreatePublisher(kPointCloud2Msg, Topic("livox/lidar/pointcloud", "all"))
<1>1. pubs \in pubsType /\ i \in Index /\ handle[i] \in Handle \cup {NoHandle}
  BY DEF PublishersTypeOK, CacheTypeOK
<1>2. own \in PubSet /\ (own # Null => own.topic.of = handle[i])
  <2>1. PrivateTopic("livox/lidar", i) \in TopicSet
        /\ PrivateTopic("livox/lidar", i).of = handle[i]
    BY <1>1, TopicFacts DEF PrivateTopic
  <2> QED
    BY <2>1, CreatedPublisher
<1>3. all \in PubSet /\ custom \in PubSet /\ cloud \in PubSet
  BY TopicFacts, CreatedPublisher
<1> HIDE DEF own, all, custom, cloud
<1>4. CASE use_multi_topic /\ pubs.private[i] # Null
  <2>1. pubs' = pubs
    BY <1>4 DEF WithPublisher
  <2> QED
    BY <1>1, <1>4, <2>1 DEF TopicsNamed, CurrentPublisher, CurrentPublisher2, deviceVars
<1>5. CASE use_multi_topic /\ pubs.private[i] = Null
  <2>1. pubs' = [pubs EXCEPT !.private[i] = own]
    BY <1>5 DEF WithPublisher, own
  <2>2. /\ pubs' \in pubsType
        /\ pubs'.private[i] = own
        /\ \A j \in Index : j # i => pubs'.private[j] = pubs.private[j]
        /\ pubs'.private_imu = pubs.private_imu
    BY <1>1, <1>2, <2>1
  <2>3. TopicsNamed'
    BY <1>2, <2>2 DEF TopicsNamed, deviceVars
  <2> QED
    BY <1>2, <1>5, <2>2, <2>3 DEF CurrentPublisher, CurrentPublisher2
<1>6. CASE ~use_multi_topic
  <2>1. \/ pubs' = pubs
        \/ pubs' = [pubs EXCEPT !.global = custom, !.global_2 = cloud]
        \/ pubs' = [pubs EXCEPT !.global = all]
    BY <1>6 DEF WithPublisher, custom, cloud, all
  <2>2. /\ pubs' \in pubsType
        /\ pubs'.private = pubs.private /\ pubs'.private_imu = pubs.private_imu
    BY <1>1, <1>3, <2>1
  <2>3. TopicsNamed'
    BY <2>2 DEF TopicsNamed, deviceVars
  <2> QED
    BY <1>6, <2>2, <2>3 DEF CurrentPublisher, CurrentPublisher2
<1> QED
  BY <1>4, <1>5, <1>6

\* So is the publisher of its IMU data.
LEMMA ImuPublisherNamed ==
    ASSUME CacheTypeOK, PublishersTypeOK, TopicsNamed, UNCHANGED <<use_multi_topic, deviceVars>>,
           NEW i \in lidar_type, pubs' = WithImuPublisher(pubs, i)
    PROVE  /\ pubs' \in [private : [Index -> PubSet], global : PubSet, global_2 : PubSet,
                         private_imu : [Index -> PubSet], global_imu : PubSet]
           /\ TopicsNamed'
           /\ CurrentImuPublisher(pubs', i) \in PubSet
           /\ use_multi_topic /\ CurrentImuPublisher(pubs', i) # Null =>
                  CurrentImuPublisher(pubs', i).topic.of = handle[i]
<1> DEFINE pubsType == [private : [Index -> PubSet], global : PubSet, global_2 : PubSet,
                        private_imu : [Index -> PubSet], global_imu : PubSet]
           own == CreatePublisher(kLivoxImuMsg, PrivateTopic("livox/imu", i))
           all == CreatePublisher(kLivoxImuMsg, Topic("livox/imu", "all"))
<1>1. pubs \in pubsType /\ i \in Index /\ handle[i] \in Handle \cup {NoHandle}
  BY DEF PublishersTypeOK, CacheTypeOK
<1>2. own \in PubSet /\ (own # Null => own.topic.of = handle[i])
  <2>1. PrivateTopic("livox/imu", i) \in TopicSet
        /\ PrivateTopic("livox/imu", i).of = handle[i]
    BY <1>1, TopicFacts DEF PrivateTopic
  <2> QED
    BY <2>1, CreatedPublisher
<1>3. all \in PubSet
  BY TopicFacts, CreatedPublisher
<1> HIDE DEF own, all
<1>4. CASE use_multi_topic /\ pubs.private_imu[i] # Null
  <2>1. pubs' = pubs
    BY <1>4 DEF WithImuPublisher
  <2> QED
    BY <1>1, <1>4, <2>1 DEF TopicsNamed, CurrentImuPublisher, deviceVars
<1>5. CASE use_multi_topic /\ pubs.private_imu[i] = Null
  <2>1. pubs' = [pubs EXCEPT !.private_imu[i] = own]
    BY <1>5 DEF WithImuPublisher, own
  <2>2. /\ pubs' \in pubsType
        /\ pubs'.private_imu[i] = own
        /\ \A j \in Index : j # i => pubs'.private_imu[j] = pubs.private_imu[j]
        /\ pubs'.private = pubs.private
    BY <1>1, <1>2, <2>1
  <2>3. TopicsNamed'
    BY <1>2, <2>2 DEF TopicsNamed, deviceVars
  <2> QED
    BY <1>2, <1>5, <2>2, <2>3 DEF CurrentImuPublisher
<1>6. CASE ~use_multi_topic
  <2>1. pubs' = pubs \/ pubs' = [pubs EXCEPT !.global_imu = all]
    BY <1>6 DEF WithImuPublisher, all
  <2>2. /\ pubs' \in pubsType
        /\ pubs'.private = pubs.private /\ pubs'.private_imu = pubs.private_imu
    BY <1>1, <1>3, <2>1
  <2>3. TopicsNamed'
    BY <2>2 DEF TopicsNamed, deviceVars
  <2> QED
    BY <1>6, <2>2, <2>3 DEF CurrentImuPublisher
<1> QED
  BY <1>4, <1>5, <1>6

\* The messages t of datum d of device i: one of each of the kinds, with the
\* device's name.
SentOf(i, d, kinds, t) ==
    /\ \A n \in 1 .. Len(t) :
          /\ t[n].msg.datum = d /\ t[n].msg.kind \in kinds
          /\ use_multi_topic => t[n].topic.of = handle[i]
          /\ t[n].msg.kind = "CustomMsg" => t[n].msg.lidar_id = LowByte(handle[i])
    /\ \A kind \in kinds :
          \E n \in 1 .. Len(t) :
              t[n].msg.kind = kind /\ \A m \in 1 .. Len(t) : t[m].msg.kind = kind => m = n

\* What publishing a datum does to what was published: nothing if the output is
\* not ROS; a crash if a publisher is null; else one message of each kind.
Sends(i, d, kinds) ==
    \/ ~output_to_ros /\ UNCHANGED <<out, crashed>>
    \/ crashed' = TRUE /\ UNCHANGED out
    \/ /\ UNCHANGED crashed
       /\ \E t \in Seq(Message) : out' = out \o t /\ SentOf(i, d, kinds, t)

\* Publishing one message.
LEMMA OneSent ==
    ASSUME NEW p \in PubSet, NEW msg \in Body, NEW i \in Index, NEW d,
           use_multi_topic /\ p # Null => p.topic.of = handle[i],
           msg.datum = d, msg.kind = "CustomMsg" => msg.lidar_id = LowByte(handle[i]),
           PublishAll(<<p>>, <<msg>>)
    PROVE  Sends(i, d, {msg.kind})
<1>1. CASE ~output_to_ros
  BY <1>1 DEF PublishAll, Sends
<1>2. CASE output_to_ros /\ Cast(p, msg.kind) = Null
  BY <1>2 DEF PublishAll, Sends
<1>3. CASE output_to_ros /\ Cast(p, msg.kind) # Null
  <2> DEFINE x == [topic |-> p.topic, msg |-> msg]
             t == <<x>>
  <2>1. p # Null /\ Cast(p, msg.kind) = p
    BY <1>3 DEF Cast
  <2>2. x \in Message
    <3>1. p.topic \in TopicSet
      BY <2>1 DEF PubSet
    <3> QED
      BY <3>1 DEF Message
  <2>3. UNCHANGED crashed /\ out' = out \o t
    BY <1>3, <2>1 DEF PublishAll
  <2>4. x.topic = p.topic /\ x.msg = msg
    OBVIOUS
  <2> HIDE DEF x
  <2>5. t \in Seq(Message) /\ Len(t) = 1 /\ t[1] = x
    BY <2>2
  <2> HIDE DEF t
  <2>6. SentOf(i, d, {msg.kind}, t)
    BY <2>1, <2>4, <2>5 DEF SentOf
  <2> QED
    BY <2>3, <2>5, <2>6 DEF Sends
<1> QED
  BY <1>1, <1>2, <1>3

\* Publishing two messages of different kinds.
LEMMA TwoSent ==
    ASSUME NEW p \in PubSet, NEW q \in PubSet, NEW msg \in Body, NEW msg2 \in Body,
           NEW i \in Index, NEW d,
           use_multi_topic /\ p # Null => p.topic.of = handle[i],
           use_multi_topic /\ q # Null => q.topic.of = handle[i],
           msg.datum = d, msg.kind = "CustomMsg" => msg.lidar_id = LowByte(handle[i]),
           msg2.datum = d, msg2.kind = "CustomMsg" => msg2.lidar_id = LowByte(handle[i]),
           msg.kind # msg2.kind,
           PublishAll(<<p, q>>, <<msg, msg2>>)
    PROVE  Sends(i, d, {msg.kind, msg2.kind})
<1>1. CASE ~output_to_ros
  BY <1>1 DEF PublishAll, Sends
<1>2. CASE output_to_ros /\ (Cast(p, msg.kind) = Null \/ Cast(q, msg2.kind) = Null)
  BY <1>2 DEF PublishAll, Sends
<1>3. CASE output_to_ros /\ Cast(p, msg.kind) # Null /\ Cast(q, msg2.kind) # Null
  <2> DEFINE x == [topic |-> p.topic, msg |-> msg]
             y == [topic |-> q.topic, msg |-> msg2]
             t == <<x, y>>
  <2>1. p # Null /\ Cast(p, msg.kind) = p /\ q # Null /\ Cast(q, msg2.kind) = q
    BY <1>3 DEF Cast
  <2>2. x \in Message /\ y \in Message
    <3>1. p.topic \in TopicSet /\ q.topic \in TopicSet
      BY <2>1 DEF PubSet
    <3> QED
      BY <3>1 DEF Message
  <2>3. UNCHANGED crashed /\ out' = out \o t
    <3> DEFINE ps == <<p, q>>
               msgs == <<msg, msg2>>
               cast == [n \in {1, 2} |-> Cast(ps[n], msgs[n].kind)]
               sent == [n \in {1, 2} |-> [topic |-> cast[n].topic, msg |-> msgs[n]]]
    <3>1. /\ DOMAIN ps = {1, 2} /\ ps[1] = p /\ ps[2] = q
          /\ msgs[1] = msg /\ msgs[2] = msg2
      OBVIOUS
    <3>2. cast[1] = p /\ cast[2] = q
      BY <2>1, <3>1
    <3> HIDE DEF ps, msgs
    <3>3. ~(\E n \in {1, 2} : cast[n] = Null)
      BY <2>1, <3>2
    <3>4. UNCHANGED crashed /\ out' = out \o sent
      <4>1. PublishAll(ps, msgs)
        BY DEF ps, msgs
      <4> QED
        BY <1>3, <3>1, <3>3, <4>1, Zenon DEF PublishAll
    <3>5. sent = t
      <4>1. sent[1] = x /\ sent[2] = y
        BY <3>1, <3>2
      <4>2. t[1] = x /\ t[2] = y /\ t = [n \in 1 .. 2 |-> t[n]] /\ 1 .. 2 = {1, 2}
        OBVIOUS
      <4> HIDE DEF t, x, y, cast
      <4> QED
        BY <4>1, <4>2
    <3> QED
      BY <3>4, <3>5
  <2>4. x.topic = p.topic /\ x.msg = msg /\ y.topic = q.topic /\ y.msg = msg2
    OBVIOUS
  <2> HIDE DEF x, y
  <2>5. t \in Seq(Message) /\ Len(t) = 2 /\ t[1] = x /\ t[2] = y
    BY <2>2
  <2> HIDE DEF t
  <2>6. 1 .. Len(t) = {1, 2}
    BY <2>5
  <2>7. SentOf(i, d, {msg.kind, msg2.kind}, t)
    BY <2>1, <2>4, <2>5, <2>6 DEF SentOf
  <2> QED
    BY <2>3, <2>5, <2>7 DEF Sends
<1> QED
  BY <1>1, <1>2, <1>3

\* Messages with the name of their device keep all messages so.
LEMMA SendsNamed ==
    ASSUME CacheTypeOK, PublishersTypeOK, OutNamed, NEW i \in lidar_type, NEW d \in Data,
           map_index[d.lidar] = i, NEW kinds, Sends(i, d, kinds),
           UNCHANGED <<map_index, lidar_type, handle, use_multi_topic>>
    PROVE  out' \in Seq(Message) /\ crashed' \in BOOLEAN /\ OutNamed'
<1>1. out \in Seq(Message) /\ crashed \in BOOLEAN
  BY DEF PublishersTypeOK
<1>2. CASE UNCHANGED out
  <2>1. crashed' \in BOOLEAN
    BY <1>1 DEF Sends
  <2> QED
    BY <1>1, <1>2, <2>1 DEF OutNamed
<1>3. CASE UNCHANGED crashed
           /\ \E t \in Seq(Message) : out' = out \o t /\ SentOf(i, d, kinds, t)
  <2>1. PICK t \in Seq(Message) : out' = out \o t /\ SentOf(i, d, kinds, t)
    BY <1>3
  <2>2. /\ out' \in Seq(Message)
        /\ \A k \in 1 .. Len(out) : out'[k] = out[k]
        /\ \A k \in 1 .. Len(t) : out'[Len(out) + k] = t[k]
        /\ \A k \in 1 .. Len(out') :
              k \in 1 .. Len(out)
                 \/ (k - Len(out) \in 1 .. Len(t) /\ Len(out) + (k - Len(out)) = k)
    BY <1>1, <2>1, ConcatFacts
  <2>3. ASSUME NEW k \in 1 .. Len(t)
        PROVE  /\ map_index[t[k].msg.datum.lidar] = i
               /\ use_multi_topic => t[k].topic.of = handle[i]
               /\ t[k].msg.kind = "CustomMsg" => t[k].msg.lidar_id = LowByte(handle[i])
    BY <2>1 DEF SentOf
  <2>4. ASSUME NEW n \in 1 .. Len(out')
        PROVE  /\ map_index[out'[n].msg.datum.lidar] \in lidar_type
               /\ use_multi_topic =>
                     out'[n].topic.of = handle[map_index[out'[n].msg.datum.lidar]]
               /\ out'[n].msg.kind = "CustomMsg" =>
                     out'[n].msg.lidar_id =
                        LowByte(handle[map_index[out'[n].msg.datum.lidar]])
    <3>1. CASE n \in 1 .. Len(out)
      BY <2>2, <3>1 DEF OutNamed
    <3>2. CASE n - Len(out) \in 1 .. Len(t) /\ Len(out) + (n - Len(out)) = n
      <4>1. out'[n] = t[n - Len(out)]
        BY <2>2, <3>2
      <4> QED
        BY <2>3, <3>2, <4>1
    <3> QED
      BY <2>2, <3>1, <3>2
  <2> QED
    BY <1>1, <1>3, <2>2, <2>4 DEF OutNamed
<1> QED
  BY <1>2, <1>3 DEF Sends

\* The messages of a datum continue those of its lidar, in each of the kinds,
\* and no others.
LEMMA SendsOrdered ==
    ASSUME PublishersTypeOK, NEW i \in Index, NEW d \in Data, NEW kinds, Sends(i, d, kinds),
           output_to_ros, ~crashed'
    PROVE  /\ \A h \in Handle, kind \in {"PointCloud2", "CustomMsg", "Imu"} :
                 h # d.lidar \/ kind \notin kinds =>
                    /\ Of(out', h, kind) = Of(out, h, kind)
                    /\ \A m \in Nat :
                          PublishesFirst(out, h, kind, m) => PublishesFirst(out', h, kind, m)
           /\ \A kind \in kinds, m \in Nat :
                 d.no = m + 1 /\ PublishesFirst(out, d.lidar, kind, m)
                    => PublishesFirst(out', d.lidar, kind, m + 1)
<1>1. PICK t \in Seq(Message) : out' = out \o t /\ SentOf(i, d, kinds, t)
  BY DEF Sends
<1>2. out \in Seq(Message)
  BY DEF PublishersTypeOK
<1>3. \A n \in 1 .. Len(t) : t[n].msg.datum = d /\ t[n].msg.kind \in kinds
  BY <1>1 DEF SentOf
<1>4. ASSUME NEW h \in Handle, NEW kind \in {"PointCloud2", "CustomMsg", "Imu"},
             h # d.lidar \/ kind \notin kinds
      PROVE  Of(t, h, kind) = {}
  BY <1>3, <1>4 DEF Of
<1>5. ASSUME NEW kind \in kinds, NEW m \in Nat, d.no = m + 1,
             PublishesFirst(out, d.lidar, kind, m)
      PROVE  PublishesFirst(out', d.lidar, kind, m + 1)
  <2>1. PICK n \in 1 .. Len(t) :
            t[n].msg.kind = kind /\ \A k \in 1 .. Len(t) : t[k].msg.kind = kind => k = n
    BY <1>1 DEF SentOf
  <2>2. Of(t, d.lidar, kind) = {n} /\ t[n].msg.datum.no = m + 1
    BY <1>3, <1>5, <2>1 DEF Of
  <2> QED
    BY <1>1, <1>2, <1>5, <2>2, NextFirst
<1> QED
  BY <1>1, <1>2, <1>4, <1>5, OthersFirst

-----------------------------------------------------------------------------
(* Steps                                                                     *)

\* The kinds of point clouds.
LEMMA KindFacts == Kinds \subseteq {"PointCloud2", "CustomMsg"}
  BY DEF Kinds

\* Frames are published: the oldest a device holds is popped and sent.
LEMMA PointsDelivered ==
    ASSUME CacheIInv, DeliveryIInv, ~crashed, NEW i \in Index, Pop(i), TopicsNamed',
           pubs' \in [private : [Index -> PubSet], global : PubSet, global_2 : PubSet,
                      private_imu : [Index -> PubSet], global_imu : PubSet],
           Sends(i, Head(data[i]), Kinds),
           UNCHANGED <<cacheVars, paramVars, request_exit>>
    PROVE  DeliveryIInv'
<1> DEFINE d == Head(data[i])
           h == d.lidar
<1>1. /\ CacheTypeOK /\ PublishersTypeOK /\ HandlesNamed /\ QueuesOwned /\ OutNamed /\ OutOrdered
  BY DEF CacheIInv, DeliveryIInv
<1>2. /\ UNCHANGED <<map_index, lidar_type, handle, listening>>
      /\ UNCHANGED <<transfer_format, use_multi_topic, output_to_ros>>
      /\ UNCHANGED <<sampling, imu_data, stored, polling>>
      /\ data' = [data EXCEPT ![i] = Tail(data[i])] /\ data[i] # <<>> /\ polling = i
  BY DEF cacheVars, paramVars, Pop
<1>3. i \in lidar_type
  BY <1>1, <1>2, CacheAssumption DEF PublishersTypeOK, Nobody, Index
<1>4. data[i] \in Seq(Data) /\ Len(data[i]) \in Nat
  BY <1>1, QueueFacts
<1>5. PICK g \in Handle : map_index[g] = i
  BY <1>1, <1>2 DEF QueuesOwned
<1>6. \A f \in Handle : f # g => map_index[f] # i
  BY <1>5, DeviceFacts
<1>7. HoldsLast(data[i], g, stored[g].frames) /\ stored[g].frames \in Nat
  <2>1. map_index[g] # NoIndex
    BY <1>5, DeviceFacts
  <2> QED
    BY <1>1, <1>5, <2>1 DEF QueuesOwned, PublishersTypeOK
<1>8. /\ d \in Data /\ d = Datum(g, stored[g].frames - Len(data[i]) + 1)
      /\ Tail(data[i]) \in Seq(Data) /\ HoldsLast(Tail(data[i]), g, stored[g].frames)
      /\ stored[g].frames - Len(data[i]) \in Nat
      /\ stored[g].frames - Len(Tail(data[i])) = stored[g].frames - Len(data[i]) + 1
  BY <1>2, <1>4, <1>7, TailHoldsLast
<1>9. h = g /\ d.no = stored[g].frames - Len(data[i]) + 1
  BY <1>8 DEF Datum
<1> HIDE DEF d
<1>10. out' \in Seq(Message) /\ crashed' \in BOOLEAN /\ OutNamed'
  BY <1>1, <1>2, <1>3, <1>5, <1>8, <1>9, SendsNamed DEF d
<1>11. /\ data' \in [Index -> Seq(Data)]
       /\ data'[i] = Tail(data[i])
       /\ \A j \in Index : j # i => data'[j] = data[j]
  BY <1>1, <1>2, <1>8 DEF PublishersTypeOK
<1>12. PublishersTypeOK'
  BY <1>1, <1>2, <1>10, <1>11 DEF PublishersTypeOK
<1>13. HandlesNamed'
  BY <1>1, <1>2 DEF HandlesNamed
<1>14. QueuesOwned'
  <2>1. ASSUME NEW f \in Handle, map_index[f] # NoIndex
        PROVE  /\ HoldsLast(data'[map_index[f]], f, stored[f].frames)
               /\ HoldsLast(imu_data[map_index[f]], f, stored[f].imu)
    <3>1. map_index[f] \in Index
      BY <2>1, DeviceFacts
    <3> QED
      BY <1>1, <1>5, <1>6, <1>8, <1>11, <2>1, <3>1 DEF QueuesOwned
  <2>2. ASSUME NEW j \in Index, \A f \in Handle : map_index[f] # j
        PROVE  data'[j] = <<>> /\ imu_data[j] = <<>>
    BY <1>1, <1>5, <1>11, <2>2 DEF QueuesOwned
  <2> QED
    BY <1>1, <1>2, <2>1, <2>2 DEF QueuesOwned
<1>15. OutOrdered'
  <2> SUFFICES ASSUME output_to_ros, ~crashed', NEW f \in Handle, map_index[f] # NoIndex
               PROVE  /\ \A kind \in {"PointCloud2", "CustomMsg"} :
                            IF kind \in Kinds
                               THEN PublishesFirst(out', f, kind,
                                        stored[f].frames - Len(data'[map_index[f]]))
                               ELSE Of(out', f, kind) = {}
                      /\ PublishesFirst(out', f, "Imu",
                             stored[f].imu - Len(imu_data[map_index[f]]))
    BY <1>2 DEF OutOrdered, Kinds
  <2>1. /\ \A kind \in {"PointCloud2", "CustomMsg"} :
              IF kind \in Kinds
                 THEN PublishesFirst(out, f, kind, stored[f].frames - Len(data[map_index[f]]))
                 ELSE Of(out, f, kind) = {}
        /\ PublishesFirst(out, f, "Imu", stored[f].imu - Len(imu_data[map_index[f]]))
    BY <1>1 DEF OutOrdered
  <2>2. /\ \A e \in Handle, kind \in {"PointCloud2", "CustomMsg", "Imu"} :
              e # h \/ kind \notin Kinds =>
                 /\ Of(out', e, kind) = Of(out, e, kind)
                 /\ \A m \in Nat :
                       PublishesFirst(out, e, kind, m) => PublishesFirst(out', e, kind, m)
        /\ \A kind \in Kinds, m \in Nat :
              d.no = m + 1 /\ PublishesFirst(out, h, kind, m)
                 => PublishesFirst(out', h, kind, m + 1)
    BY <1>1, <1>8, SendsOrdered DEF d
  <2>3. /\ map_index[f] \in Index
        /\ stored[f].frames - Len(data[map_index[f]]) \in Nat
        /\ stored[f].imu - Len(imu_data[map_index[f]]) \in Nat
    <3>1. map_index[f] \in Index
      BY DeviceFacts
    <3>2. /\ stored[f].frames \in Nat /\ stored[f].imu \in Nat
          /\ Len(data[map_index[f]]) \in Nat /\ Len(imu_data[map_index[f]]) \in Nat
      BY <1>1, <3>1, QueueFacts DEF PublishersTypeOK
    <3>3. /\ Len(data[map_index[f]]) <= stored[f].frames
          /\ Len(imu_data[map_index[f]]) <= stored[f].imu
      BY <1>1 DEF QueuesOwned, HoldsLast
    <3> QED
      BY <3>1, <3>2, <3>3
  <2>4. PublishesFirst(out', f, "Imu", stored[f].imu - Len(imu_data[map_index[f]]))
    BY <2>1, <2>2, <2>3, KindFacts
  <2>5. CASE f = g
    <3>1. map_index[f] = i /\ stored[f].frames - Len(data'[i])
                                  = stored[f].frames - Len(data[i]) + 1
      BY <1>5, <1>8, <1>11, <2>5
    <3>2. ASSUME NEW kind \in {"PointCloud2", "CustomMsg"}
          PROVE  IF kind \in Kinds
                    THEN PublishesFirst(out', f, kind, stored[f].frames - Len(data'[i]))
                    ELSE Of(out', f, kind) = {}
      BY <1>9, <2>1, <2>2, <2>3, <2>5, <3>1
    <3> QED
      BY <2>4, <3>1, <3>2
  <2>6. CASE f # g
    <3>1. data'[map_index[f]] = data[map_index[f]]
      BY <1>6, <1>11, <2>3, <2>6
    <3> QED
      BY <1>9, <2>1, <2>2, <2>3, <2>4, <2>6, <3>1
  <2> QED
    BY <2>5, <2>6
<1> QED
  BY <1>10, <1>12, <1>13, <1>14, <1>15 DEF DeliveryIInv

\* IMU data are published: the oldest a device holds is popped and sent.
LEMMA ImuDelivered ==
    ASSUME CacheIInv, DeliveryIInv, ~crashed, NEW i \in Index, i \in sampling, imu_data[i] # <<>>,
           imu_data' = [imu_data EXCEPT ![i] = Tail(imu_data[i])],
           UNCHANGED <<sampling, data, stored, polling>>, TopicsNamed',
           pubs' \in [private : [Index -> PubSet], global : PubSet, global_2 : PubSet,
                      private_imu : [Index -> PubSet], global_imu : PubSet],
           Sends(i, Head(imu_data[i]), {"Imu"}),
           UNCHANGED <<cacheVars, paramVars, request_exit>>
    PROVE  DeliveryIInv'
<1> DEFINE d == Head(imu_data[i])
           h == d.lidar
<1>1. /\ CacheTypeOK /\ PublishersTypeOK /\ HandlesNamed /\ QueuesOwned /\ OutNamed /\ OutOrdered
  BY DEF CacheIInv, DeliveryIInv
<1>2. /\ UNCHANGED <<map_index, lidar_type, handle, listening>>
      /\ UNCHANGED <<transfer_format, use_multi_topic, output_to_ros>>
  BY DEF cacheVars, paramVars
<1>3. i \in lidar_type
  BY <1>1 DEF PublishersTypeOK
<1>4. imu_data[i] \in Seq(Data) /\ Len(imu_data[i]) \in Nat
  BY <1>1, QueueFacts
<1>5. PICK g \in Handle : map_index[g] = i
  BY <1>1, <1>2 DEF QueuesOwned
<1>6. \A f \in Handle : f # g => map_index[f] # i
  BY <1>5, DeviceFacts
<1>7. HoldsLast(imu_data[i], g, stored[g].imu) /\ stored[g].imu \in Nat
  <2>1. map_index[g] # NoIndex
    BY <1>5, DeviceFacts
  <2> QED
    BY <1>1, <1>5, <2>1 DEF QueuesOwned, PublishersTypeOK
<1>8. /\ d \in Data /\ d = Datum(g, stored[g].imu - Len(imu_data[i]) + 1)
      /\ Tail(imu_data[i]) \in Seq(Data) /\ HoldsLast(Tail(imu_data[i]), g, stored[g].imu)
      /\ stored[g].imu - Len(imu_data[i]) \in Nat
      /\ stored[g].imu - Len(Tail(imu_data[i])) = stored[g].imu - Len(imu_data[i]) + 1
  BY <1>2, <1>4, <1>7, TailHoldsLast
<1>9. h = g /\ d.no = stored[g].imu - Len(imu_data[i]) + 1
  BY <1>8 DEF Datum
<1> HIDE DEF d
<1>10. out' \in Seq(Message) /\ crashed' \in BOOLEAN /\ OutNamed'
  BY <1>1, <1>2, <1>3, <1>5, <1>8, <1>9, SendsNamed DEF d
<1>11. /\ imu_data' \in [Index -> Seq(Data)]
       /\ imu_data'[i] = Tail(imu_data[i])
       /\ \A j \in Index : j # i => imu_data'[j] = imu_data[j]
  BY <1>1, <1>2, <1>8 DEF PublishersTypeOK
<1>12. PublishersTypeOK'
  BY <1>1, <1>2, <1>10, <1>11 DEF PublishersTypeOK
<1>13. HandlesNamed'
  BY <1>1, <1>2 DEF HandlesNamed
<1>14. QueuesOwned'
  <2>1. ASSUME NEW f \in Handle, map_index[f] # NoIndex
        PROVE  /\ HoldsLast(data[map_index[f]], f, stored[f].frames)
               /\ HoldsLast(imu_data'[map_index[f]], f, stored[f].imu)
    <3>1. map_index[f] \in Index
      BY <2>1, DeviceFacts
    <3> QED
      BY <1>1, <1>5, <1>6, <1>8, <1>11, <2>1, <3>1 DEF QueuesOwned
  <2>2. ASSUME NEW j \in Index, \A f \in Handle : map_index[f] # j
        PROVE  data[j] = <<>> /\ imu_data'[j] = <<>>
    BY <1>1, <1>5, <1>11, <2>2 DEF QueuesOwned
  <2> QED
    BY <1>1, <1>2, <2>1, <2>2 DEF QueuesOwned
<1>15. OutOrdered'
  <2> SUFFICES ASSUME output_to_ros, ~crashed', NEW f \in Handle, map_index[f] # NoIndex
               PROVE  /\ \A kind \in {"PointCloud2", "CustomMsg"} :
                            IF kind \in Kinds
                               THEN PublishesFirst(out', f, kind,
                                        stored[f].frames - Len(data[map_index[f]]))
                               ELSE Of(out', f, kind) = {}
                      /\ PublishesFirst(out', f, "Imu",
                             stored[f].imu - Len(imu_data'[map_index[f]]))
    BY <1>2 DEF OutOrdered, Kinds
  <2>1. /\ \A kind \in {"PointCloud2", "CustomMsg"} :
              IF kind \in Kinds
                 THEN PublishesFirst(out, f, kind, stored[f].frames - Len(data[map_index[f]]))
                 ELSE Of(out, f, kind) = {}
        /\ PublishesFirst(out, f, "Imu", stored[f].imu - Len(imu_data[map_index[f]]))
    BY <1>1 DEF OutOrdered
  <2>2. /\ \A e \in Handle, kind \in {"PointCloud2", "CustomMsg", "Imu"} :
              e # h \/ kind \notin {"Imu"} =>
                 /\ Of(out', e, kind) = Of(out, e, kind)
                 /\ \A m \in Nat :
                       PublishesFirst(out, e, kind, m) => PublishesFirst(out', e, kind, m)
        /\ \A kind \in {"Imu"}, m \in Nat :
              d.no = m + 1 /\ PublishesFirst(out, h, kind, m)
                 => PublishesFirst(out', h, kind, m + 1)
    BY <1>1, <1>8, SendsOrdered DEF d
  <2>3. /\ map_index[f] \in Index
        /\ stored[f].frames - Len(data[map_index[f]]) \in Nat
        /\ stored[f].imu - Len(imu_data[map_index[f]]) \in Nat
    <3>1. map_index[f] \in Index
      BY DeviceFacts
    <3>2. /\ stored[f].frames \in Nat /\ stored[f].imu \in Nat
          /\ Len(data[map_index[f]]) \in Nat /\ Len(imu_data[map_index[f]]) \in Nat
      BY <1>1, <3>1, QueueFacts DEF PublishersTypeOK
    <3>3. /\ Len(data[map_index[f]]) <= stored[f].frames
          /\ Len(imu_data[map_index[f]]) <= stored[f].imu
      BY <1>1 DEF QueuesOwned, HoldsLast
    <3> QED
      BY <3>1, <3>2, <3>3
  <2>4. ASSUME NEW kind \in {"PointCloud2", "CustomMsg"}
        PROVE  IF kind \in Kinds
                  THEN PublishesFirst(out', f, kind, stored[f].frames - Len(data[map_index[f]]))
                  ELSE Of(out', f, kind) = {}
    BY <2>1, <2>2, <2>3
  <2>5. CASE f = g
    <3>1. map_index[f] = i /\ stored[f].imu - Len(imu_data'[i])
                                  = stored[f].imu - Len(imu_data[i]) + 1
      BY <1>5, <1>8, <1>11, <2>5
    <3>2. PublishesFirst(out', f, "Imu", stored[f].imu - Len(imu_data'[i]))
      BY <1>9, <2>1, <2>2, <2>3, <2>5, <3>1
    <3> QED
      BY <2>4, <3>1, <3>2
  <2>6. CASE f # g
    <3>1. imu_data'[map_index[f]] = imu_data[map_index[f]]
      BY <1>6, <1>11, <2>3, <2>6
    <3> QED
      BY <1>9, <2>1, <2>2, <2>3, <2>4, <2>6, <3>1
  <2> QED
    BY <2>5, <2>6
<1> QED
  BY <1>10, <1>12, <1>13, <1>14, <1>15 DEF DeliveryIInv

\* A frame or IMU datum is stored in the device of its lidar.
LEMMA StoringDelivers ==
    ASSUME CacheIInv, DeliveryIInv, Storing
    PROVE  DeliveryIInv'
<1>1. /\ CacheTypeOK /\ PublishersTypeOK /\ HandlesNamed /\ QueuesOwned /\ TopicsNamed
      /\ OutNamed /\ OutOrdered
  BY DEF CacheIInv, DeliveryIInv
<1>2. /\ UNCHANGED <<map_index, lidar_type, handle, listening>>
      /\ UNCHANGED <<transfer_format, use_multi_topic, output_to_ros>>
      /\ UNCHANGED <<sampling, pubs, out, crashed, polling, request_exit>>
  BY DEF Storing, StoragePointData, StorageImuData, Use, regVars, deviceVars, paramVars, pubVars
<1>3. PICK t \in Looker :
          /\ look_at[t] = "got"
          /\ \/ /\ stored' = [stored EXCEPT ![look_key[t]].frames = @ + 1]
                /\ data' = [data EXCEPT ![look_index[t]] =
                       Append(@, Datum(look_key[t], stored[look_key[t]].frames + 1))]
                /\ UNCHANGED imu_data
             \/ /\ stored' = [stored EXCEPT ![look_key[t]].imu = @ + 1]
                /\ imu_data' = [imu_data EXCEPT ![look_index[t]] =
                       Append(@, Datum(look_key[t], stored[look_key[t]].imu + 1))]
                /\ UNCHANGED data
  <2>1. "processing" \in Looker /\ "sdk" \in Looker
    BY PublishersAssumption
  <2>2. CASE StoragePointData
    BY <2>1, <2>2 DEF StoragePointData, Use
  <2>3. CASE StorageImuData
    BY <2>1, <2>3 DEF StorageImuData, Use
  <2> QED
    BY <2>2, <2>3 DEF Storing
<1> DEFINE g == look_key[t]
           i == look_index[t]
<1>4. g \in Handle /\ map_index[g] = i /\ i # NoIndex
  BY <1>3 DEF CacheIInv, InLookup
<1> HIDE DEF g, i
<1>5. i \in Index /\ \A f \in Handle : f # g => map_index[f] # i
  BY <1>4, DeviceFacts
<1>6. /\ \A f \in Handle : stored[f].frames \in Nat /\ stored[f].imu \in Nat
      /\ data[i] \in Seq(Data) /\ Len(data[i]) \in Nat
      /\ imu_data[i] \in Seq(Data) /\ Len(imu_data[i]) \in Nat
      /\ stored \in [Handle -> [frames : Nat, imu : Nat]]
      /\ data \in [Index -> Seq(Data)] /\ imu_data \in [Index -> Seq(Data)]
  BY <1>1, <1>5, QueueFacts DEF PublishersTypeOK
<1>7. HoldsLast(data[i], g, stored[g].frames) /\ HoldsLast(imu_data[i], g, stored[g].imu)
  BY <1>1, <1>4 DEF QueuesOwned
<1>8. ASSUME stored' \in [Handle -> [frames : Nat, imu : Nat]],
             data' \in [Index -> Seq(Data)], imu_data' \in [Index -> Seq(Data)],
             \A f \in Handle : f # g => stored'[f] = stored[f],
             \A j \in Index : j # i => data'[j] = data[j] /\ imu_data'[j] = imu_data[j],
             HoldsLast(data'[i], g, stored'[g].frames),
             HoldsLast(imu_data'[i], g, stored'[g].imu),
             stored'[g].frames - Len(data'[i]) = stored[g].frames - Len(data[i]),
             stored'[g].imu - Len(imu_data'[i]) = stored[g].imu - Len(imu_data[i])
      PROVE  DeliveryIInv'
  <2>1. PublishersTypeOK'
    BY <1>1, <1>2, <1>8 DEF PublishersTypeOK
  <2>2. HandlesNamed' /\ TopicsNamed' /\ OutNamed'
    BY <1>1, <1>2 DEF HandlesNamed, TopicsNamed, OutNamed
  <2>3. \A f \in Handle : map_index[f] # NoIndex /\ f # g =>
            /\ stored'[f] = stored[f]
            /\ data'[map_index[f]] = data[map_index[f]]
            /\ imu_data'[map_index[f]] = imu_data[map_index[f]]
    BY <1>5, <1>8, DeviceFacts
  <2>4. QueuesOwned'
    <3>1. ASSUME NEW f \in Handle
          PROVE  IF map_index[f] = NoIndex
                    THEN stored'[f].frames = 0 /\ stored'[f].imu = 0
                    ELSE /\ HoldsLast(data'[map_index[f]], f, stored'[f].frames)
                         /\ HoldsLast(imu_data'[map_index[f]], f, stored'[f].imu)
      <4>1. CASE f = g
        BY <1>4, <1>8, <4>1
      <4>2. CASE f # g
        BY <1>1, <1>8, <2>3, <4>2 DEF QueuesOwned
      <4> QED
        BY <4>1, <4>2
    <3>2. ASSUME NEW j \in Index, \A f \in Handle : map_index[f] # j
          PROVE  data'[j] = <<>> /\ imu_data'[j] = <<>>
      BY <1>1, <1>4, <1>8, <3>2 DEF QueuesOwned
    <3> QED
      BY <1>2, <3>1, <3>2 DEF QueuesOwned
  <2>5. \A f \in Handle : map_index[f] # NoIndex =>
            /\ stored'[f].frames - Len(data'[map_index[f]])
                  = stored[f].frames - Len(data[map_index[f]])
            /\ stored'[f].imu - Len(imu_data'[map_index[f]])
                  = stored[f].imu - Len(imu_data[map_index[f]])
    BY <1>4, <1>8, <2>3
  <2>6. OutOrdered'
    BY <1>1, <1>2, <2>5 DEF OutOrdered, Kinds
  <2> QED
    BY <2>1, <2>2, <2>4, <2>6 DEF DeliveryIInv
<1>9. CASE /\ stored' = [stored EXCEPT ![g].frames = @ + 1]
           /\ data' = [data EXCEPT ![i] = Append(@, Datum(g, stored[g].frames + 1))]
           /\ UNCHANGED imu_data
  <2> DEFINE n == stored[g].frames
             q == Append(data[i], Datum(g, n + 1))
  <2>1. Datum(g, n + 1) \in Data
    BY <1>4, <1>6 DEF Datum, Data
  <2>2. /\ q \in Seq(Data) /\ Len(q) = Len(data[i]) + 1
        /\ HoldsLast(q, g, n + 1)
    BY <1>4, <1>6, <1>7, <2>1, AppendHoldsLast, AppendProperties
  <2> HIDE DEF q
  <2>3. /\ data' \in [Index -> Seq(Data)] /\ data'[i] = q
        /\ \A j \in Index : j # i => data'[j] = data[j]
    BY <1>5, <1>6, <1>9, <2>2 DEF q
  <2>4. /\ stored' \in [Handle -> [frames : Nat, imu : Nat]]
        /\ stored'[g].frames = n + 1 /\ stored'[g].imu = stored[g].imu
        /\ \A f \in Handle : f # g => stored'[f] = stored[f]
    <3> DEFINE r == [stored[g] EXCEPT !.frames = n + 1]
    <3>1. stored' = [stored EXCEPT ![g] = r]
      BY <1>9
    <3>2. /\ r \in [frames : Nat, imu : Nat]
          /\ r.frames = n + 1 /\ r.imu = stored[g].imu
      BY <1>4, <1>6
    <3> HIDE DEF r
    <3> QED
      BY <1>4, <1>6, <3>1, <3>2
  <2>5. stored'[g].frames - Len(data'[i]) = n - Len(data[i])
    BY <1>4, <1>6, <2>2, <2>3, <2>4
  <2> QED
    BY <1>6, <1>7, <1>8, <1>9, <2>2, <2>3, <2>4, <2>5
<1>10. CASE /\ stored' = [stored EXCEPT ![g].imu = @ + 1]
            /\ imu_data' = [imu_data EXCEPT ![i] = Append(@, Datum(g, stored[g].imu + 1))]
            /\ UNCHANGED data
  <2> DEFINE n == stored[g].imu
             q == Append(imu_data[i], Datum(g, n + 1))
  <2>1. Datum(g, n + 1) \in Data
    BY <1>4, <1>6 DEF Datum, Data
  <2>2. /\ q \in Seq(Data) /\ Len(q) = Len(imu_data[i]) + 1
        /\ HoldsLast(q, g, n + 1)
    BY <1>4, <1>6, <1>7, <2>1, AppendHoldsLast, AppendProperties
  <2> HIDE DEF q
  <2>3. /\ imu_data' \in [Index -> Seq(Data)] /\ imu_data'[i] = q
        /\ \A j \in Index : j # i => imu_data'[j] = imu_data[j]
    BY <1>5, <1>6, <1>10, <2>2 DEF q
  <2>4. /\ stored' \in [Handle -> [frames : Nat, imu : Nat]]
        /\ stored'[g].imu = n + 1 /\ stored'[g].frames = stored[g].frames
        /\ \A f \in Handle : f # g => stored'[f] = stored[f]
    <3> DEFINE r == [stored[g] EXCEPT !.imu = n + 1]
    <3>1. stored' = [stored EXCEPT ![g] = r]
      BY <1>10
    <3>2. /\ r \in [frames : Nat, imu : Nat]
          /\ r.imu = n + 1 /\ r.frames = stored[g].frames
      BY <1>4, <1>6
    <3> HIDE DEF r
    <3> QED
      BY <1>4, <1>6, <3>1, <3>2
  <2>5. stored'[g].imu - Len(imu_data'[i]) = n - Len(imu_data[i])
    BY <1>4, <1>6, <2>2, <2>3, <2>4
  <2> QED
    BY <1>6, <1>7, <1>8, <1>10, <2>2, <2>3, <2>4, <2>5
<1> QED
  BY <1>3, <1>9, <1>10 DEF g, i

\* A step of CacheIndex: a lidar that is given a device gets one that holds
\* nothing, and has published nothing; a device with a type keeps its name.
LEMMA DevicesDeliver ==
    ASSUME CacheIInv, CacheIInv', DeliveryIInv, [CacheNext]_cacheVars,
           UNCHANGED <<paramVars, queueVars, pubVars, polling, request_exit>>
    PROVE  DeliveryIInv'
<1>1. /\ CacheTypeOK /\ PublishersTypeOK /\ HandlesNamed /\ QueuesOwned /\ TopicsNamed
      /\ OutNamed /\ OutOrdered
  BY DEF CacheIInv, DeliveryIInv
<1>2. /\ UNCHANGED <<transfer_format, use_multi_topic, output_to_ros>>
      /\ UNCHANGED <<sampling, data, imu_data, stored>>
      /\ UNCHANGED <<pubs, out, crashed, polling, request_exit>>
  BY DEF paramVars, queueVars, pubVars
<1>3. /\ HandlesNamed' /\ lidar_type \subseteq lidar_type'
      /\ \A i \in lidar_type : handle'[i] = handle[i]
  BY <1>1, HandlesStep
<1>4. \A h \in Handle : map_index[h] # NoIndex => map_index'[h] = map_index[h]
  BY DeviceKept
<1>5. /\ NoIndex \notin Index /\ lidar_type \subseteq Index
      /\ \A h \in Handle : map_index[h] # NoIndex => map_index[h] \in Index
      /\ \A h \in Handle : map_index'[h] # NoIndex => map_index'[h] \in Index
      /\ \A g, h \in Handle : map_index'[g] = map_index'[h] /\ map_index'[h] # NoIndex => g = h
  BY CacheAssumption DEF CacheIInv, CacheTypeOK, IndexUnique, Index, NoIndex
<1>6. ASSUME NEW h \in Handle, map_index[h] = NoIndex
      PROVE  /\ stored[h].frames = 0 /\ stored[h].imu = 0
             /\ map_index'[h] # NoIndex =>
                   data[map_index'[h]] = <<>> /\ imu_data[map_index'[h]] = <<>>
             /\ \A kind : Of(out, h, kind) = {}
  <2>1. stored[h].frames = 0 /\ stored[h].imu = 0
    BY <1>1, <1>6 DEF QueuesOwned
  <2>2. ASSUME map_index'[h] # NoIndex
        PROVE  data[map_index'[h]] = <<>> /\ imu_data[map_index'[h]] = <<>>
    <3>1. \A g \in Handle : map_index[g] # map_index'[h]
      BY <1>4, <1>5, <1>6, <2>2
    <3> QED
      BY <1>1, <1>5, <2>2, <3>1 DEF QueuesOwned
  <2>3. ASSUME NEW kind
        PROVE  Of(out, h, kind) = {}
    BY <1>1, <1>5, <1>6 DEF Of, OutNamed
  <2> QED
    BY <2>1, <2>2, <2>3
<1>7. PublishersTypeOK'
  BY <1>1, <1>2, <1>3 DEF PublishersTypeOK
<1>8. QueuesOwned'
  <2>1. ASSUME NEW h \in Handle
        PROVE  IF map_index'[h] = NoIndex
                  THEN stored[h].frames = 0 /\ stored[h].imu = 0
                  ELSE /\ HoldsLast(data[map_index'[h]], h, stored[h].frames)
                       /\ HoldsLast(imu_data[map_index'[h]], h, stored[h].imu)
    <3>1. CASE map_index[h] = NoIndex
      <4>1. HoldsLast(<<>>, h, 0)
        BY DEF HoldsLast
      <4> QED
        BY <1>6, <3>1, <4>1
    <3>2. CASE map_index[h] # NoIndex
      BY <1>1, <1>4, <3>2 DEF QueuesOwned
    <3> QED
      BY <3>1, <3>2
  <2>2. ASSUME NEW j \in Index, \A h \in Handle : map_index'[h] # j
        PROVE  data[j] = <<>> /\ imu_data[j] = <<>>
    <3>1. \A h \in Handle : map_index[h] # j
      BY <1>4, <1>5, <2>2
    <3> QED
      BY <1>1, <3>1 DEF QueuesOwned
  <2> QED
    BY <1>2, <2>1, <2>2 DEF QueuesOwned
<1>9. TopicsNamed'
  BY <1>1, <1>2, <1>3 DEF TopicsNamed
<1>10. OutNamed'
  <2>1. ASSUME NEW n \in 1 .. Len(out)
        PROVE  /\ map_index'[out[n].msg.datum.lidar] = map_index[out[n].msg.datum.lidar]
               /\ map_index[out[n].msg.datum.lidar] \in lidar_type
    <3>1. out[n] \in Message
      BY <1>1, ElementOfSeq DEF PublishersTypeOK
    <3>2. out[n].msg.datum.lidar \in Handle
      BY <3>1 DEF Message, Body, Data
    <3>3. map_index[out[n].msg.datum.lidar] \in lidar_type
      BY <1>1 DEF OutNamed
    <3> QED
      BY <1>4, <1>5, <3>2, <3>3
  <2> QED
    BY <1>1, <1>2, <1>3, <2>1 DEF OutNamed
<1>11. OutOrdered'
  <2> SUFFICES ASSUME output_to_ros, ~crashed, NEW h \in Handle, map_index'[h] # NoIndex
               PROVE  /\ \A kind \in {"PointCloud2", "CustomMsg"} :
                            IF kind \in Kinds
                               THEN PublishesFirst(out, h, kind,
                                        stored[h].frames - Len(data[map_index'[h]]))
                               ELSE Of(out, h, kind) = {}
                      /\ PublishesFirst(out, h, "Imu",
                             stored[h].imu - Len(imu_data[map_index'[h]]))
    BY <1>2 DEF OutOrdered, Kinds
  <2>1. CASE map_index[h] # NoIndex
    BY <1>1, <1>4, <2>1 DEF OutOrdered
  <2>2. CASE map_index[h] = NoIndex
    <3>1. /\ stored[h].frames - Len(data[map_index'[h]]) = 0
          /\ stored[h].imu - Len(imu_data[map_index'[h]]) = 0
      BY <1>6, <2>2
    <3> QED
      BY <1>6, <2>2, <3>1, NoneFirst
  <2> QED
    BY <2>1, <2>2
<1> QED
  BY <1>3, <1>7, <1>8, <1>9, <1>10, <1>11 DEF DeliveryIInv

\* Steps that publish and store nothing.
LEMMA OthersDeliver ==
    ASSUME DeliveryIInv,
           UNCHANGED <<cacheVars, paramVars, pubVars, data, imu_data, stored>>,
           sampling' \subseteq lidar_type, polling' \in sampling' \cup {Nobody},
           request_exit' \in BOOLEAN
    PROVE  DeliveryIInv'
<1>1. /\ PublishersTypeOK /\ HandlesNamed /\ QueuesOwned /\ TopicsNamed /\ OutNamed /\ OutOrdered
  BY DEF DeliveryIInv
<1>2. /\ UNCHANGED <<map_index, lidar_type, handle, listening>>
      /\ UNCHANGED <<transfer_format, use_multi_topic, output_to_ros, pubs, out, crashed>>
  BY DEF cacheVars, paramVars, pubVars
<1>3. PublishersTypeOK'
  BY <1>1, <1>2 DEF PublishersTypeOK
<1>4. HandlesNamed' /\ QueuesOwned' /\ TopicsNamed'
  BY <1>1, <1>2 DEF HandlesNamed, QueuesOwned, TopicsNamed
<1>5. OutNamed' /\ OutOrdered'
  BY <1>1, <1>2 DEF OutNamed, OutOrdered, Kinds
<1> QED
  BY <1>3, <1>4, <1>5 DEF DeliveryIInv

\* The messages of a datum of a device with a type have the device's name.
LEMMA MessageFacts ==
    ASSUME CacheTypeOK, NEW i \in lidar_type, NEW d \in Data
    PROVE  /\ InitPointcloud2Msg(d) \in Body /\ InitPointcloud2Msg(d).kind = "PointCloud2"
           /\ InitCustomMsg(d, i) \in Body /\ InitCustomMsg(d, i).kind = "CustomMsg"
           /\ InitImuMsg(d) \in Body /\ InitImuMsg(d).kind = "Imu"
           /\ InitPointcloud2Msg(d).datum = d /\ InitCustomMsg(d, i).datum = d
           /\ InitImuMsg(d).datum = d
           /\ InitCustomMsg(d, i).lidar_id = LowByte(handle[i])
<1>1. handle[i] \in Handle \cup {NoHandle}
  BY DEF CacheTypeOK
<1>2. handle[i] \in Nat
  <2>1. Handle \subseteq Nat \ {0} /\ NoHandle = 0
    BY PublishersAssumption, Zenon
  <2>2. CASE handle[i] \in Handle
    BY <2>1, <2>2
  <2>3. CASE handle[i] = NoHandle
    BY <2>1, <2>3
  <2> QED
    BY <1>1, <2>2, <2>3
<1>3. LowByte(handle[i]) \in 0 .. 255
  BY <1>2, SMT DEF LowByte
<1> QED
  BY <1>3 DEF InitPointcloud2Msg, InitCustomMsg, InitImuMsg, Body

\* The kinds of the formats that are published.
LEMMA FormatKinds ==
    /\ transfer_format = kPointCloud2Msg => Kinds = {"PointCloud2"}
    /\ transfer_format = kLivoxCustomMsg => Kinds = {"CustomMsg"}
    /\ transfer_format = kAllMsg => Kinds = {"PointCloud2", "CustomMsg"}
<1>1. kPointCloud2Msg = 0 /\ kLivoxCustomMsg = 1 /\ kAllMsg = 4
  BY DEF kPointCloud2Msg, kLivoxCustomMsg, kAllMsg
<1>2. CASE transfer_format = kPointCloud2Msg
  BY <1>1, <1>2 DEF Kinds
<1>3. CASE transfer_format = kLivoxCustomMsg
  BY <1>1, <1>3 DEF Kinds
<1>4. CASE transfer_format = kAllMsg
  BY <1>1, <1>4 DEF Kinds
<1> QED
  BY <1>2, <1>3, <1>4

\* The point cloud poll thread publishes a frame.
LEMMA PublishingDelivers ==
    ASSUME CacheIInv, DeliveryIInv, ~crashed, NEW i \in Index, Publishing(i),
           UNCHANGED <<cacheVars, paramVars, request_exit>>
    PROVE  DeliveryIInv'
<1>1. CacheTypeOK /\ PublishersTypeOK /\ TopicsNamed
  BY DEF CacheIInv, DeliveryIInv
<1>2. polling = i /\ data[i] # <<>>
  BY DEF Publishing, PublishPointcloud2, PublishCustomPointcloud, PublishPointcloud2AndCustomMsg,
         PublishPclMsg, Pop
<1>3. i \in lidar_type
  BY <1>1, <1>2, CacheAssumption DEF PublishersTypeOK, Nobody, Index
<1>4. Head(data[i]) \in Data
  BY <1>1, <1>2, QueueFacts
<1> DEFINE d == Head(data[i])
           cloud == InitPointcloud2Msg(d)
           custom == InitCustomMsg(d, i)
<1>5. /\ cloud \in Body /\ cloud.kind = "PointCloud2" /\ cloud.datum = d
      /\ custom \in Body /\ custom.kind = "CustomMsg" /\ custom.datum = d
      /\ custom.lidar_id = LowByte(handle[i])
  BY <1>1, <1>3, <1>4, MessageFacts
<1> HIDE DEF cloud, custom
<1>6. UNCHANGED <<use_multi_topic, deviceVars>>
  BY DEF cacheVars, deviceVars, paramVars
<1>7. ASSUME pubs' = WithPublisher(pubs, i)
      PROVE  /\ pubs' \in [private : [Index -> PubSet], global : PubSet, global_2 : PubSet,
                           private_imu : [Index -> PubSet], global_imu : PubSet]
             /\ TopicsNamed'
             /\ \A p \in {CurrentPublisher(pubs', i), CurrentPublisher2(pubs', i)} :
                   p \in PubSet /\ (use_multi_topic /\ p # Null => p.topic.of = handle[i])
  BY <1>1, <1>3, <1>6, <1>7, PublisherNamed
<1>8. CASE PublishPointcloud2(i)
  <2>1. /\ Pop(i) /\ pubs' = WithPublisher(pubs, i)
        /\ PublishAll(<<CurrentPublisher(pubs', i)>>, <<cloud>>)
        /\ Kinds = {"PointCloud2"}
    BY <1>8, FormatKinds DEF PublishPointcloud2, cloud
  <2>2. Sends(i, d, Kinds)
    BY <1>5, <1>7, <2>1, OneSent
  <2> QED
    BY <1>7, <2>1, <2>2, PointsDelivered
<1>9. CASE PublishCustomPointcloud(i)
  <2>1. /\ Pop(i) /\ pubs' = WithPublisher(pubs, i)
        /\ PublishAll(<<CurrentPublisher(pubs', i)>>, <<custom>>)
        /\ Kinds = {"CustomMsg"}
    BY <1>9, FormatKinds DEF PublishCustomPointcloud, custom
  <2>2. Sends(i, d, Kinds)
    BY <1>5, <1>7, <2>1, OneSent
  <2> QED
    BY <1>7, <2>1, <2>2, PointsDelivered
<1>10. CASE PublishPointcloud2AndCustomMsg(i)
  <2>1. /\ Pop(i) /\ pubs' = WithPublisher(pubs, i)
        /\ PublishAll(<<CurrentPublisher2(pubs', i), CurrentPublisher(pubs', i)>>,
                      <<cloud, custom>>)
        /\ Kinds = {"PointCloud2", "CustomMsg"}
    BY <1>10, FormatKinds DEF PublishPointcloud2AndCustomMsg, cloud, custom
  <2> DEFINE p == CurrentPublisher2(pubs', i)
             q == CurrentPublisher(pubs', i)
  <2>2. /\ p \in PubSet /\ (use_multi_topic /\ p # Null => p.topic.of = handle[i])
        /\ q \in PubSet /\ (use_multi_topic /\ q # Null => q.topic.of = handle[i])
    BY <1>7, <2>1
  <2>3. PublishAll(<<p, q>>, <<cloud, custom>>)
    BY <2>1
  <2> HIDE DEF p, q
  <2>4. Sends(i, d, {cloud.kind, custom.kind})
    BY <1>5, <2>2, <2>3, TwoSent
  <2>5. Sends(i, d, Kinds)
    BY <1>5, <2>1, <2>4
  <2> QED
    BY <1>7, <2>1, <2>5, PointsDelivered
<1>11. CASE PublishPclMsg(i)
  <2>1. /\ UNCHANGED <<pubVars, data, imu_data, stored>>
        /\ sampling' = sampling /\ polling' = polling /\ request_exit' = request_exit
    BY <1>11 DEF PublishPclMsg, queueVars
  <2> QED
    BY <1>1, <2>1, OthersDeliver DEF PublishersTypeOK
<1> QED
  BY <1>8, <1>9, <1>10, <1>11 DEF Publishing

\* The point cloud poll thread.
LEMMA PollingDelivers ==
    ASSUME CacheIInv, DeliveryIInv, PollingPoints
    PROVE  DeliveryIInv'
<1>1. PublishersTypeOK
  BY DEF DeliveryIInv
<1>2. ~crashed /\ UNCHANGED <<cacheVars, paramVars, request_exit>>
  BY DEF PollingPoints
<1>3. ASSUME NEW i \in Index, Poll(i) \/ PollDone(i)
      PROVE  DeliveryIInv'
  <2>1. /\ UNCHANGED <<pubVars, data, imu_data, stored, sampling>>
        /\ polling' \in sampling \cup {Nobody}
    BY <1>3 DEF Poll, PollDone, queueVars
  <2> QED
    BY <1>1, <1>2, <2>1, OthersDeliver DEF PublishersTypeOK
<1> QED
  BY <1>2, <1>3, PublishingDelivers DEF PollingPoints

\* The IMU poll thread.
LEMMA PollingImuDelivers ==
    ASSUME CacheIInv, DeliveryIInv, PollingImu
    PROVE  DeliveryIInv'
<1>1. CacheTypeOK /\ PublishersTypeOK /\ TopicsNamed
  BY DEF CacheIInv, DeliveryIInv
<1>2. ~crashed /\ UNCHANGED <<cacheVars, paramVars, request_exit>>
  BY DEF PollingImu
<1>3. PICK i \in Index : PublishImuData(i)
  BY DEF PollingImu
<1> DEFINE d == Head(imu_data[i])
           msg == InitImuMsg(d)
<1>4. /\ i \in sampling /\ imu_data[i] # <<>>
      /\ imu_data' = [imu_data EXCEPT ![i] = Tail(imu_data[i])]
      /\ pubs' = WithImuPublisher(pubs, i)
      /\ PublishAll(<<CurrentImuPublisher(pubs', i)>>, <<msg>>)
      /\ UNCHANGED <<sampling, data, stored, polling>>
  BY <1>3 DEF PublishImuData
<1>5. i \in lidar_type /\ d \in Data
  BY <1>1, <1>4, QueueFacts DEF PublishersTypeOK
<1>6. msg \in Body /\ msg.kind = "Imu" /\ msg.datum = d
  BY <1>1, <1>5, MessageFacts
<1> HIDE DEF msg
<1>7. /\ pubs' \in [private : [Index -> PubSet], global : PubSet, global_2 : PubSet,
                    private_imu : [Index -> PubSet], global_imu : PubSet]
      /\ TopicsNamed'
      /\ CurrentImuPublisher(pubs', i) \in PubSet
      /\ use_multi_topic /\ CurrentImuPublisher(pubs', i) # Null =>
             CurrentImuPublisher(pubs', i).topic.of = handle[i]
  <2>1. UNCHANGED <<use_multi_topic, deviceVars>>
    BY <1>2 DEF cacheVars, deviceVars, paramVars
  <2> QED
    BY <1>1, <1>4, <1>5, <2>1, ImuPublisherNamed
<1>8. Sends(i, d, {"Imu"})
  BY <1>4, <1>6, <1>7, OneSent
<1> QED
  BY <1>2, <1>4, <1>7, <1>8, ImuDelivered

\* The exit request and the callbacks that make a device Sampling.
LEMMA EnvironmentDelivers ==
    ASSUME DeliveryIInv, Environment
    PROVE  DeliveryIInv'
<1>1. /\ UNCHANGED <<cacheVars, paramVars, pubVars, data, imu_data, stored, polling>>
      /\ sampling' = sampling \/ \E i \in lidar_type : sampling' = sampling \cup {i}
      /\ request_exit' \in {request_exit, TRUE}
  BY DEF Environment, RequestExit, BecomeSampling, queueVars
<1>2. PublishersTypeOK
  BY DEF DeliveryIInv
<1>3. sampling' \subseteq lidar_type /\ polling' \in sampling' \cup {Nobody}
  BY <1>1, <1>2 DEF PublishersTypeOK
<1> QED
  BY <1>1, <1>2, <1>3, OthersDeliver DEF PublishersTypeOK

-----------------------------------------------------------------------------
(* The theorems                                                              *)

\* Before anything is stored.
LEMMA InitDelivery == Init => DeliveryIInv
<1> SUFFICES ASSUME Init
             PROVE  DeliveryIInv
  OBVIOUS
<1>1. /\ \A h \in Handle : map_index[h] = NoIndex
      /\ \A i \in Index : handle[i] = NoHandle
      /\ lidar_type = {} /\ sampling = {}
  BY DEF Init, CacheInit
<1>2. /\ \A h \in Handle : stored[h].frames = 0 /\ stored[h].imu = 0
      /\ \A i \in Index : data[i] = <<>> /\ imu_data[i] = <<>>
      /\ \A i \in Index : pubs.private[i] = Null /\ pubs.private_imu[i] = Null
      /\ out = <<>>
  BY DEF Init
<1>3. PublishersTypeOK
  <2>1. [format |-> transfer_format, multi |-> use_multi_topic, ros |-> output_to_ros]
            \in Settings
    <3>1. PICK s \in Settings : /\ transfer_format = s.format
                                /\ use_multi_topic = s.multi
                                /\ output_to_ros = s.ros
      BY DEF Init
    <3>2. s = [format |-> s.format, multi |-> s.multi, ros |-> s.ros]
      BY PublishersAssumption
    <3> QED
      BY <3>1, <3>2
  <2>2. pubs \in [private : [Index -> PubSet], global : PubSet, global_2 : PubSet,
                  private_imu : [Index -> PubSet], global_imu : PubSet]
    BY DEF Init, PubSet
  <2>3. /\ data \in [Index -> Seq(Data)] /\ imu_data \in [Index -> Seq(Data)]
        /\ stored \in [Handle -> [frames : Nat, imu : Nat]] /\ out \in Seq(Message)
    BY DEF Init
  <2> QED
    BY <1>1, <2>1, <2>2, <2>3 DEF PublishersTypeOK, Init
<1>4. HandlesNamed /\ QueuesOwned /\ TopicsNamed
  BY <1>1, <1>2 DEF HandlesNamed, QueuesOwned, TopicsNamed
<1>5. OutNamed /\ OutOrdered
  BY <1>1, <1>2 DEF OutNamed, OutOrdered
<1> QED
  BY <1>3, <1>4, <1>5 DEF DeliveryIInv

\* Every step keeps the invariant.
LEMMA DeliveryStep == CacheIInv /\ CacheIInv' /\ DeliveryIInv /\ [Next]_vars => DeliveryIInv'
<1> SUFFICES ASSUME CacheIInv, CacheIInv', DeliveryIInv, [Next]_vars
             PROVE  DeliveryIInv'
  OBVIOUS
<1>1. [CacheNext]_cacheVars
  BY CacheStep
<1>2. CASE Devices
  BY <1>1, <1>2, DevicesDeliver DEF Devices
<1>3. CASE UNCHANGED vars
  BY <1>1, <1>3, DevicesDeliver DEF vars
<1> QED
  BY <1>2, <1>3, StoringDelivers, PollingDelivers, PollingImuDelivers, EnvironmentDelivers
     DEF Next

\* The invariant holds of the composed system.
LEMMA DeliveryInvariance == Spec => [](CacheIInv /\ DeliveryIInv)
<1>1. CacheIInv /\ CacheIInv' /\ DeliveryIInv /\ [Next]_vars => DeliveryIInv'
  BY DeliveryStep
<1> QED
  BY <1>1, ImplementsCache, CacheInvariance, InitDelivery, PTL DEF Spec

\* Every variable has its type: no message is of a lidar that is none, or on a
\* topic that no publisher can have.
THEOREM PublishersTypes == Spec => []PublishersTypeOK
<1>1. DeliveryIInv => PublishersTypeOK
  BY DEF DeliveryIInv
<1> QED
  BY <1>1, DeliveryInvariance, PTL

\* What a lidar stores is published once in each kind of message, in order, or
\* is held by its own device, which holds nothing else.
THEOREM DeliveryInOrder == Spec => []DeliveredInOrder
<1>1. CacheIInv /\ DeliveryIInv => DeliveredInOrder
  <2> SUFFICES ASSUME DeliveryIInv, output_to_ros, ~crashed, NEW h \in Handle,
                      map_index[h] # NoIndex
               PROVE  /\ HoldsLast(data[map_index[h]], h, stored[h].frames)
                      /\ HoldsLast(imu_data[map_index[h]], h, stored[h].imu)
                      /\ \A kind \in {"PointCloud2", "CustomMsg"} :
                            IF kind \in Kinds
                               THEN PublishesFirst(out, h, kind,
                                        stored[h].frames - Len(data[map_index[h]]))
                               ELSE Of(out, h, kind) = {}
                      /\ PublishesFirst(out, h, "Imu",
                             stored[h].imu - Len(imu_data[map_index[h]]))
    BY DEF DeliveredInOrder
  <2> QED
    BY DEF DeliveryIInv, QueuesOwned, OutOrdered
<1> QED
  BY <1>1, DeliveryInvariance, PTL

\* Every message has the name of its lidar's own device, which is the address of
\* that lidar, or 0 if the configuration file does not list it: the topic has all
\* of it and lidar_id the low byte.
THEOREM NamesRight == Spec => []NamedAfterItsLidar
<1>1. CacheIInv /\ DeliveryIInv => NamedAfterItsLidar
  <2> SUFFICES ASSUME CacheIInv, DeliveryIInv, NEW n \in DOMAIN out
               PROVE  LET h == out[n].msg.datum.lidar
                          own == handle[map_index[h]]
                      IN  /\ own \in {h, NoHandle}
                          /\ use_multi_topic => out[n].topic.of = own
                          /\ out[n].msg.kind = "CustomMsg" => out[n].msg.lidar_id = LowByte(own)
    BY DEF NamedAfterItsLidar
  <2> DEFINE h == out[n].msg.datum.lidar
             i == map_index[h]
  <2>1. PublishersTypeOK /\ HandlesNamed /\ OutNamed
    BY DEF DeliveryIInv
  <2>2. n \in 1 .. Len(out) /\ out[n] \in Message
    BY <2>1, ElementOfSeq, LenProperties DEF PublishersTypeOK
  <2>3. h \in Handle
    BY <2>2 DEF Message, Body, Data
  <2>4. /\ i \in lidar_type
        /\ use_multi_topic => out[n].topic.of = handle[i]
        /\ out[n].msg.kind = "CustomMsg" => out[n].msg.lidar_id = LowByte(handle[i])
    BY <2>1, <2>2 DEF OutNamed
  <2> HIDE DEF h
  <2>5. handle[i] \in {h, NoHandle}
    <3>1. i \in Index /\ i # NoIndex
      BY <2>4, DeviceFacts
    <3>2. CASE handle[i] # NoHandle
      <4>1. handle[i] \in Handle /\ map_index[handle[i]] = i
        BY <2>1, <3>1, <3>2 DEF HandlesNamed
      <4> QED
        BY <2>3, <3>1, <4>1, DeviceFacts
    <3> QED
      BY <3>2
  <2> QED
    BY <2>4, <2>5 DEF h
<1> QED
  BY <1>1, DeliveryInvariance, PTL
=============================================================================
