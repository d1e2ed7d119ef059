# TLA+ models of livox_ros_driver2

This directory holds formal models of the ROS 2 driver for Livox lidars in
`src/src/livox_ros_driver2`, the TLC configurations that check them on small
instances, and proofs that TLAPS checks for every value of the constants.
Paths below are relative to `src/src/livox_ros_driver2/src`.

    tlc -config MCFrameQueue.cfg MCFrameQueue      # one run
    tlapm FrameQueueProofs.tla                     # one module of proofs

`PROJECT.json` lists the components, the runs, where in the code each definition
comes from, the hazards and the theorems. `src/src/fast_lio` is a git submodule
whose content is not part of the repository; everything else in it is vendored
code, launch files and configuration.

## The system

The driver runs on six threads or more. The SDK's threads call back with packets
and with the outcomes of commands. The *processing thread* turns packets into frames. The
*point cloud poll thread* and the *IMU poll thread* take data out of per-lidar
queues and publish it. The main thread builds the node and destroys it.

    Livox SDK --packets--> PubHandler.raw_packet_queue_           (mutex, condition)
                               |  processing thread
                               v
                    LidarPubHandler.points_clouds_  --CheckTimer--> frame_
                               |  LidarCommonCallback
                               v
                    Lds::PushLidarData --> lidars_[i].data         (ring, no lock)
                               |  pcd_semaphore_
                               v  point cloud poll thread
                    Lddc::Publish... --> ROS topics

    Livox SDK --reports, command outcomes--> LivoxLidarCallback
                               |  set_bits, connect_state          (config_mutex_)
                               v
                    lidars_[i].connect_state = Sampling, read by the poll threads

| Component | State | Operations | What makes it correct |
|---|---|---|---|
| frame ring, `comm/ldq.cpp` | `storage_packet`, `mask`, `rd_idx`, `wr_idx` | `InitQueue`, `QueuePushAny`, `QueuePop` | one writer and one reader never meet in a slot; first in, first out; the newest frame is lost only when the ring is full |
| `Lds`, `lds.cpp` | `lidars_`, two semaphores, `request_exit_` | `PushLidarData`, `StorageImuData`, `RequestExit`, `ResetLds` | what is stored wakes a poll thread; an exit request is final |
| `Semaphore` | `count_` | `Signal`, `Wait`, `GetCount` (unlocked) | no lost wake-up, no pile of wake-ups |
| `Lddc`, `lddc.cpp` | publishers | `Distribute...`, `Polling...`, `Publish...`, `GetCurrent...Publisher` | every Sampling lidar is drained; each datum once in the right message, topic and name |
| `DriverNode` | two poll threads, `exit_signal_` | constructor, destructor | destruction ends; nothing is left running |
| `PubHandler`, `comm/pub_handler.cpp` | packet queue, `is_timestamp_sync_`, `points_clouds_`, `points_`, `frame_`, `last_pub_time_`, `extrinsic_global` | packet callback, `RawDataProcess`, `CheckTimer`, set-up, `Uninit` | every point once and in order, each frame with its base time, frames at the publish frequency |
| `LivoxLidarCallback` | `set_bits`, `connect_state` | report callback, seven command callbacks | Sampling only when configured; configured in the end |
| `CacheIndex` | `map_index_`, `index_cache_` | `GetFreeIndex`, `GetIndex` | one device per lidar, the same for good; none lost |
| IMU delivery | `LidarImuDataQueue`, a semaphore | `Push`, `Pop` | as for frames |
| `LdsLidar` | `is_initialized_` | `InitLdsLidar`, `DeInitLdsLidar` | set up once, taken down once |
| configuration parsers, `comm.cpp` | none | parse, queue size | |

The hard behaviours are the interleavings of these threads. The ring has no
lock, the semaphore's count is read without one, the exit request wakes nobody,
the synchronisation flag of the newest packet decides about an older one, and
commands are lost, retried and repeated while their earlier answers are still on
their way. `PROJECT.json` lists them one by one under `hazards`.

## The modules

| Module | Models | Uses |
|---|---|---|
| `LossyFifo` | what a ring promises: a bounded queue that refuses the newest frame | |
| `RingCounts` | what a ring is without its frames: how many, and how far each thread's view is behind | |
| `FrameQueue` | the ring, step by step, with both threads | extends `QueueSize`; implements `LossyFifo` and `RingCounts` |
| `FrameQueueProofs` | theorems about `FrameQueue` | extends it |
| `FrameQueueRefinement` | that `FrameQueue` implements `LossyFifo` and `RingCounts` | extends `FrameQueueProofs` |
| `QueueSize` | how large a ring is for which publish frequency | |
| `PointDelivery` | storing, waking, polling, publishing and the node's end | the ring of each lidar is a `RingCounts` |
| `PointDeliveryProofs` | theorems about `PointDelivery` | extends it |
| `DeviceConfig` | reports, commands and callbacks up to Sampling | |
| `DeviceConfigProofs` | theorems about `DeviceConfig` | extends it |
| `Framing` | packets to frames, both ways of cutting, and the shared rotation | |
| `FramingProofs` | theorems about `Framing` | extends it |
| `CacheIndex` | which device a lidar gets, and looking it up meanwhile | |
| `CacheIndexProofs` | theorems about `CacheIndex` | extends it |
| `Publishers` | storing by device, publishers, messages, topics | extends `CacheIndex`: the two composed |
| `PublishersProofs` | that the composition implements `CacheIndex`; theorems about `Publishers` | extends `Publishers`, `CacheIndexProofs` |
| `ImuDelivery` | IMU queues, their semaphore and poll thread | |
| `Lifecycle` | nodes one after the other, the singletons, all threads' births and ends | extends `ImuDelivery`: the two composed |
| `LifecycleProofs` | theorems about `Lifecycle` | extends it |
| `MC...` | values of the constants for TLC | |

Operators whose comment begins with *Fault:* are not part of a specification.
Each is the definition after it with a plausible slip, and TLC finds a property
violated when it takes the definition's place: `PROJECT.json` lists the pairs
under `mutants`. They show that the properties can tell a wrong program from
this one.

### FrameQueue, LossyFifo and RingCounts

`prod` is where the processing thread is in `PushLidarData` (`idle`, `init`,
`check`, `body`, `commit`), `cons` where the poll thread is in its loop. A slot
holds a frame's number twice: `head` stands for `base_time` and `points_num`,
`body` for the points. Each half is written (`PushHead`, `PushBody`) and copied
(`PopHead`, `PopBody`) in a step of its own, and the indices move in further
steps (`PushCommit`, `PopUpdate`). `Arrive` and `InitQueue` are the two steps of
creating the ring: after the first the consumer sees a pointer, after the second
there is a mask.

*Memory.* The indices are `volatile uint32_t` and nothing else orders the
accesses. The model is that of an x86 processor, for which the shipped SDK
library is built, and of a compiler that emits the stores in program order. A
thread sees its own store at once and the other thread sees it one
`WriteVisible` or `ReadVisible` later, so an index is read arbitrarily late. On a
processor that reorders stores, or with a compiler that moves the copy across
the volatile store, the ring has no such guarantee, and the properties say
nothing about it.

`Fifo` is the refinement mapping: the held frames are read off the ring from
`rd_idx` to `wr_idx`; those of them that the consumer does not see yet,
`wr_idx - wr_seen`, are `unseen`, and the slots that it has emptied and the
producer does not know of yet, `rd_idx - rd_seen`, are `unreleased`.
`ImplementsFifo` says that every behaviour of the ring is one of the queue: in
particular a frame is refused only when no slot is free. `HeldInOrder` is the
queue's own invariant, stated of the ring.

`Counts` maps the ring to `RingCounts`, by the same differences of indices and
the number of frames instead of the frames. `RingCounts` is what the models of
the threads around a ring have to agree with: it allows a store to wait in a
store buffer or to reach memory at once, and one or several of those that wait
to get there in a step.

### PointDelivery

Frames are counted, not stored: `used`, and with store buffers (`delayed`) also
the pushes the poll thread and the pops the processing thread cannot see yet.
`Ring(l)` takes the counts of lidar `l` for a `RingCounts`, which is what they are
proved to be. The mutex in `Semaphore` flushes both. The reads of the count and of
the ring are separate steps from what is done on them (`PushStored`,
`TestDrained`, `TestCount`, `Signal`). The poll thread's nested loops are there
with each of their exits: `Publish` goes on to the last frame without a look at
the exit request. `armed` remembers the lidars that were Sampling when a frame of
theirs was cut. It decides nothing; `NoLostWakeup` needs it, because a frame
stored before its lidar is Sampling wakes the poll thread for nothing.

`NoLostWakeup` holds when stores are visible at once and is checked there. With
store buffers the push and the pop may miss each other, and it does not hold:
the poll thread sleeps, the ring has a frame, and nobody signals. What is true
then is `Drains`: the next frame of any lidar, also one that is refused, wakes
the poll thread. That is what the `else` branch of `PushLidarData` is for.

### DeviceConfig

`sent` and `lost` count the commands of each kind on their way and those that
will time out; the SDK is modelled from how the driver uses it. It calls each
command's callback once, and on a timeout with a null response, which is what
the shipped library does. Reports may be repeated, also while commands of an
earlier report are unanswered. `Locked` is `config_mutex_`: it keeps
`ParamAcked` out, not `Failed` nor `TimedOut`, which take no lock. A lidar
without configuration has the zeroed `livox_config` of the static `LdsLidar`
object, in which no parameter is -1, hence `ConfigParams`. The configuration
lists at most as many lidars as there are devices (`ConfigAssumption`).

### Framing

A packet is one point and a unit of time `1/Ms` milliseconds. The code keeps the
publish interval twice, in nanoseconds for the tolerance and, without the
fraction, in milliseconds for the boundaries: `Tolerance` and `IntervalMs`.
`Receive` is the SDK's thread: it sets the flag for all lidars,
then stamps and queues the packet. `ProcessPacket` and the `CheckTimer...`
actions are the processing thread, and the flag is read in the latter, when it
may belong to another packet. A frame is stored for publishing within
`CheckTimer`, so cutting it is one step. `number`, `seq` and `published` are
history variables that count the points; `epoch` and `cuts` do the same for
host-paced frames. `Tolerance` and `OffsetMod` keep the relation the code has:
2^32 ns is more than two intervals, which are at most 2 s each. An interval is at
least two milliseconds (`FramingAssumption`): in the code 10, since the node does not
accept a publish frequency beyond 100 Hz.

`rotation` is whose rotation `extrinsic_global` holds. `SetLidarsExtParam` sets it
with the first packet of each lidar of the configuration file and never again
for that lidar. The IMU data of all lidars go through it, so it had better stay:
`RotationSettles` says that it does once every listed lidar has sent a packet.

### CacheIndex and Publishers

`GetFreeIndex` searches the map and scans for a free index in two critical
sections; `stage` is where its caller is, and there is one caller at a time: the
main thread until it starts to listen for reports, then the SDK's thread. So nobody
comes between the two.
`GetIndex` searches without the mutex. While an insertion holds it (`Locked`) the
search of `std::map` is a data race; `FindOutcomes` says that it may then miss
any key and may already find the new one, but never one that is not there,
because it compares whole keys. What happens then is the point of
`LookupRight`: `map_index_[key]`, under the mutex, enters 0 for a missing key, so
a lookup must never get there without one.

`Publishers` runs these steps together with what the looked-up index is for.
The processing thread and the SDK's thread store (`StoragePointData`,
`StorageImuData`), the poll threads publish. A datum is the lidar it comes from
and a number, and `out` is everything published, so `DeliveredInOrder` can say of
every lidar that what it stored was published once, in order and in each message
its format stands for, or waits in its own device, which holds nothing else: `Of`
are the places of a lidar's messages in `out`. A handle is a number, the address of
the lidar in network order, because `lidar_id` keeps only eight bits of it
(`LowByte`): `NamedAfterItsLidar` says that topic and `lidar_id` are made from the
handle of the lidar's own device, and `LidarIdTells`, which fails, that the
`lidar_id` tells two lidars apart. The publishers are created as
the code does, when they are first needed, and `dynamic_pointer_cast` is `Cast`.
`crashed` is the use of a null publisher: with format `kAllMsg` and a topic per
lidar `CreatePublisher` has none. Such a behaviour stops there.
A ring is a sequence and publishing a frame a step; the steps of a ring and what
wakes the poll threads are in `FrameQueue`, `PointDelivery` and `ImuDelivery`.

### ImuDelivery and Lifecycle

IMU data take the same way as frames, by other means: an unbounded list with a
mutex instead of a ring, a test `Empty` that is true again when the poll thread
was faster, and a poll loop that looks at the exit request for each datum.
`ImuDelivery` has these steps and no specification of its own; `Lifecycle` adds
when its threads exist.

`main` is where the main thread is: in the constructor (`init`, `sdk_init`,
`observe`, `imu_callback`, `config`, `threads`), in the destructor (`exit`,
`join_pcd`, `join_imu`, `deinit`), between nodes, or at the end of the process
(`quit`, `no_handler`, `ended`). Each failure of `InitLdsLidar` leads to a node
that goes on without. `LdsLidar` and `PubHandler` are one for the process:
`is_initialized`, `request_exit`, `observers` and `process_thread` stay as a node
leaves them when the next is constructed. Of the point cloud path there is what
the joins depend on. `CutFrame` and `WakePcd` are a push of the processing thread
and its signal; `LoopPcd`, `ScanPcd` and `PublishPcd` are the poll thread's loop,
its scan of the devices and the loop over a ring, which goes on until the ring is
empty whatever is requested. Of the rings there is only the one that it is
publishing (`ring`), into which the processing thread may push meanwhile. The
count of the semaphore is not kept: that no wake-up is lost is checked and proved
in `PointDelivery`. The SDK calls back between `LivoxLidarSdkInit` and
`LivoxLidarSdkUninit`, which waits for a callback that has begun; this is taken
from its use, since only its binary is in the repository. Two uses of what is not
there end a behaviour (`crashed`): the destructor of a node without an `Lds`
dereferences null, and the SDK's thread may call `imu_callback_` while the main
thread assigns it.

### QueueSize

The publish frequency through the node's limits, `CalculatePacketQueueSize` and
the rounding in `InitQueue`. The code's frequencies are doubles; here they are
whole numbers of a unit of which a hertz has `Hz`, any even number (the lower
limit is half a hertz). `&` is on the sets of bits that two numbers have
(`Bits`). `RingHoldsASecond`, in `FrameQueue`, is checked in the run of the ring.
It says no more than `SizesSuit`, which has no variable in it, and so waits for
a ring to be there only to be about a state. The sizes of `QueueSize` are those
for which `QueueAssumption` is made. `Size` and `Hz` are constants of their own:
TLC's ring of four slots is smaller than any of the code.

## The runs

All are exhaustive on their instance.

| Run | Instance | Shows |
|---|---|---|
| `frame_queue` | 4 slots, indices modulo 8, 10 frames; frequencies from 0 to 102 Hz in steps of 0.1 Hz | `SlotExclusive`, `NoTornFrame`, `CreatedBeforeUse`, `HeldInOrder`, the inductive `IInv`, `ImplementsFifo`, `RingHoldsASecond` |
| `point_delivery` | 2 lidars, rings of 2, with and without store buffers | `SemaphoreBinary`, `NoLostWakeup`, `Drains`, `JoinReturns` |
| `device_config` | a listed lidar, 2 parameters, 2 reports | `SamplingIsConfigured`, `BitsOutstanding`, `ReachesSampling` |
| `device_config_unlisted` | two unlisted lidars, 1 device | `ReachesNormalMode`, devices never over-assigned (`TypeOK`) |
| `framing` | 2 lidars, either mode in any order | `PointsConserved`, `FrameHasItsBase`, `HostPaced`, `RotationSettles` |
| `framing_sync` | 1 lidar, a packet or two in every millisecond, an interval of 3.5 ms | `FramesApart`, `SpanBounded`, `OffsetsAddUp` |
| `publishers` | 3 lidars, 2 devices, 5 settings of the node, 2 data | `IndexUnique`, `NoIndexLost`, `LookupRight`, `IndexStable`, `DeliveredInOrder`, `NamedAfterItsLidar`, `ExitEndsPclLoop` |
| `lifecycle` | 2 nodes, 2 lidars, queues counted up to 2, a ring of 1, each start-up failure | `NoLostImu`, `ExitIsFinal`, `SetUpOnce`, `NothingOutlives`, `JoinsReturn`, `ImuDrains` |

Why the bounds are enough. The ring wraps its 8 index values within 10 frames,
has more slots than the two in which its threads work, and fills up and empties.
Two lidars are what the poll loop's order, a refused push of one lidar and a
wake-up for the other need; rings of two can be neither full nor empty. Two
reports let commands of one kind overlap, two parameters let one be
acknowledged before the other is set. Several frames per lidar are cut in each
framing run, with boundaries reached early, late and twice; in `framing` the host's clock is
`HostEpoch` ahead of the lidars', so that a base time of the wrong clock shows.

In `framing_sync` a millisecond has two units and the interval seven, so that the
two copies of it differ and a frame may miss a boundary because of that. Three
lidars for two devices let one be turned away, listed or discovered, while two
others are looked up; two of the three are of one network; two data are what
order, a second device and a publisher that exists already need. The five settings
have each format, and each topic mode with a format that crashes on it and one
that does not. Two nodes are what state that outlives a node needs; queues count
up to two, and a longer queue behaves as one of two (`Push` does not count beyond:
the loop over it then ends earlier than in the code, which makes no difference to
what is claimed of it, that it is empty in the end and that the thread does not
sleep before). In `lifecycle` a ring of one slot (`RingSize`) is refilled as often
as it is emptied, which is all it takes to keep the poll thread in its loop:
without `RingPublisherKeepsUp` TLC finds `JoinsReturn` violated that way.

`Framing` presumes of the clocks that they are not set back (`Tick`). The host's is
`high_resolution_clock`, which need not be steady; with libstdc++ it is the system's
clock. `HostPaced` says nothing of a host whose clock is adjusted.

Runs without a deadlock check are those in which the system may stop: the frames
or packets are bounded, or every command is answered.

### Fairness

`FrameQueue`, `Framing` and `CacheIndex` claim safety only. In `PointDelivery` threads that
can run do (`Pushing`, `Polling`, `Destroying`, weakly fair) and stores reach
memory in the end, as the operating system and the processor provide. Nothing
makes a lidar send, become Sampling, or a node end. What the driver itself does
not guarantee is a premise of the properties, not fairness: `FramesKeepComing`,
since nothing but a frame wakes a poll thread, also at exit, and
`PublisherKeepsUp`, since the publishing loops end only when a ring is empty.
`Publishers` needs only that the point cloud poll thread runs on (`PollingPoints`).
Its `ExitEndsPclLoop` is about the loop around `PublishPclMsg` alone, which looks at
the exit request each time and empties no ring. The loops of the other formats do
not end with the request, and no property says so.
`Lifecycle` has weak fairness for the main thread within constructor and destructor
and for the two poll threads. That a node or the process ends, that a lidar sends or
becomes Sampling, or that the end of `PubHandler` is reached is not assumed. Premises
are `FramesKeepComing` and `ImuKeepsComing` (frames are cut and IMU callbacks entered
again and again, so the processing thread and the SDK's thread get to the end of
what they do with each), and that the poll threads get out of the loop over a ring
(`RingPublisherKeepsUp`) and over an IMU queue (`PublisherKeepsUp`). `JoinsReturn`
needs the first three, `ImuDrains` the second and the last. So they say nothing of a
node whose `InitLdsLidar` failed, to which no data come: its joins do not return
unless the poll threads saw the request before they waited.
In `DeviceConfig` a callback that has begun ends and a lost command times out
(weak fairness of `Sending` and `TimedOut`, which the SDK's threads and its
timer provide). That a command which is sent again and again is answered some
time is strong fairness of `Acked`, for every command but the attitude, for which
nothing waits: without it no retry helps on any network.

### Disagreements with the repository's own words

Four runs end in a counterexample, each of one property that quotes a comment,
a log or a message definition.

* `device_config_params`, `ParamsAreUserDefined`. The comment at
  `call_back/livox_lidar_callback.cpp:55` says the parameters are set according
  to the user-defined config. A lidar without one gets a device at its first
  report, and at its second the four parameters of a zeroed configuration.
* `device_config_imu`, `ImuIsAnswered`. The branch at line 308 of that file says
  the IMU command is tried again after a timeout. It is not reached: the timeout
  comes with a null response, and line 300 returns first.
* `framing_offset`, `OffsetsAddUp`. `msg/CustomPoint.msg:3` calls `offset_time`
  relative to the base time. It is kept in 32 bits of nanoseconds, and the frame
  of a synchronised lidar that falls silent stays open: after 4.29 s the offsets
  wrap around. In `framing_sync`, where the lidar sends in every millisecond,
  the same property holds.
* `publishers_id`, `LidarIdTells`. `msg/CustomMsg.msg:6` calls `lidar_id` the lidar
  device id number. `lddc.cpp:336` assigns a 32-bit handle to its eight bits, which
  keep the first number of the lidar's address: two listed lidars of one network
  publish with the same id.

A fifth has no run of its own. `CHANGELOG.md:50` says that the suffix of a topic's
name corresponds to the ip address of each lidar. The device of a lidar that the
configuration file does not list has the address 0, so all of those share a topic;
`NamedAfterItsLidar` says so, by `NoHandle`.

## The proofs

`FrameQueueProofs` proves, for every `Size` and `IdxMod` with
`QueueAssumption` (`Size` divides `IdxMod` and is smaller; in the code both are
powers of two), and every number of frames:

* `Invariance`: `Spec => []IInv`
* `TypeCorrect`, `SlotsExclusive`, `FramesWhole`, `RingCreatedBeforeUse`: the
  four invariants of the run.

None of the four is inductive. That the threads are in different slots follows
from where four indices lie on a circle of `IdxMod` values: `rd_seen`, `rd_idx`,
`wr_seen`, `wr_idx`, in this order, the last at most `Size` ahead of the first
(`IndexOrder`). So whatever a thread knows of the other's index is old in the
safe direction: the producer may take a free slot for a full one and the
consumer a full one for a free one, never the other way round. `Filling`,
`Copying` and `HeldWhole` tie the halves of the slots to it and `Creation` the
ring's birth. `IInv` is checked by TLC as well.

The lemmas come in three groups. The arithmetic of indices is first: how the
used size changes with each index (`UsedDistance`), when distances add up
(`UsedSum`, `UsedAhead`), and that indices less than `Size` apart have different
slots also across the wrap-around (`SlotsDiffer`, where `Size` has to divide
`IdxMod`). Then come what the invariant says of a slot being filled
(`FillingApart`) and one lemma per action.

`FrameQueueRefinement` proves, under the same assumption, `RingImplementsFifo`
(`Spec => ImplementsFifo`), `RingImplementsCounts`, `ViewsAreCounts` and
`FramesInOrder`. The held frames, a function of slots, mask and two indices, are
first shown to be a sequence whose place `k` is the slot `k - 1` ahead of `rd_idx`
(`RingSequence`). On it a step of `wr_idx` is `Append` (`RingAppend`), a step of
`rd_idx` is `Tail` (`RingTail`), and a write to a free slot cannot be seen
(`RingUndisturbed`, again by `SlotsDiffer`). Then each action of the ring is one
of the queue's: `PushCommit` keeps, `PushFull` refuses, `PopUpdate` takes,
`WriteVisible` reveals, `ReadVisible` releases, and all others leave it alone.
That `PopUpdate` may take a frame says that the consumer, in the midst of its
copy, still sees one (`IndexOrder` and `Copying`). That `PopUpdate` publishes the
*head* needs `Copying` to say that the copy came from the slot at `rd_idx` until
that index moves. `FramesInOrder` is then an induction over the steps of the
queue; `OrderInv` adds to it that the frame published last is no newer than what
was offered, which an empty ring would otherwise forget. `RingImplementsCounts`
(`Spec => ImplementsCounts`) takes each step of the queue to one of `RingCounts`
(`FifoCounts`), so that the ring is looked at only once. `ViewsAreCounts` adds
that the tests which the threads make on old indices, modulo 2^32, compare the
counts, as `PointDelivery` has them do.

How many slots a ring has, for any unit of the frequencies, is also proved in
`FrameQueueProofs`: `RingSizesSuit` (16, 32, 64 or 128, as many as frames in a
second or more), `RingSizesAllowed` (with 2^32 indices each of them meets
`QueueAssumption`), `RingsHoldASecond` (`Spec => []RingHoldsASecond`), and
`DroppedASecondLate`: in a ring of one of these sizes a frame is refused only when
the slots that the producer counts as taken are a second of frames. The size asked
for is at most 101, the loop ends at the least power of two that will do
(`RoundupIsLeast`), and powers of two are the only numbers with no bit in common
with the one below them (`PowersOnly`). The last is shown number by number, up to
128, and that a least power exists (`LeastNumber`) needs the well-foundedness of
the natural numbers, which the library states without an operator parameter.

`PointDeliveryProofs` proves, for any number of lidars, any size of the rings and
either memory, `TypeCorrect` and `CountBinary`, and for `delayed = FALSE`
`WakeupsKept`. `CountBinary` rests on `CountKept`: only the processing thread
raises the count, so between its test and its signal the count stays 0.
`RingsCount` proves, for each lidar, `Spec => Ring(l)!Spec`: so the lock-free ring
and the counters of this model implement the same abstract ring. `IInv` is needed
for stores that are flushed by the mutex, of all rings at once.
`NoLostWakeup` is about a moment when both
threads rest, and becomes inductive as `WillLook`: an armed lidar whose ring has
frames always has somebody who will see to it, the producer on its way to a
signal, a count that is not yet taken, a scan that has not passed it, or an exit
request that the poll thread cannot miss any more.

`CacheIndexProofs` proves the five properties of `CacheIndex`, for any number of
lidars, devices and threads that look up. The inductive invariant adds to
`CacheTypeOK`, `IndexUnique` and `NoIndexLost` what a registration under way knows
(`InRegistration`: the lidar it scans for still has no index, since nobody else
registers; the slot it is about to enter belongs to no lidar) and what a lookup
under way knows (`InLookup`: the key found was in the map, or is the one being
inserted).

`PublishersProofs` proves that `Publishers` implements `CacheIndex`
(`ImplementsCache`): every step of the composition is a step of `CacheIndex` or
leaves its variables alone, with `Find` restricted and `Use` joined to what the
index is used for. So what is proved of `CacheIndex` holds in the composition
(`DevicesRight`), without another induction. With it `DeliveryInOrder` and
`NamesRight` (`DeliveredInOrder` and `NamedAfterItsLidar`) are proved for any number
of lidars, devices and data, every format and both topic modes, from
`PublishersAssumption`. Both speak of a lidar, its device and a sequence of messages
that have left both, so the invariant, `DeliveryIInv`, has to tie the three together:

* `QueuesOwned`: a device that is nobody's holds nothing, so that a lidar that is
  given one in the middle of everything finds it empty; any other device holds the
  last data of its lidar (`HoldsLast`). That the device in which a datum is stored
  is its lidar's, at the moment of storing, is what `InLookup` of `CacheIndex` says.
* `OutOrdered`: what was published of a lidar is what it stored without what its
  device still holds. Appending a message to `out` continues the data of one lidar
  in one kind (`NextFirst`) and those of no other (`OthersFirst`).
* `HandlesNamed`, `TopicsNamed` and `OutNamed`: the name in a device is that of its
  lidar, and is read when a publisher is created or a message is filled in. It is
  the same then as later, because a device has its name when it gets its type, and
  nothing is published of a device without a type (`HandlesStep`).

`DeviceConfigProofs` proves `SamplingIsConfigured`, `BitsOutstanding` and the
types, for any number of lidars, parameters and reports. The set bits alone do
not say enough: an acknowledgement may clear the last of them while the callback
has parameters still to send. `EachAccountedFor` says where each parameter of a
lidar is from the moment the callback begins: acknowledged, with its bit set, or
still in the callback's hand; and nothing is in hand when an acknowledgement gets
`config_mutex_`. Two more theorems are the safety behind the two liveness
properties, which TLC checks on one lidar and on two: in no state is everyone done
and the goal not reached. `NeverStuckOff` (`SamplingOnItsWay`): a reported lidar
with parameters, none of them refused, is Sampling, or the callback has one yet to
send, or a bit has its command on the way or about to be sent again. It rests on
`OffHasABit`, since it is the acknowledgement of the *last* bit that must not be
missed. `ModeNotForgotten` (`ModeOnItsWay`) says the same of the work mode of every
lidar that has a device, which is tried again whatever the outcome.

`FramingProofs` proves `PointsConserved`, `FrameHasItsBase`, `HostPaced`,
`RotationSettles` and the types, for any number of lidars, any interval and any
clocks, and whichever way the synchronisation flag changes. `HostPaced` follows
from where the timer is (`TimerBehind`: one interval further per frame since it
was started, and never beyond the clock). For `PointsConserved` the points are
followed by number: those in frames and collections begin the numbering
(`PassedNumbered`), those in the packet queue end it (`WaitingNumbered`), and
the buffers that are swapped out again hold the end of what was published
(`FrameIsLast`).

What the run `framing_sync` checks of synchronised lidars is proved under the
premise that describes them, `AlwaysSynced`: no packet without a synchronised time,
and no time beyond `TimeMod`, which is 2^64 ns in the code.

* `FramesAreApart` (`FramesApart`), for any gaps between packets. A cut is at a
  multiple of the interval (`CutAtBoundary`), and the times of a lidar's points
  keep their order wherever they are (`Chronology`), so the next cut is at another
  multiple: at the same one the collection would be shorter than `LongEnough` asks.
* `SpansBounded` (`SpanBounded`), when each lidar also sends in every millisecond
  (`MaxGap <= Ms`): `NotDueYet` says that at the last multiple that a collection
  has passed it was too short to be cut, so that it is long enough at the next,
  and that no multiple is skipped is where the premise is needed.
* `OffsetsExact` (`OffsetsAddUp`), when 32 bits also hold two intervals
  (`2 * Interval <= OffsetMod`).

The premises are those of the run: `MCFramingSync.cfg` has values that satisfy all
of them, and `framing_offset` shows what happens without the second.

`LifecycleProofs` proves all safety properties of `Lifecycle`, for any number of
devices and nodes. Its invariant has two halves. `ImuIInv` is that of
`PointDeliveryProofs` for IMU data, where nothing is delayed (the queue has a
mutex), with an exit request that is never taken back as one more reason why a
queue need not be looked at. `PollThreads`, `SetUpInOrder` and `SdkKept` say at
which places of the main thread each thread may run and what has been set up; in
particular that the SDK only runs with a configuration that `DeInitLdsLidar` will
take for one of its lidars, or it would not be brought down.

Only model-checked: liveness
(`Drains`, `JoinReturns`, `ReachesSampling`, `ReachesNormalMode`,
`ExitEndsPclLoop`, `JoinsReturn`, `ImuDrains`), since TLAPS cannot reason about
`ENABLED`, and the runs that end in a counterexample. Every invariant and every
other action property or refinement that a passing run checks is a theorem. The
other way round, no run has `FullIsASecond`, since it is about rings of a size from
the code, nor `ImplementsCounts`, `ViewsCount` and `RingsCount`, which are about two
models each of which has a run, nor `SamplingOnItsWay` and `ModeOnItsWay`, which a
run covers in the stronger, temporal form.

## Not modelled

* Coordinates and the extrinsic transformation (floating point), message layout,
  reading JSON, log output.
* `ResetQueue`, `ResetIndex`, `LvxGetIndex`, `StorageLvxPointData`,
  `IsAllQueueEmpty`, `IsAllQueueReadStop` and `IsFilePathValid`, which nothing
  calls.
* A host clock that is set back.
* A torn read of `extrinsic_global`, 32-bit floats written one by one.
* Failure of memory allocation.
* More than 32 lidars on the network at once: `frame_` has no place for them.
* The SDK itself, other than its callbacks, and what a second
  `LivoxLidarSdkUninit` in a process does.

`PROJECT.json` lists some of these as hazards, where the code is exposed to them.

## What could come next

`DeviceConfig` composed with `Lifecycle`: reports that come before the observer
is registered.
