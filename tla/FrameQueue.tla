------------------------------ MODULE FrameQueue ------------------------------
(****************************************************************************)
(* The ring of point cloud frames of one lidar (comm/ldq.cpp).               *)
(*                                                                           *)
(* One thread writes it (PubHandler's processing thread, through             *)
(* Lds::PushLidarData) and one reads it (the point cloud poll thread,        *)
(* through Lddc::PollingLidarPointCloudData).  No lock protects it: the two  *)
(* threads share the free-running uint32 indices rd_idx and wr_idx, each     *)
(* written by one of them and read by the other.  The producer also creates  *)
(* the ring, at its first frame, while the consumer is already polling it.   *)
(*                                                                           *)
(* Steps are as small as the interleavings that matter: the slot is filled   *)
(* and copied in two halves (base_time and points_num, then the points), and *)
(* the index moves in a step of its own.  A thread sees its own index at     *)
(* once and the other's only when the store reaches memory: rd_seen and      *)
(* wr_seen are the values in memory, one store behind at each Visible step.  *)
(* The stores of one thread reach memory in order (x86), so the halves of a  *)
(* slot, which are stored before wr_idx, are never behind it and need no     *)
(* view of their own.                                                        *)
(****************************************************************************)
EXTENDS QueueSize

CONSTANTS
    Size,         \* slots, one of the sizes of QueueSize in the code
    IdxMod,       \* values of an index: 2^32 in the code
    MaxFrames     \* bound on the frames handed to the queue

\* Both are powers of two in the code, IdxMod the larger: the indices keep
\* their meaning across the wrap-around only because Size divides IdxMod.
ASSUME QueueAssumption ==
    /\ Size \in Nat \ {0}
    /\ IdxMod \in Nat \ {0}
    /\ Size < IdxMod
    /\ IdxMod % Size = 0
    /\ MaxFrames \in Nat

VARIABLES
    prod,         \* where the producer is in PushLidarData
    cons,         \* where the consumer is in PollingLidarPointCloudData
    offered,      \* frames the producer has disposed of, pushed or dropped
    published,    \* the frame the consumer published last, 0 before the first
    pkg,          \* the consumer's StoragePacket, copied half by half
    storage,      \* storage_packet # nullptr
    mask,         \* 0 until the ring is created
    slots,        \* the ring
    wr_idx, rd_idx,       \* the indices as their own thread sees them
    wr_seen, rd_seen      \* the indices as the other thread sees them

prodVars == <<prod, offered, storage, mask, slots, wr_idx>>
consVars == <<cons, published, pkg, rd_idx>>
vars == <<prod, cons, offered, published, pkg, storage, mask, slots,
          wr_idx, rd_idx, wr_seen, rd_seen>>

Indices == 0 .. IdxMod - 1
Positions == 0 .. Size - 1
FrameIds == 0 .. MaxFrames            \* 0 is no frame
Packet == [head : FrameIds, body : FrameIds]

-----------------------------------------------------------------------------
(* uint32 arithmetic and the queue's own tests                               *)

\* Fault: the index is wider than the arithmetic on it.
IncrWide(i) == i + 1

Incr(i) == (i + 1) % IdxMod

QueueUsedSize(wr, rd) == (wr - rd) % IdxMod

\* Fault: compared with the size instead of the mask.
QueueIsFullLate(wr, rd) == QueueUsedSize(wr, rd) > mask + 1

QueueIsFull(wr, rd) == QueueUsedSize(wr, rd) > mask

QueueIsEmpty(wr, rd) == rd = wr

\* "idx & mask", with mask + 1 a power of two
SlotOf(idx) == idx % (mask + 1)

-----------------------------------------------------------------------------
Init ==
    /\ prod = "idle" /\ cons = "poll"
    /\ offered = 0 /\ published = 0
    /\ pkg = [head |-> 0, body |-> 0]
    /\ storage = FALSE /\ mask = 0
    /\ slots = [s \in Positions |-> [head |-> 0, body |-> 0]]
    /\ wr_idx = 0 /\ rd_idx = 0 /\ wr_seen = 0 /\ rd_seen = 0

(* The producer: Lds::PushLidarData                                          *)

\* A frame arrives.  The ring is created if this lidar has none yet; its
\* pointer is set before the indices and the mask are.
Arrive ==
    /\ prod = "idle"
    /\ offered < MaxFrames
    /\ storage' = TRUE
    /\ prod' = IF storage THEN "check" ELSE "init"
    /\ UNCHANGED <<offered, mask, slots, wr_idx, rd_seen, wr_seen, consVars>>

\* Fault: the mask is the size.
InitQueueSizeMask ==
    /\ prod = "init"
    /\ rd_idx' = 0 /\ rd_seen' = 0
    /\ wr_idx' = 0 /\ wr_seen' = 0
    /\ mask' = Size
    /\ prod' = "check"
    /\ UNCHANGED <<offered, storage, slots, cons, published, pkg>>

\* The rest of InitQueue.  It also clears rd_idx, the consumer's index.
InitQueue ==
    /\ prod = "init"
    /\ rd_idx' = 0 /\ rd_seen' = 0
    /\ wr_idx' = 0 /\ wr_seen' = 0
    /\ mask' = Size - 1
    /\ prod' = "check"
    /\ UNCHANGED <<offered, storage, slots, cons, published, pkg>>

\* Fault: a full ring makes room by moving the consumer's index.
PushFullEvicts ==
    /\ prod = "check"
    /\ QueueIsFull(wr_idx, rd_seen)
    /\ rd_idx' = Incr(rd_seen) /\ rd_seen' = rd_idx'
    /\ UNCHANGED <<prod, offered, storage, mask, slots, wr_idx, wr_seen, cons,
                   published, pkg>>

\* The newest frame is dropped when the ring looks full.
PushFull ==
    /\ prod = "check"
    /\ QueueIsFull(wr_idx, rd_seen)
    /\ offered' = offered + 1
    /\ prod' = "idle"
    /\ UNCHANGED <<storage, mask, slots, wr_idx, rd_seen, wr_seen, consVars>>

\* Fault: the test for a full ring is left out.
PushHeadUntested ==
    /\ prod = "check"
    /\ slots' = [slots EXCEPT ![SlotOf(wr_idx)].head = offered + 1]
    /\ prod' = "body"
    /\ UNCHANGED <<offered, storage, mask, wr_idx, rd_seen, wr_seen, consVars>>

\* QueuePushAny, first half: base_time and points_num.
PushHead ==
    /\ prod = "check"
    /\ ~QueueIsFull(wr_idx, rd_seen)
    /\ slots' = [slots EXCEPT ![SlotOf(wr_idx)].head = offered + 1]
    /\ prod' = "body"
    /\ UNCHANGED <<offered, storage, mask, wr_idx, rd_seen, wr_seen, consVars>>

\* Second half: the points.
PushBody ==
    /\ prod = "body"
    /\ slots' = [slots EXCEPT ![SlotOf(wr_idx)].body = offered + 1]
    /\ prod' = "commit"
    /\ UNCHANGED <<offered, storage, mask, wr_idx, rd_seen, wr_seen, consVars>>

PushCommit ==
    /\ prod = "commit"
    /\ wr_idx' = Incr(wr_idx)
    /\ offered' = offered + 1
    /\ prod' = "idle"
    /\ UNCHANGED <<storage, mask, slots, rd_seen, wr_seen, consVars>>

(* The consumer: PollingLidarPointCloudData, the publishing loops, QueuePop  *)

\* Fault: the slot is released before its points are copied.
PopHeadReleases ==
    /\ cons = "poll"
    /\ storage
    /\ ~QueueIsEmpty(wr_seen, rd_idx)
    /\ pkg' = [pkg EXCEPT !.head = slots[SlotOf(rd_idx)].head]
    /\ rd_idx' = Incr(rd_idx)
    /\ cons' = "body"
    /\ UNCHANGED <<published, rd_seen, wr_seen, prodVars>>

\* QueuePrePop, first half, after the loops and QueuePrePop itself have found
\* the ring created and not empty.  Only the consumer removes frames, so the
\* repeated tests agree and one stands for all.
PopHead ==
    /\ cons = "poll"
    /\ storage
    /\ ~QueueIsEmpty(wr_seen, rd_idx)
    /\ pkg' = [pkg EXCEPT !.head = slots[SlotOf(rd_idx)].head]
    /\ cons' = "body"
    /\ UNCHANGED <<published, rd_idx, rd_seen, wr_seen, prodVars>>

PopBody ==
    /\ cons = "body"
    /\ pkg' = [pkg EXCEPT !.body = slots[SlotOf(rd_idx)].body]
    /\ cons' = "update"
    /\ UNCHANGED <<published, rd_idx, rd_seen, wr_seen, prodVars>>

\* QueuePopUpdate; the copy is then published.
PopUpdate ==
    /\ cons = "update"
    /\ rd_idx' = Incr(rd_idx)
    /\ published' = pkg.head
    /\ cons' = "poll"
    /\ UNCHANGED <<pkg, rd_seen, wr_seen, prodVars>>

(* A store leaves the store buffer of the thread that made it                *)

WriteVisible ==
    /\ wr_seen # wr_idx
    /\ wr_seen' = Incr(wr_seen)
    /\ UNCHANGED <<rd_seen, prodVars, consVars>>

ReadVisible ==
    /\ rd_seen # rd_idx
    /\ rd_seen' = Incr(rd_seen)
    /\ UNCHANGED <<wr_seen, prodVars, consVars>>

-----------------------------------------------------------------------------
Producer == Arrive \/ InitQueue \/ PushFull \/ PushHead \/ PushBody \/ PushCommit

Consumer == PopHead \/ PopBody \/ PopUpdate

Memory == WriteVisible \/ ReadVisible

Next == Producer \/ Consumer \/ Memory

Spec == Init /\ [][Next]_vars

-----------------------------------------------------------------------------
(* Properties                                                                *)

\* Every variable has its type.
TypeOK ==
    /\ prod \in {"idle", "init", "check", "body", "commit"}
    /\ cons \in {"poll", "body", "update"}
    /\ offered \in 0 .. MaxFrames
    /\ published \in FrameIds
    /\ pkg \in Packet
    /\ storage \in BOOLEAN
    /\ mask \in {0, Size - 1}
    /\ slots \in [Positions -> Packet]
    /\ wr_idx \in Indices /\ rd_idx \in Indices
    /\ wr_seen \in Indices /\ rd_seen \in Indices

\* The two threads are never in the same slot at once: what QueuePrePop copies
\* QueuePushAny is not filling, though no lock keeps them apart.
SlotExclusive ==
    (prod \in {"body", "commit"} /\ cons \in {"body", "update"})
        => SlotOf(wr_idx) # SlotOf(rd_idx)

\* A frame that leaves the ring is whole: points_num and the points that were
\* copied belong to one frame (a mix would also copy past the slot's points).
NoTornFrame == cons = "update" => pkg.head = pkg.body

\* A consumer that copies from the ring finds it completely created, though it
\* is created under its eyes and the pointer it tests is set first.
CreatedBeforeUse == cons # "poll" => mask = Size - 1 /\ prod # "init"

\* The frames in the ring, oldest first, as the consumer will meet them.
Held == [k \in 1 .. QueueUsedSize(wr_idx, rd_idx) |->
            slots[SlotOf((rd_idx + k - 1) % IdxMod)].body]

\* The ring is a bounded first-in first-out queue that drops the newest frame
\* and only when all its slots are taken: frames leave in the order they came,
\* once each, none overwritten, across the wrap-around of the indices.
Fifo == INSTANCE LossyFifo WITH
            Capacity <- Size,
            fifo <- Held,
            unseen <- QueueUsedSize(wr_idx, wr_seen),
            unreleased <- QueueUsedSize(rd_idx, rd_seen)

ImplementsFifo == Fifo!Spec

\* Without its frames it is the ring that PointDelivery has for each lidar.
Counts == INSTANCE RingCounts WITH
            Capacity <- Size,
            used <- QueueUsedSize(wr_idx, rd_idx),
            unseen <- QueueUsedSize(wr_idx, wr_seen),
            unreleased <- QueueUsedSize(rd_idx, rd_seen)

ImplementsCounts == Counts!Spec

\* The two threads' own tests are those of the counts.
ViewsCount ==
    /\ prod = "check" => (QueueIsFull(wr_idx, rd_seen) <=> Counts!LooksFull)
    /\ QueueIsEmpty(wr_idx, rd_seen) <=> Counts!LooksDrained
    /\ QueueIsEmpty(wr_seen, rd_idx) <=> Counts!LooksEmpty

\* In the ring itself: the frames it holds are in the order they were cut, newer
\* than the one published last and not newer than the one offered last.
HeldInOrder == Fifo!InOrder

\* A ring, once there is one, holds the frames of a whole second at whatever
\* frequency its node publishes, so that the poll thread may be late by that
\* much before a frame is refused; and its size is a power of two, which the
\* mask needs and the indices on their wrap-around (QueueAssumption).
RingHoldsASecond == storage => SizesSuit

-----------------------------------------------------------------------------
(* The inductive invariant behind SlotExclusive, NoTornFrame and             *)
(* CreatedBeforeUse                                                          *)

\* The ring comes into being with its mask, and before that nothing has moved.
Creation ==
    /\ mask = IF storage /\ prod # "init" THEN Size - 1 ELSE 0
    /\ prod = "init" => storage
    /\ ~storage => prod = "idle"
    /\ (~storage \/ prod = "init") =>
            /\ wr_idx = 0 /\ rd_idx = 0 /\ wr_seen = 0 /\ rd_seen = 0
            /\ cons = "poll"

\* On the circle of indices rd_seen, rd_idx, wr_seen and wr_idx follow each
\* other in this order, all within Size: each thread's old view of the other's
\* index is on the safe side.
IndexOrder ==
    /\ QueueUsedSize(wr_idx, rd_seen) <= Size
    /\ QueueUsedSize(wr_idx, rd_seen)
            = QueueUsedSize(wr_idx, wr_seen)
            + QueueUsedSize(wr_seen, rd_idx)
            + QueueUsedSize(rd_idx, rd_seen)

\* The producer fills a free slot, and commits what it has filled.
Filling ==
    /\ prod # "idle" => offered < MaxFrames
    /\ prod \in {"body", "commit"} =>
            /\ QueueUsedSize(wr_idx, rd_seen) < Size
            /\ slots[SlotOf(wr_idx)].head = offered + 1
    /\ prod = "commit" => slots[SlotOf(wr_idx)].body = offered + 1

\* The consumer copies a committed slot, both halves from the oldest one.
Copying ==
    /\ cons \in {"body", "update"} =>
            /\ wr_seen # rd_idx
            /\ pkg.head = slots[SlotOf(rd_idx)].head
    /\ cons = "update" => pkg.head = pkg.body

\* Every committed slot holds one frame.
HeldWhole ==
    \A i \in Indices :
        QueueUsedSize(i, rd_idx) < QueueUsedSize(wr_idx, rd_idx)
            => slots[SlotOf(i)].head = slots[SlotOf(i)].body

\* The invariant of the ring that every step preserves.
IInv == TypeOK /\ Creation /\ IndexOrder /\ Filling /\ Copying /\ HeldWhole
=============================================================================
