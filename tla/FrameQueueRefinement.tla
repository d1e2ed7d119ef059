------------------------- MODULE FrameQueueRefinement -------------------------
(* The frame ring implements the queue that LossyFifo specifies, for every   *)
(* ring size, index width and number of frames: a store of wr_idx keeps a    *)
(* frame, a drop refuses one, a store of rd_idx takes one, its arrival at    *)
(* the producer releases the slot, and no other step touches the queue.      *)
EXTENDS FrameQueueProofs, Sequences, SequenceTheorems

-----------------------------------------------------------------------------
(* The frames of a ring as a sequence                                        *)

\* The index j places after r.
Ahead(r, j) == (r + j) % IdxMod

\* Held, of any content and indices.
Ring(content, wr, rd) ==
    [k \in 1 .. QueueUsedSize(wr, rd) |-> content[Ahead(rd, k - 1) % Size].body]

\* Going ahead arrives at an index at that distance, and a step of the start
\* is a step ahead.
LEMMA AheadFacts ==
    ASSUME NEW r \in Indices, NEW j \in 0 .. IdxMod - 1
    PROVE  /\ Ahead(r, j) \in Indices
           /\ QueueUsedSize(Ahead(r, j), r) = j
           /\ j = 0 => Ahead(r, j) = r
           /\ j + 1 < IdxMod => Ahead(Incr(r), j) = Ahead(r, j + 1)
<1>1. /\ IdxMod \in Nat /\ IdxMod > 1
      /\ r \in 0 .. IdxMod - 1
  BY QueueAssumption DEF Indices
<1>2. ASSUME NEW s \in Indices, NEW d \in 0 .. IdxMod - 1
      PROVE  Ahead(s, d) = IF s + d < IdxMod THEN s + d ELSE s + d - IdxMod
  <2>1. s \in 0 .. IdxMod - 1
    BY DEF Indices
  <2>2. CASE s + d < IdxMod
    <3>1. s + d \in 0 .. IdxMod - 1
      BY <1>1, <2>1, <2>2
    <3> QED
      BY <1>1, <2>2, <3>1 DEF Ahead
  <2>3. CASE ~(s + d < IdxMod)
    <3>1. s + d - IdxMod \in 0 .. IdxMod - 1
      BY <1>1, <2>1, <2>3
    <3>2. (s + d) % IdxMod = s + d - IdxMod
      BY <1>1, <2>1, <2>3, <3>1
    <3> QED
      BY <2>3, <3>2 DEF Ahead
  <2> QED
    BY <2>2, <2>3
<1>3. Ahead(r, j) = IF r + j < IdxMod THEN r + j ELSE r + j - IdxMod
  BY <1>2
<1>4. Ahead(r, j) \in Indices
  BY <1>1, <1>3 DEF Indices
<1>5. QueueUsedSize(Ahead(r, j), r) = j
  <2>1. QueueUsedSize(Ahead(r, j), r)
            = IF r <= Ahead(r, j) THEN Ahead(r, j) - r ELSE Ahead(r, j) - r + IdxMod
    BY <1>4, UsedCases
  <2> QED
    BY <1>1, <1>3, <2>1
<1>6. j = 0 => Ahead(r, j) = r
  BY <1>1, <1>3
<1>7. j + 1 < IdxMod => Ahead(Incr(r), j) = Ahead(r, j + 1)
  <2> SUFFICES ASSUME j + 1 < IdxMod PROVE Ahead(Incr(r), j) = Ahead(r, j + 1)
    OBVIOUS
  <2>1. j + 1 \in 0 .. IdxMod - 1
    BY <1>1
  <2>2. Incr(r) \in Indices /\ Incr(r) = IF r + 1 = IdxMod THEN 0 ELSE r + 1
    BY IncrCases
  <2>3. Ahead(Incr(r), j)
            = IF Incr(r) + j < IdxMod THEN Incr(r) + j ELSE Incr(r) + j - IdxMod
    BY <1>2, <2>2
  <2>4. Ahead(r, j + 1)
            = IF r + (j + 1) < IdxMod THEN r + (j + 1) ELSE r + (j + 1) - IdxMod
    BY <1>2, <2>1
  <2> QED
    BY <1>1, <2>2, <2>3, <2>4
<1> QED
  BY <1>4, <1>5, <1>6, <1>7

\* Going ahead by the used size leads from the reader to the writer.
LEMMA AheadUsed ==
    ASSUME NEW w \in Indices, NEW r \in Indices
    PROVE  Ahead(r, QueueUsedSize(w, r)) = w
<1> DEFINE a == Ahead(r, QueueUsedSize(w, r))
<1>1. QueueUsedSize(w, r) \in 0 .. IdxMod - 1
  BY UsedDistance
<1>2. a \in Indices /\ QueueUsedSize(a, r) = QueueUsedSize(w, r)
  BY <1>1, AheadFacts
<1>3. QueueUsedSize(a, r) <= QueueUsedSize(w, r)
  BY <1>1, <1>2
<1> HIDE DEF a
<1>4. QueueUsedSize(w, a) = 0
  BY <1>1, <1>2, <1>3, UsedAhead
<1>5. w = a
  BY <1>2, <1>4, UsedDistance
<1> QED
  BY <1>5 DEF a

\* A ring's frames are a sequence of frames, as long as the used size.
LEMMA RingSequence ==
    ASSUME NEW content \in [Positions -> Packet],
           NEW w \in Indices, NEW r \in Indices
    PROVE  /\ Ring(content, w, r) \in Seq(FrameIds)
           /\ Len(Ring(content, w, r)) = QueueUsedSize(w, r)
           /\ \A k \in 1 .. QueueUsedSize(w, r) :
                 Ring(content, w, r)[k] = content[Ahead(r, k - 1) % Size].body
<1> DEFINE n == QueueUsedSize(w, r)
<1>1. n \in 0 .. IdxMod - 1 /\ n \in Nat /\ IdxMod \in Nat
  BY UsedDistance, QueueAssumption
<1>2. ASSUME NEW k \in 1 .. n
      PROVE  content[Ahead(r, k - 1) % Size].body \in FrameIds
  <2>1. k - 1 \in 0 .. IdxMod - 1
    BY <1>1
  <2>2. Ahead(r, k - 1) \in Indices
    BY <2>1, AheadFacts
  <2>3. Ahead(r, k - 1) % Size \in Positions
    BY <2>2, SlotInRing
  <2> QED
    BY <2>3 DEF Packet
<1> HIDE DEF n
<1>3. Ring(content, w, r) \in [1 .. n -> FrameIds]
  BY <1>2 DEF Ring, n
<1>4. Ring(content, w, r) \in Seq(FrameIds)
  BY <1>1, <1>3, SeqDef
<1>5. Len(Ring(content, w, r)) = n
  <2>1. /\ Len(Ring(content, w, r)) \in Nat
        /\ DOMAIN Ring(content, w, r) = 1 .. Len(Ring(content, w, r))
    BY <1>4, LenProperties
  <2>2. DOMAIN Ring(content, w, r) = 1 .. n
    BY <1>3
  <2>3. ASSUME NEW m \in Nat, 1 .. m = 1 .. n PROVE m = n
    BY <1>1, <2>3
  <2> QED
    BY <2>1, <2>2, <2>3
<1>6. \A k \in 1 .. n : Ring(content, w, r)[k] = content[Ahead(r, k - 1) % Size].body
  BY DEF Ring, n
<1> QED
  BY <1>4, <1>5, <1>6 DEF n

\* What is written into a slot outside those in use does not show.
LEMMA RingUndisturbed ==
    ASSUME NEW content \in [Positions -> Packet],
           NEW changed \in [Positions -> Packet],
           NEW w \in Indices, NEW r \in Indices,
           QueueUsedSize(w, r) < Size,
           \A p \in Positions : p # w % Size => changed[p] = content[p]
    PROVE  Ring(changed, w, r) = Ring(content, w, r)
<1> DEFINE n == QueueUsedSize(w, r)
<1>1. n \in 0 .. IdxMod - 1 /\ n \in Nat /\ IdxMod \in Nat
  BY UsedDistance, QueueAssumption
<1>2. ASSUME NEW k \in 1 .. n
      PROVE  changed[Ahead(r, k - 1) % Size] = content[Ahead(r, k - 1) % Size]
  <2> DEFINE i == Ahead(r, k - 1)
  <2>1. k - 1 \in 0 .. IdxMod - 1
    BY <1>1
  <2>2. i \in Indices /\ QueueUsedSize(i, r) = k - 1
    BY <2>1, AheadFacts
  <2> HIDE DEF i
  <2>3. QueueUsedSize(i, r) <= QueueUsedSize(w, r)
    BY <1>1, <2>2
  <2>4. QueueUsedSize(w, i) = n - (k - 1)
    BY <2>2, <2>3, UsedAhead
  <2>5. 0 < QueueUsedSize(w, i) /\ QueueUsedSize(w, i) < Size
    BY <1>1, <2>4, QueueAssumption
  <2>6. i % Size # w % Size /\ i % Size \in Positions
    BY <2>2, <2>5, SlotsDiffer, SlotInRing
  <2> QED
    BY <2>6 DEF i
<1> HIDE DEF n
<1> QED
  BY <1>2 DEF Ring, n

\* A commit of what was written into the next slot appends it ...
LEMMA RingAppend ==
    ASSUME NEW content \in [Positions -> Packet],
           NEW w \in Indices, NEW r \in Indices,
           QueueUsedSize(w, r) + 1 < IdxMod
    PROVE  Ring(content, Incr(w), r)
                = Append(Ring(content, w, r), content[w % Size].body)
<1> DEFINE n == QueueUsedSize(w, r)
           old == Ring(content, w, r)
           new == Ring(content, Incr(w), r)
           last == content[w % Size].body
<1>1. n \in Nat /\ IdxMod \in Nat
  BY UsedDistance, QueueAssumption
<1>2. Incr(w) \in Indices /\ QueueUsedSize(Incr(w), r) = n + 1
  BY UsedDistance, IncrCases
<1>3. /\ old \in Seq(FrameIds) /\ Len(old) = n
      /\ \A k \in 1 .. n : old[k] = content[Ahead(r, k - 1) % Size].body
  BY RingSequence
<1>4. /\ new \in Seq(FrameIds) /\ Len(new) = n + 1
      /\ \A k \in 1 .. n + 1 : new[k] = content[Ahead(r, k - 1) % Size].body
  BY <1>2, RingSequence
<1>5. last \in FrameIds
  BY SlotInRing DEF Packet
<1>6. Ahead(r, n) = w
  BY AheadUsed
<1> HIDE DEF n, old, new, last
<1>7. /\ Append(old, last) \in Seq(FrameIds)
      /\ Len(Append(old, last)) = n + 1
      /\ \A k \in 1 .. n : Append(old, last)[k] = old[k]
      /\ Append(old, last)[n + 1] = last
  BY <1>3, <1>5, AppendProperties
<1>8. ASSUME NEW k \in 1 .. n + 1
      PROVE  new[k] = Append(old, last)[k]
  <2>1. CASE k \in 1 .. n
    BY <1>3, <1>4, <1>7, <2>1
  <2>2. CASE k = n + 1
    <3>1. new[k] = content[Ahead(r, k - 1) % Size].body
      BY <1>4
    <3>2. k - 1 = n
      BY <1>1, <2>2
    <3> QED
      BY <1>6, <1>7, <2>2, <3>1, <3>2 DEF last
  <2>3. k \in 1 .. n \/ k = n + 1
    BY <1>1
  <2> QED
    BY <2>1, <2>2, <2>3
<1>9. new = Append(old, last)
  BY <1>4, <1>7, <1>8, SeqEqual
<1> QED
  BY <1>9 DEF new, old, last

\* ... and a step of the reader removes the oldest frame.
LEMMA RingTail ==
    ASSUME NEW content \in [Positions -> Packet],
           NEW w \in Indices, NEW r \in Indices, w # r
    PROVE  /\ Ring(content, w, r) # <<>>
           /\ Head(Ring(content, w, r)) = content[r % Size].body
           /\ Ring(content, w, Incr(r)) = Tail(Ring(content, w, r))
<1> DEFINE n == QueueUsedSize(w, r)
           old == Ring(content, w, r)
           new == Ring(content, w, Incr(r))
<1>1. n \in 1 .. IdxMod - 1 /\ n - 1 \in Nat /\ IdxMod \in Nat /\ n \in Nat
  BY UsedDistance, QueueAssumption
<1>2. Incr(r) \in Indices /\ QueueUsedSize(w, Incr(r)) = n - 1
  BY UsedDistance, IncrCases
<1>3. /\ old \in Seq(FrameIds) /\ Len(old) = n
      /\ \A k \in 1 .. n : old[k] = content[Ahead(r, k - 1) % Size].body
  BY RingSequence
<1>4. /\ new \in Seq(FrameIds) /\ Len(new) = n - 1
      /\ \A k \in 1 .. n - 1 : new[k] = content[Ahead(Incr(r), k - 1) % Size].body
  BY <1>2, RingSequence
<1>5. old # <<>>
  BY <1>1, <1>3, EmptySeq
<1>6. Head(old) = content[r % Size].body
  <2>1. Head(old) = old[1]
    BY <1>3, <1>5
  <2>2. 1 \in 1 .. n /\ 0 \in 0 .. IdxMod - 1
    BY <1>1
  <2>3. old[1] = content[Ahead(r, 0) % Size].body
    BY <1>3, <2>2
  <2>4. Ahead(r, 0) = r
    BY <2>2, AheadFacts
  <2> QED
    BY <2>1, <2>3, <2>4
<1> HIDE DEF n, old, new
<1>7. /\ Tail(old) \in Seq(FrameIds)
      /\ Len(Tail(old)) = n - 1
      /\ \A k \in 1 .. n - 1 : Tail(old)[k] = old[k + 1]
  BY <1>3, <1>5, HeadTailProperties
<1>8. ASSUME NEW k \in 1 .. n - 1
      PROVE  new[k] = Tail(old)[k]
  <2>1. k - 1 \in 0 .. IdxMod - 1 /\ (k - 1) + 1 < IdxMod /\ k + 1 \in 1 .. n
    BY <1>1
  <2>2. Ahead(Incr(r), k - 1) = Ahead(r, (k - 1) + 1)
    BY <2>1, AheadFacts
  <2>3. (k - 1) + 1 = (k + 1) - 1
    BY <1>1
  <2>4. old[k + 1] = content[Ahead(r, (k + 1) - 1) % Size].body
    BY <1>3, <2>1
  <2> QED
    BY <1>4, <1>7, <2>2, <2>3, <2>4
<1>9. new = Tail(old)
  BY <1>4, <1>7, <1>8, SeqEqual
<1> QED
  BY <1>5, <1>6, <1>9 DEF new, old

-----------------------------------------------------------------------------
(* Held is the ring between the indices                                      *)

\* Held, of any content, mask and indices.
Masked(content, m, wr, rd) ==
    [k \in 1 .. QueueUsedSize(wr, rd) |->
        content[((rd + k - 1) % IdxMod) % (m + 1)].body]

\* The mask selects the slot once the ring exists; before, nothing is held.
LEMMA MaskedRing ==
    ASSUME NEW content \in [Positions -> Packet], NEW m,
           NEW w \in Indices, NEW r \in Indices,
           m = Size - 1 \/ w = r
    PROVE  Masked(content, m, w, r) = Ring(content, w, r)
<1> DEFINE n == QueueUsedSize(w, r)
           masked(k) == content[((r + k - 1) % IdxMod) % (m + 1)].body
           plain(k) == content[Ahead(r, k - 1) % Size].body
<1>1. n \in 0 .. IdxMod - 1 /\ n \in Nat /\ r \in Int
  <2>1. n \in 0 .. IdxMod - 1
    BY UsedDistance
  <2>2. r \in 0 .. IdxMod - 1
    BY DEF Indices
  <2> QED
    BY <2>1, <2>2, QueueAssumption
<1>2. ASSUME NEW k \in 1 .. n
      PROVE  masked(k) = plain(k)
  <2>1. m + 1 = Size
    <3>1. w # r
      BY <1>1, UsedDistance
    <3> QED
      BY <3>1, QueueAssumption
  <2>2. r + k - 1 = r + (k - 1)
    BY <1>1
  <2> QED
    BY <2>1, <2>2 DEF Ahead
<1>3. /\ Masked(content, m, w, r) = [k \in 1 .. n |-> masked(k)]
      /\ Ring(content, w, r) = [k \in 1 .. n |-> plain(k)]
  BY DEF Masked, Ring
<1> HIDE DEF n, masked, plain
<1> QED
  BY <1>2, <1>3

\* The frames held, now and after a step.
LEMMA HeldIsRing ==
    /\ IInv => /\ Held = Ring(slots, wr_idx, rd_idx)
               /\ Held \in Seq(FrameIds)
               /\ Len(Held) = QueueUsedSize(wr_idx, rd_idx)
    /\ IInv' => /\ Held' = Ring(slots', wr_idx', rd_idx')
                /\ Held' \in Seq(FrameIds)
                /\ Len(Held') = QueueUsedSize(wr_idx', rd_idx')
<1>1. ASSUME IInv
      PROVE  /\ Held = Ring(slots, wr_idx, rd_idx)
             /\ Held \in Seq(FrameIds)
             /\ Len(Held) = QueueUsedSize(wr_idx, rd_idx)
  <2>1. /\ slots \in [Positions -> Packet]
        /\ wr_idx \in Indices /\ rd_idx \in Indices
        /\ mask = Size - 1 \/ wr_idx = rd_idx
    BY <1>1 DEF IInv, TypeOK, Creation
  <2>2. Held = Ring(slots, wr_idx, rd_idx)
    <3>1. Held = Masked(slots, mask, wr_idx, rd_idx)
      BY DEF Held, Masked, SlotOf
    <3> QED
      BY <2>1, <3>1, MaskedRing
  <2> QED
    BY <2>1, <2>2, RingSequence
<1>2. ASSUME IInv'
      PROVE  /\ Held' = Ring(slots', wr_idx', rd_idx')
             /\ Held' \in Seq(FrameIds)
             /\ Len(Held') = QueueUsedSize(wr_idx', rd_idx')
  <2>1. /\ slots' \in [Positions -> Packet]
        /\ wr_idx' \in Indices /\ rd_idx' \in Indices
        /\ mask' = Size - 1 \/ wr_idx' = rd_idx'
    BY <1>2 DEF IInv, TypeOK, Creation
  <2>2. Held' = Ring(slots', wr_idx', rd_idx')
    <3>1. Held' = Masked(slots', mask', wr_idx', rd_idx')
      BY DEF Held, Masked, SlotOf, QueueUsedSize
    <3> QED
      BY <2>1, <3>1, MaskedRing
  <2> QED
    BY <2>1, <2>2, RingSequence
<1> QED
  BY <1>1, <1>2

-----------------------------------------------------------------------------
(* Every step of the ring is a step of the queue or leaves it alone          *)

\* Before the first frame the queue is empty.
LEMMA InitFifo == Init => Fifo!Init
<1> SUFFICES ASSUME Init PROVE Fifo!Init
  OBVIOUS
<1>1. 0 \in Indices
  BY QueueAssumption DEF Indices
<1>2. QueueUsedSize(0, 0) = 0
  BY <1>1, UsedDistance
<1>3. IInv
  BY InitIInv
<1>4. Held \in Seq(FrameIds) /\ Len(Held) = 0
  BY <1>2, <1>3, HeldIsRing DEF Init
<1>5. Held = <<>>
  BY <1>4, EmptySeq
<1> QED
  BY <1>2, <1>5 DEF Init, Fifo!Init

\* A step that moves no index the queue is made of, and writes no slot but
\* wr_idx's while that is free, leaves the queue alone.
LEMMA QueueUnchanged ==
    ASSUME IInv, IInv',
           UNCHANGED <<offered, published, wr_idx, rd_idx, wr_seen, rd_seen>>,
           \/ slots' = slots
           \/ /\ QueueUsedSize(wr_idx, rd_seen) < Size
              /\ \A p \in Positions : p # wr_idx % Size => slots'[p] = slots[p]
    PROVE  UNCHANGED Fifo!vars
<1>1. /\ slots \in [Positions -> Packet]
      /\ slots' \in [Positions -> Packet]
  BY DEF IInv, TypeOK
<1>2. Ring(slots', wr_idx, rd_idx) = Ring(slots, wr_idx, rd_idx)
  <2>1. CASE slots' = slots
    BY <2>1
  <2>2. CASE /\ QueueUsedSize(wr_idx, rd_seen) < Size
             /\ \A p \in Positions : p # wr_idx % Size => slots'[p] = slots[p]
    <3>1. QueueUsedSize(wr_idx, rd_idx) < Size
      BY <2>2, IndexFacts
    <3> QED
      BY <1>1, <2>2, <3>1, IndexFacts, RingUndisturbed
  <2> QED
    BY <2>1, <2>2
<1>3. Held' = Held
  BY <1>2, HeldIsRing
<1> QED
  BY <1>3 DEF Fifo!vars, QueueUsedSize

\* The steps of the producer before it decides, and of the consumer before it
\* releases.
LEMMA QuietSteps ==
    IInv /\ IInv' /\ (Arrive \/ PopHead \/ PopBody)
        => UNCHANGED Fifo!vars
  BY QueueUnchanged
     DEF Arrive, PopHead, PopBody, consVars, prodVars

\* The creation of the ring finds it empty and leaves it empty.
LEMMA InitQueueQuiet == IInv /\ IInv' /\ InitQueue => UNCHANGED Fifo!vars
<1> SUFFICES ASSUME IInv, IInv', InitQueue PROVE UNCHANGED Fifo!vars
  OBVIOUS
<1>1. /\ wr_idx = 0 /\ rd_idx = 0 /\ wr_seen = 0 /\ rd_seen = 0
      /\ UNCHANGED <<offered, published, wr_idx, rd_idx, wr_seen, rd_seen, slots>>
  BY DEF IInv, Creation, InitQueue
<1> QED
  BY <1>1, QueueUnchanged

\* Filling the slot at wr_idx is not seen in the queue.
LEMMA FillingQuiet ==
    IInv /\ IInv' /\ (PushHead \/ PushBody) => UNCHANGED Fifo!vars
<1> SUFFICES ASSUME IInv, IInv', PushHead \/ PushBody PROVE UNCHANGED Fifo!vars
  OBVIOUS
<1>1. UNCHANGED <<offered, published, wr_idx, rd_idx, wr_seen, rd_seen, mask>>
  BY DEF PushHead, PushBody, consVars
<1>2. mask = Size - 1
  BY DEF IInv, Creation, PushHead, PushBody
<1>3. QueueUsedSize(wr_idx, rd_seen) < Size
  <2>1. prod' \in {"body", "commit"}
    BY DEF PushHead, PushBody
  <2> QED
    BY <1>1, <2>1 DEF IInv, Filling, QueueUsedSize
<1>4. SlotOf(wr_idx) = wr_idx % Size
  BY <1>2, <1>3, FillingApart
<1>5. \A p \in Positions : p # wr_idx % Size => slots'[p] = slots[p]
  <2>1. slots \in [Positions -> Packet]
    BY DEF IInv, TypeOK
  <2> QED
    BY <1>4, <2>1 DEF PushHead, PushBody
<1> QED
  BY <1>1, <1>3, <1>5, QueueUnchanged

\* A frame that is committed is kept, at the end of the queue.
LEMMA CommitKeeps == IInv /\ IInv' /\ PushCommit => Fifo!Keep
<1> SUFFICES ASSUME IInv, IInv', PushCommit PROVE Fifo!Keep
  OBVIOUS
<1>1. /\ offered < MaxFrames
      /\ QueueUsedSize(wr_idx, rd_seen) < Size
      /\ mask = Size - 1
      /\ slots[SlotOf(wr_idx)].body = offered + 1
  BY DEF IInv, Filling, Creation, PushCommit
<1>2. slots[wr_idx % Size].body = offered + 1
  BY <1>1, FillingApart
<1>3. Len(Held) + QueueUsedSize(rd_idx, rd_seen) < Size
  BY <1>1, HeldIsRing, IndexFacts
<1>4. Held' = Append(Held, offered + 1)
  <2>1. slots \in [Positions -> Packet]
    BY DEF IInv, TypeOK
  <2>2. QueueUsedSize(wr_idx, rd_idx) + 1 < IdxMod
    BY <1>1, IndexFacts
  <2>3. Ring(slots, Incr(wr_idx), rd_idx)
            = Append(Ring(slots, wr_idx, rd_idx), slots[wr_idx % Size].body)
    BY <2>1, <2>2, IndexFacts, RingAppend
  <2>4. Held' = Ring(slots, Incr(wr_idx), rd_idx)
    BY HeldIsRing DEF PushCommit, consVars
  <2> QED
    BY <1>2, <2>3, <2>4, HeldIsRing
<1>5. /\ offered' = offered + 1
      /\ published' = published
      /\ QueueUsedSize(rd_idx, rd_seen)' = QueueUsedSize(rd_idx, rd_seen)
  BY DEF PushCommit, consVars, QueueUsedSize
<1>6. QueueUsedSize(wr_idx, wr_seen)' = QueueUsedSize(wr_idx, wr_seen) + 1
  <2>1. QueueUsedSize(wr_idx, wr_seen) + 1 < IdxMod
    BY <1>1, IndexFacts
  <2>2. QueueUsedSize(Incr(wr_idx), wr_seen) = QueueUsedSize(wr_idx, wr_seen) + 1
    BY <2>1, IndexFacts, UsedDistance
  <2> QED
    BY <2>2 DEF PushCommit, QueueUsedSize
<1> QED
  BY <1>1, <1>3, <1>4, <1>5, <1>6 DEF Fifo!Keep, Fifo!Taken

\* A frame is dropped only when every slot is taken.
LEMMA FullRefuses == IInv /\ IInv' /\ PushFull => Fifo!Refuse
<1> SUFFICES ASSUME IInv, IInv', PushFull PROVE Fifo!Refuse
  OBVIOUS
<1>1. /\ offered < MaxFrames
      /\ mask = Size - 1
      /\ QueueUsedSize(wr_idx, rd_seen) > mask
      /\ offered' = offered + 1
      /\ UNCHANGED <<published, slots, wr_idx, rd_idx, wr_seen, rd_seen>>
  BY DEF IInv, Filling, Creation, PushFull, QueueIsFull, consVars
<1>2. Len(Held) + QueueUsedSize(rd_idx, rd_seen) = Size
  <2>1. QueueUsedSize(wr_idx, rd_seen) = Size
    BY <1>1, IndexFacts
  <2> QED
    BY <2>1, HeldIsRing, IndexFacts
<1>3. Held' = Held
  BY <1>1, HeldIsRing
<1> QED
  BY <1>1, <1>2, <1>3 DEF Fifo!Refuse, Fifo!Taken, QueueUsedSize

\* What the consumer publishes is the oldest frame, and its slot stays taken.
LEMMA UpdateTakes == IInv /\ IInv' /\ PopUpdate => Fifo!Take
<1> SUFFICES ASSUME IInv, IInv', PopUpdate PROVE Fifo!Take
  OBVIOUS
<1>1. /\ wr_seen # rd_idx
      /\ mask = Size - 1
      /\ pkg.head = slots[SlotOf(rd_idx)].head
  BY DEF IInv, Copying, Creation, PopUpdate
<1>2. QueueUsedSize(wr_idx, rd_idx) > 0 /\ wr_idx # rd_idx
  <2>1. QueueUsedSize(wr_seen, rd_idx) > 0
    BY <1>1, IndexFacts, UsedDistance
  <2>2. QueueUsedSize(wr_idx, rd_idx) > 0
    BY <2>1, IndexFacts
  <2> QED
    BY <2>2, IndexFacts, UsedDistance
<1>3. published' = slots[rd_idx % Size].body
  <2>1. QueueUsedSize(rd_idx, rd_idx) = 0
    BY IndexFacts, UsedDistance
  <2>2. slots[SlotOf(rd_idx)].head = slots[SlotOf(rd_idx)].body
    BY <1>2, <2>1, IndexFacts DEF IInv, HeldWhole
  <2>3. SlotOf(rd_idx) = rd_idx % Size
    BY <1>1, IndexFacts, SlotInRing DEF SlotOf
  <2> QED
    BY <1>1, <2>2, <2>3 DEF PopUpdate
<1>4. /\ Held # <<>>
      /\ Head(Held) = slots[rd_idx % Size].body
      /\ Held' = Tail(Held)
  <2>1. slots \in [Positions -> Packet]
    BY DEF IInv, TypeOK
  <2>2. /\ Ring(slots, wr_idx, rd_idx) # <<>>
        /\ Head(Ring(slots, wr_idx, rd_idx)) = slots[rd_idx % Size].body
        /\ Ring(slots, wr_idx, Incr(rd_idx)) = Tail(Ring(slots, wr_idx, rd_idx))
    BY <1>2, <2>1, IndexFacts, RingTail
  <2>3. Held' = Ring(slots, wr_idx, Incr(rd_idx))
    BY HeldIsRing DEF PopUpdate, prodVars
  <2> QED
    BY <2>2, <2>3, HeldIsRing
<1>5. QueueUsedSize(rd_idx, rd_seen)' = QueueUsedSize(rd_idx, rd_seen) + 1
  <2>1. QueueUsedSize(rd_idx, rd_seen) + 1 < IdxMod
    BY <1>2, IndexFacts
  <2>2. QueueUsedSize(Incr(rd_idx), rd_seen) = QueueUsedSize(rd_idx, rd_seen) + 1
    BY <2>1, IndexFacts, UsedDistance
  <2> QED
    BY <2>2 DEF PopUpdate, QueueUsedSize
<1>6. /\ offered' = offered
      /\ QueueUsedSize(wr_idx, wr_seen)' = QueueUsedSize(wr_idx, wr_seen)
  BY DEF PopUpdate, prodVars, QueueUsedSize
<1>7. QueueUsedSize(wr_idx, wr_seen) < Len(Held)
  <2>1. QueueUsedSize(wr_seen, rd_idx) # 0
    BY <1>1, IndexFacts, UsedDistance
  <2> QED
    BY <2>1, IndexFacts, HeldIsRing
<1> QED
  BY <1>3, <1>4, <1>5, <1>6, <1>7 DEF Fifo!Take

\* The consumer sees a frame when the new wr_idx reaches it.
LEMMA WriteVisibleReveals == IInv /\ IInv' /\ WriteVisible => Fifo!Reveal
<1> SUFFICES ASSUME IInv, IInv', WriteVisible PROVE Fifo!Reveal
  OBVIOUS
<1>1. /\ wr_seen # wr_idx
      /\ wr_seen' = Incr(wr_seen)
      /\ UNCHANGED <<offered, published, slots, wr_idx, rd_idx, rd_seen>>
  BY DEF WriteVisible, prodVars, consVars
<1>2. QueueUsedSize(wr_idx, wr_seen) > 0
  BY <1>1, IndexFacts, UsedDistance
<1>3. QueueUsedSize(wr_idx, Incr(wr_seen)) = QueueUsedSize(wr_idx, wr_seen) - 1
  BY <1>1, IndexFacts, UsedDistance
<1>4. /\ QueueUsedSize(wr_idx, wr_seen)' = QueueUsedSize(wr_idx, wr_seen) - 1
      /\ QueueUsedSize(rd_idx, rd_seen)' = QueueUsedSize(rd_idx, rd_seen)
  BY <1>1, <1>3 DEF QueueUsedSize
<1>5. Held' = Held
  BY <1>1, HeldIsRing
<1> QED
  BY <1>1, <1>2, <1>4, <1>5 DEF Fifo!Reveal

\* The producer counts a slot as taken until the new rd_idx reaches it.
LEMMA ReadVisibleReleases == IInv /\ IInv' /\ ReadVisible => Fifo!Release
<1> SUFFICES ASSUME IInv, IInv', ReadVisible PROVE Fifo!Release
  OBVIOUS
<1>1. /\ rd_seen # rd_idx
      /\ rd_seen' = Incr(rd_seen)
      /\ UNCHANGED <<offered, published, slots, wr_idx, rd_idx, wr_seen>>
  BY DEF ReadVisible, prodVars, consVars
<1>2. QueueUsedSize(rd_idx, rd_seen) > 0
  BY <1>1, IndexFacts, UsedDistance
<1>3. QueueUsedSize(rd_idx, Incr(rd_seen)) = QueueUsedSize(rd_idx, rd_seen) - 1
  BY <1>1, IndexFacts, UsedDistance
<1>4. /\ QueueUsedSize(rd_idx, rd_seen)' = QueueUsedSize(rd_idx, rd_seen) - 1
      /\ QueueUsedSize(wr_idx, wr_seen)' = QueueUsedSize(wr_idx, wr_seen)
  BY <1>1, <1>3 DEF QueueUsedSize
<1>5. Held' = Held
  BY <1>1, HeldIsRing
<1> QED
  BY <1>1, <1>2, <1>4, <1>5 DEF Fifo!Release

\* A step of the ring, taken together.
LEMMA StepRefines ==
    IInv /\ IInv' /\ [Next]_vars => [Fifo!Next]_(Fifo!vars)
<1> SUFFICES ASSUME IInv, IInv', [Next]_vars PROVE [Fifo!Next]_(Fifo!vars)
  OBVIOUS
<1>1. CASE Producer
  BY <1>1, QuietSteps, InitQueueQuiet, FillingQuiet, CommitKeeps, FullRefuses
     DEF Producer, Fifo!Next
<1>2. CASE Consumer
  BY <1>2, QuietSteps, UpdateTakes DEF Consumer, Fifo!Next
<1>3. CASE Memory
  BY <1>3, WriteVisibleReveals, ReadVisibleReleases DEF Memory, Fifo!Next
<1>4. CASE UNCHANGED vars
  <2>1. UNCHANGED <<offered, published, wr_idx, rd_idx, wr_seen, rd_seen, slots>>
    BY <1>4 DEF vars
  <2> QED
    BY <2>1, QueueUnchanged
<1> QED
  BY <1>1, <1>2, <1>3, <1>4 DEF Next

-----------------------------------------------------------------------------
(* The refinement                                                            *)

\* The ring is a first-in first-out queue that loses a frame only when every
\* slot is taken, and then the newest: the code's lock-free pushes and pops
\* implement LossyFifo.
THEOREM RingImplementsFifo == Spec => ImplementsFifo
  BY InitFifo, StepRefines, Invariance, PTL DEF Spec, ImplementsFifo, Fifo!Spec

-----------------------------------------------------------------------------
(* The queue without its frames                                              *)

\* The numbers of a queue as the invariant bounds them, now and after a step.
LEMMA CountFacts ==
    ASSUME IInv
    PROVE  /\ Len(Held) = QueueUsedSize(wr_idx, rd_idx)
           /\ QueueUsedSize(wr_idx, rd_idx) \in Nat
           /\ QueueUsedSize(wr_idx, wr_seen) \in Nat
           /\ QueueUsedSize(rd_idx, rd_seen) \in Nat
           /\ Held \in Seq(FrameIds)
  BY HeldIsRing, IndexFacts

\* What is true of the queue's steps is true of their numbers.
LEMMA FifoCounts ==
    IInv /\ IInv' /\ [Fifo!Next]_(Fifo!vars) => [Counts!Next]_(Counts!vars)
<1> SUFFICES ASSUME IInv, IInv', [Fifo!Next]_(Fifo!vars)
             PROVE  [Counts!Next]_(Counts!vars)
  OBVIOUS
<1> DEFINE used == QueueUsedSize(wr_idx, rd_idx)
           unseen == QueueUsedSize(wr_idx, wr_seen)
           unreleased == QueueUsedSize(rd_idx, rd_seen)
<1>1. /\ Len(Held) = used /\ used \in Nat /\ unseen \in Nat /\ unreleased \in Nat
      /\ Held \in Seq(FrameIds) /\ Size \in Nat
  BY CountFacts, QueueAssumption
<1>2. Len(Held') = used'
  <2>1. Len(Held') = QueueUsedSize(wr_idx', rd_idx')
    BY HeldIsRing
  <2> QED
    BY <2>1 DEF QueueUsedSize
<1> HIDE DEF used, unseen, unreleased
<1>3. CASE Fifo!Keep
  <2>1. used + unreleased < Size /\ unseen' = unseen + 1 /\ unreleased' = unreleased
    BY <1>1, <1>3 DEF Fifo!Keep, Fifo!Taken, used, unseen, unreleased
  <2>2. used' = used + 1
    <3>1. Held' = Append(Held, offered') /\ offered' \in FrameIds
      BY <1>3 DEF Fifo!Keep, IInv, TypeOK, FrameIds
    <3> QED
      BY <1>1, <1>2, <3>1, AppendProperties
  <2> QED
    BY <1>1, <2>1, <2>2
       DEF Counts!Next, Counts!Push, Counts!LooksFull, used, unseen, unreleased
<1>4. CASE Fifo!Take
  <2>1. unseen < used /\ unseen' = unseen /\ unreleased' = unreleased + 1
    BY <1>1, <1>4 DEF Fifo!Take, used, unseen, unreleased
  <2>2. used' = used - 1
    <3>1. Held' = Tail(Held) /\ Held # <<>>
      BY <1>1, <1>4, <2>1, EmptySeq DEF Fifo!Take
    <3> QED
      BY <1>1, <1>2, <3>1, HeadTailProperties
  <2> QED
    BY <1>1, <2>1, <2>2
       DEF Counts!Next, Counts!Pop, Counts!LooksEmpty, used, unseen, unreleased
<1>5. CASE Fifo!Reveal
  <2>1. used' = used /\ unseen' = unseen - 1 /\ unseen > 0 /\ unreleased' = unreleased
    BY <1>1, <1>2, <1>5 DEF Fifo!Reveal, unseen, unreleased
  <2>2. unseen' \in 0 .. unseen - 1
    BY <1>1, <2>1
  <2> QED
    BY <2>1, <2>2 DEF Counts!Next, Counts!Reveal, used, unseen, unreleased
<1>6. CASE Fifo!Release
  <2>1. used' = used /\ unreleased' = unreleased - 1 /\ unreleased > 0 /\ unseen' = unseen
    BY <1>1, <1>2, <1>6 DEF Fifo!Release, unseen, unreleased
  <2>2. unreleased' \in 0 .. unreleased - 1
    BY <1>1, <2>1
  <2> QED
    BY <2>1, <2>2 DEF Counts!Next, Counts!Release, used, unseen, unreleased
<1>7. CASE Fifo!Refuse \/ UNCHANGED Fifo!vars
  <2>1. used' = used /\ unreleased' = unreleased /\ unseen' = unseen
    BY <1>1, <1>2, <1>7 DEF Fifo!Refuse, Fifo!vars, unseen, unreleased
  <2> QED
    BY <2>1 DEF Counts!vars, used, unseen, unreleased
<1> QED
  BY <1>3, <1>4, <1>5, <1>6, <1>7 DEF Fifo!Next

\* The ring is, by its numbers, what PointDelivery has for each lidar.
THEOREM RingImplementsCounts == Spec => ImplementsCounts
<1>1. Init => Counts!Init
  BY InitFifo, InitIInv, CountFacts, EmptySeq DEF Fifo!Init, Counts!Init
<1> QED
  BY <1>1, StepRefines, FifoCounts, Invariance, PTL
     DEF Spec, ImplementsCounts, Counts!Spec

\* And what its threads take it for is what PointDelivery has them take it for:
\* the test for a full ring, the test of the processing thread whether its frame
\* is gone again, and the poll thread's for an empty one.
THEOREM ViewsAreCounts == Spec => []ViewsCount
<1>1. IInv => ViewsCount
  <2> SUFFICES ASSUME IInv PROVE ViewsCount
    OBVIOUS
  <2>1. prod = "check" => mask = Size - 1
    BY DEF IInv, Creation
  <2>2. prod = "check" => (QueueIsFull(wr_idx, rd_seen) <=> Counts!LooksFull)
    BY <2>1, IndexFacts DEF QueueIsFull, Counts!LooksFull
  <2>3. QueueIsEmpty(wr_idx, rd_seen) <=> Counts!LooksDrained
    <3>1. QueueUsedSize(wr_idx, rd_seen) = 0 <=> wr_idx = rd_seen
      BY IndexFacts, UsedDistance
    <3> QED
      BY <3>1, IndexFacts DEF QueueIsEmpty, Counts!LooksDrained
  <2>4. QueueIsEmpty(wr_seen, rd_idx) <=> Counts!LooksEmpty
    <3>1. QueueUsedSize(wr_seen, rd_idx) = 0 <=> wr_seen = rd_idx
      BY IndexFacts, UsedDistance
    <3> QED
      BY <3>1, IndexFacts DEF QueueIsEmpty, Counts!LooksEmpty
  <2> QED
    BY <2>2, <2>3, <2>4 DEF ViewsCount
<1> QED
  BY <1>1, Invariance, PTL

-----------------------------------------------------------------------------
(* Frames leave in the order in which they were cut                          *)

\* HeldInOrder says nothing of an empty ring: what was published last must not
\* be ahead of what was offered, or the next frame could be older.
OrderInv == HeldInOrder /\ published <= offered

\* The order is established by the empty ring.
LEMMA InitOrder == Init => OrderInv
<1> SUFFICES ASSUME Init PROVE OrderInv
  OBVIOUS
<1>1. Held = <<>> /\ published = 0 /\ offered = 0
  BY InitFifo DEF Init, Fifo!Init
<1>2. Len(<<>>) = 0
  OBVIOUS
<1> QED
  BY <1>1, <1>2 DEF OrderInv, HeldInOrder, Fifo!InOrder

\* Each step of the queue preserves the order.
LEMMA OrderStep ==
    IInv /\ IInv' /\ OrderInv /\ [Fifo!Next]_(Fifo!vars) => OrderInv'
<1> SUFFICES ASSUME IInv, IInv', OrderInv, [Fifo!Next]_(Fifo!vars)
             PROVE  OrderInv'
  OBVIOUS
<1> DEFINE n == Len(Held)
           n1 == Len(Held')
<1>1. /\ offered \in Nat /\ published \in Nat
      /\ Held \in Seq(FrameIds) /\ Held' \in Seq(FrameIds)
      /\ n \in Nat /\ n1 \in Nat
  <2>1. Held \in Seq(FrameIds) /\ Held' \in Seq(FrameIds)
    BY HeldIsRing
  <2>2. n \in Nat /\ n1 \in Nat
    BY <2>1, LenProperties
  <2>3. offered \in 0 .. MaxFrames /\ published \in 0 .. MaxFrames
    BY DEF IInv, TypeOK, FrameIds
  <2> QED
    BY <2>1, <2>2, <2>3, QueueAssumption
<1>2. /\ \A j, k \in 1 .. n : j < k => Held[j] < Held[k]
      /\ \A k \in 1 .. n : published < Held[k] /\ Held[k] <= offered
      /\ published <= offered
  BY DEF OrderInv, HeldInOrder, Fifo!InOrder
<1>3. SUFFICES /\ \A j, k \in 1 .. n1 : j < k => Held'[j] < Held'[k]
               /\ \A k \in 1 .. n1 : published' < Held'[k] /\ Held'[k] <= offered'
               /\ published' <= offered'
  BY DEF OrderInv, HeldInOrder, Fifo!InOrder
<1>4. \A k \in 1 .. n : Held[k] \in Nat
  <2>1. \A k \in 1 .. n : Held[k] \in FrameIds
    BY <1>1, ElementOfSeq
  <2> QED
    BY <2>1, QueueAssumption DEF FrameIds
<1>5. CASE Fifo!Keep
  <2>1. Held' = Append(Held, offered + 1) /\ offered' = offered + 1
        /\ published' = published /\ offered < MaxFrames
    BY <1>5 DEF Fifo!Keep
  <2>2. offered + 1 \in FrameIds
    BY <1>1, <2>1, QueueAssumption DEF FrameIds
  <2>3. /\ n1 = n + 1
        /\ \A k \in 1 .. n : Held'[k] = Held[k]
        /\ Held'[n + 1] = offered + 1
    BY <1>1, <2>1, <2>2, AppendProperties
  <2> HIDE DEF n, n1
  <2>4. \A k \in 1 .. n1 : k \in 1 .. n \/ (k = n + 1 /\ Held'[k] = offered + 1)
    BY <1>1, <2>3
  <2>5. \A k \in 1 .. n : Held'[k] \in Nat /\ Held'[k] < offered + 1
    BY <1>1, <1>2, <1>4, <2>3
  <2>6. \A j, k \in 1 .. n1 : j < k => Held'[j] < Held'[k]
    <3> SUFFICES ASSUME NEW j \in 1 .. n1, NEW k \in 1 .. n1, j < k
                 PROVE  Held'[j] < Held'[k]
      OBVIOUS
    <3>1. CASE k \in 1 .. n
      <4>1. j \in 1 .. n
        BY <1>1, <2>3, <3>1
      <4> QED
        BY <1>2, <2>3, <3>1, <4>1
    <3>2. CASE k = n + 1 /\ Held'[k] = offered + 1
      <4>1. j \in 1 .. n
        BY <1>1, <2>3, <3>2
      <4> QED
        BY <2>5, <3>2, <4>1
    <3> QED
      BY <2>4, <3>1, <3>2
  <2>7. \A k \in 1 .. n1 : published' < Held'[k] /\ Held'[k] <= offered'
    <3> SUFFICES ASSUME NEW k \in 1 .. n1
                 PROVE  published < Held'[k] /\ Held'[k] <= offered + 1
      BY <2>1
    <3>1. CASE k \in 1 .. n
      BY <1>1, <1>2, <1>4, <2>3, <3>1
    <3>2. CASE k = n + 1 /\ Held'[k] = offered + 1
      BY <1>1, <1>2, <3>2
    <3> QED
      BY <2>4, <3>1, <3>2
  <2>8. published' <= offered'
    BY <1>1, <1>2, <2>1
  <2> QED
    BY <2>6, <2>7, <2>8
<1>6. CASE Fifo!Refuse
  <2>1. Held' = Held /\ offered' = offered + 1 /\ published' = published
    BY <1>6 DEF Fifo!Refuse
  <2> HIDE DEF n
  <2>2. n1 = n
    BY <2>1 DEF n
  <2>3. \A k \in 1 .. n : Held[k] <= offered + 1
    BY <1>1, <1>2, <1>4
  <2> QED
    BY <1>1, <1>2, <2>1, <2>2, <2>3
<1>7. CASE Fifo!Take
  <2>1. /\ Held # <<>> /\ published' = Head(Held)
        /\ Held' = Tail(Held) /\ offered' = offered
    <3>1. QueueUsedSize(wr_idx, wr_seen) \in Nat
      BY IndexFacts
    <3>2. Len(Held) # 0
      BY <1>1, <1>7, <3>1 DEF Fifo!Take
    <3> QED
      BY <1>1, <1>7, <3>2, EmptySeq DEF Fifo!Take
  <2>2. n > 0 /\ Head(Held) = Held[1]
    BY <1>1, <2>1, EmptySeq
  <2>3. /\ n1 = n - 1
        /\ \A k \in 1 .. n1 : Held'[k] = Held[k + 1]
    BY <1>1, <2>1, HeadTailProperties
  <2> HIDE DEF n, n1
  <2>4. \A k \in 1 .. n1 : k + 1 \in 1 .. n /\ 1 < k + 1
    BY <1>1, <2>3
  <2>5. 1 \in 1 .. n
    BY <1>1, <2>2
  <2>6. \A j, k \in 1 .. n1 : j < k => Held'[j] < Held'[k]
    <3> SUFFICES ASSUME NEW j \in 1 .. n1, NEW k \in 1 .. n1, j < k
                 PROVE  Held'[j] < Held'[k]
      OBVIOUS
    <3>1. j + 1 < k + 1
      OBVIOUS
    <3> QED
      BY <1>2, <2>3, <2>4, <3>1
  <2>7. \A k \in 1 .. n1 : published' < Held'[k] /\ Held'[k] <= offered'
    BY <1>2, <2>1, <2>2, <2>3, <2>4, <2>5
  <2>8. published' <= offered'
    BY <1>2, <2>1, <2>2, <2>5
  <2> QED
    BY <2>6, <2>7, <2>8
<1>8. CASE Fifo!Release
  BY <1>2, <1>8 DEF Fifo!Release
<1>9. CASE Fifo!Reveal
  BY <1>2, <1>9 DEF Fifo!Reveal
<1>10. CASE UNCHANGED Fifo!vars
  BY <1>2, <1>10 DEF Fifo!vars
<1> QED
  BY <1>5, <1>6, <1>7, <1>8, <1>9, <1>10 DEF Fifo!Next

\* The frames a poll finds are in the order they were cut and newer than the
\* one published last: a frame never overtakes another, whatever is dropped.
THEOREM FramesInOrder == Spec => []HeldInOrder
<1>1. OrderInv => HeldInOrder
  BY DEF OrderInv
<1> QED
  BY <1>1, InitOrder, OrderStep, StepRefines, Invariance, PTL DEF Spec
=============================================================================
