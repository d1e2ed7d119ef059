--------------------------- MODULE FrameQueueProofs ---------------------------
(* Safety of the frame ring for every ring size, index width and number of   *)
(* frames.                                                                   *)
EXTENDS FrameQueue, WellFoundedInduction, TLAPS

-----------------------------------------------------------------------------
(* uint32 arithmetic as case distinctions, so that the rest is linear        *)

\* The next index is the successor, except at the wrap-around.
LEMMA IncrCases ==
    ASSUME NEW i \in Indices
    PROVE  /\ Incr(i) \in Indices
           /\ Incr(i) = IF i + 1 = IdxMod THEN 0 ELSE i + 1
<1>1. IdxMod \in Nat \ {0} /\ i \in 0 .. IdxMod - 1
  BY QueueAssumption DEF Indices
<1>2. CASE i + 1 = IdxMod
  <2>1. IdxMod % IdxMod = 0
    BY <1>1
  <2> QED
    BY <1>1, <1>2, <2>1 DEF Incr, Indices
<1>3. CASE i + 1 # IdxMod
  <2>1. i + 1 \in 0 .. IdxMod - 1
    BY <1>1, <1>3
  <2>2. (i + 1) % IdxMod = i + 1
    BY <1>1, <2>1
  <2> QED
    BY <1>1, <1>3, <2>1, <2>2 DEF Incr, Indices
<1> QED
  BY <1>2, <1>3

\* The used size is the difference, plus IdxMod when the writer has wrapped
\* around and the reader has not.
LEMMA UsedCases ==
    ASSUME NEW w \in Indices, NEW r \in Indices
    PROVE  QueueUsedSize(w, r) = IF r <= w THEN w - r ELSE w - r + IdxMod
<1>1. /\ IdxMod \in Nat \ {0}
      /\ w \in 0 .. IdxMod - 1
      /\ r \in 0 .. IdxMod - 1
  BY QueueAssumption DEF Indices
<1>2. CASE r <= w
  <2>1. w - r \in 0 .. IdxMod - 1
    BY <1>1, <1>2
  <2>2. (w - r) % IdxMod = w - r
    BY <1>1, <2>1
  <2> QED
    BY <1>2, <2>2 DEF QueueUsedSize
<1>3. CASE ~(r <= w)
  <2>1. w - r + IdxMod \in 0 .. IdxMod - 1
    BY <1>1, <1>3
  <2>2. (w - r) % IdxMod = w - r + IdxMod
    BY <1>1, <1>3, <2>1
  <2> QED
    BY <1>3, <2>2 DEF QueueUsedSize
<1> QED
  BY <1>2, <1>3

\* The used size as a distance on the circle of indices: its range, its zero,
\* and how a step of either index changes it.
LEMMA UsedDistance ==
    ASSUME NEW w \in Indices, NEW r \in Indices
    PROVE  /\ QueueUsedSize(w, r) \in 0 .. IdxMod - 1
           /\ QueueUsedSize(w, r) = 0 <=> w = r
           /\ QueueUsedSize(w, r) + 1 < IdxMod
                => QueueUsedSize(Incr(w), r) = QueueUsedSize(w, r) + 1
           /\ w # r => QueueUsedSize(w, Incr(r)) = QueueUsedSize(w, r) - 1
           /\ w = r => QueueUsedSize(w, Incr(r)) = IdxMod - 1
<1>1. /\ IdxMod \in Nat /\ IdxMod > 1
      /\ w \in 0 .. IdxMod - 1
      /\ r \in 0 .. IdxMod - 1
  BY QueueAssumption DEF Indices
<1>2. /\ Incr(w) \in Indices
      /\ Incr(w) = IF w + 1 = IdxMod THEN 0 ELSE w + 1
      /\ Incr(r) \in Indices
      /\ Incr(r) = IF r + 1 = IdxMod THEN 0 ELSE r + 1
  BY IncrCases
<1>3. /\ QueueUsedSize(w, r) = IF r <= w THEN w - r ELSE w - r + IdxMod
      /\ QueueUsedSize(Incr(w), r)
            = IF r <= Incr(w) THEN Incr(w) - r ELSE Incr(w) - r + IdxMod
      /\ QueueUsedSize(w, Incr(r))
            = IF Incr(r) <= w THEN w - Incr(r) ELSE w - Incr(r) + IdxMod
  BY <1>2, UsedCases
<1> QED
  BY <1>1, <1>2, <1>3

\* Distances add up as long as they stay on one turn of the circle.
LEMMA UsedSum ==
    ASSUME NEW w \in Indices, NEW i \in Indices, NEW r \in Indices,
           QueueUsedSize(w, i) + QueueUsedSize(i, r) < IdxMod
    PROVE  QueueUsedSize(w, r) = QueueUsedSize(w, i) + QueueUsedSize(i, r)
<1>1. /\ IdxMod \in Nat
      /\ i \in 0 .. IdxMod - 1 /\ w \in 0 .. IdxMod - 1 /\ r \in 0 .. IdxMod - 1
  BY QueueAssumption DEF Indices
<1>2. /\ QueueUsedSize(i, r) = IF r <= i THEN i - r ELSE i - r + IdxMod
      /\ QueueUsedSize(w, r) = IF r <= w THEN w - r ELSE w - r + IdxMod
      /\ QueueUsedSize(w, i) = IF i <= w THEN w - i ELSE w - i + IdxMod
  BY UsedCases
<1>3. CASE r <= i
  BY <1>1, <1>2, <1>3
<1>4. CASE i < r
  BY <1>1, <1>2, <1>4
<1> QED
  BY <1>1, <1>3, <1>4

\* Of two indices at different distances from r the farther is ahead of the
\* nearer by the difference; at the same distance they are equal.
LEMMA UsedAhead ==
    ASSUME NEW i \in Indices, NEW w \in Indices, NEW r \in Indices,
           QueueUsedSize(i, r) <= QueueUsedSize(w, r)
    PROVE  QueueUsedSize(w, i) = QueueUsedSize(w, r) - QueueUsedSize(i, r)
<1>1. /\ IdxMod \in Nat
      /\ i \in 0 .. IdxMod - 1 /\ w \in 0 .. IdxMod - 1 /\ r \in 0 .. IdxMod - 1
  BY QueueAssumption DEF Indices
<1>2. /\ QueueUsedSize(i, r) = IF r <= i THEN i - r ELSE i - r + IdxMod
      /\ QueueUsedSize(w, r) = IF r <= w THEN w - r ELSE w - r + IdxMod
      /\ QueueUsedSize(w, i) = IF i <= w THEN w - i ELSE w - i + IdxMod
  BY UsedCases
<1>3. CASE r <= i
  BY <1>1, <1>2, <1>3
<1>4. CASE i < r
  BY <1>1, <1>2, <1>4
<1> QED
  BY <1>1, <1>3, <1>4

\* A number and its quotient and remainder.
LEMMA Division ==
    ASSUME NEW a \in Int, NEW b \in Nat \ {0}
    PROVE  /\ a \div b \in Int
           /\ a % b \in 0 .. b - 1
           /\ a = b * (a \div b) + (a % b)
  OBVIOUS

\* Indices at a distance below the ring's size have different slots, also when
\* the later one has wrapped around: this is where Size has to divide IdxMod.
LEMMA SlotsDiffer ==
    ASSUME NEW w \in Indices, NEW r \in Indices,
           0 < QueueUsedSize(w, r), QueueUsedSize(w, r) < Size
    PROVE  w % Size # r % Size
<1> SUFFICES ASSUME w % Size = r % Size
             PROVE  FALSE
  OBVIOUS
<1> DEFINE qw == w \div Size
           qr == r \div Size
           k == IdxMod \div Size
<1>1. /\ Size \in Nat \ {0} /\ IdxMod \in Nat \ {0}
      /\ w \in Int /\ r \in Int /\ IdxMod \in Int
  BY QueueAssumption DEF Indices
<1>2. /\ qw \in Int /\ qr \in Int /\ k \in Int
      /\ w % Size \in Int
      /\ w = Size * qw + (w % Size)
      /\ r = Size * qr + (r % Size)
      /\ IdxMod = Size * k
  <2>1. qw \in Int /\ w % Size \in 0 .. Size - 1 /\ w = Size * qw + (w % Size)
    BY <1>1, Division
  <2>2. qr \in Int /\ r = Size * qr + (r % Size)
    BY <1>1, Division
  <2>3. k \in Int /\ IdxMod = Size * k + (IdxMod % Size)
    BY <1>1, Division
  <2>4. Size * k \in Int
    BY <1>1, <2>3
  <2>5. IdxMod = Size * k
    BY <2>3, <2>4, QueueAssumption
  <2> QED
    BY <1>1, <2>1, <2>2, <2>3, <2>5
<1> HIDE DEF qw, qr, k
<1>3. \E d \in Int : QueueUsedSize(w, r) = Size * d
  <2>1. w - r = Size * (qw - qr) /\ w - r + IdxMod = Size * (qw - qr + k)
    BY <1>1, <1>2
  <2> QED
    BY <1>1, <1>2, <2>1, UsedCases
<1>4. PICK d \in Int : QueueUsedSize(w, r) = Size * d
  BY <1>3
<1>5. d >= 1 \/ d <= 0
  OBVIOUS
<1> QED
  BY <1>1, <1>4, <1>5

\* Once the ring exists, "idx & mask" is a slot of it.
LEMMA SlotInRing ==
    ASSUME NEW i \in Indices, NEW m, m = Size - 1
    PROVE  i % (m + 1) = i % Size /\ i % Size \in Positions
<1>1. i \in Int /\ Size \in Nat \ {0}
  BY QueueAssumption DEF Indices
<1>2. m + 1 = Size
  BY <1>1
<1> QED
  BY <1>1, <1>2, Division DEF Positions

-----------------------------------------------------------------------------
(* The inductive invariant                                                   *)

\* The invariant holds before the first frame.
LEMMA InitIInv == Init => IInv
<1> SUFFICES ASSUME Init PROVE IInv
  OBVIOUS
<1>1. 0 \in Indices /\ Size \in Nat \ {0} /\ MaxFrames \in Nat
  BY QueueAssumption DEF Indices
<1>2. QueueUsedSize(0, 0) = 0
  BY <1>1, UsedCases
<1>3. TypeOK
  <2>1. [head |-> 0, body |-> 0] \in Packet
    BY <1>1 DEF Packet, FrameIds
  <2>2. 0 \in FrameIds /\ 0 \in 0 .. MaxFrames
    BY <1>1 DEF FrameIds
  <2>3. slots \in [Positions -> Packet]
    BY <2>1 DEF Init
  <2> QED
    BY <1>1, <2>1, <2>2, <2>3 DEF Init, TypeOK
<1>4. Creation /\ Filling /\ Copying
  BY DEF Init, Creation, Filling, Copying
<1>5. IndexOrder
  BY <1>1, <1>2 DEF Init, IndexOrder
<1>6. HeldWhole
  <2> SUFFICES ASSUME NEW i \in Indices
               PROVE  ~(QueueUsedSize(i, 0) < 0)
    BY <1>2 DEF Init, HeldWhole
  <2> QED
    BY <1>1, UsedCases DEF Indices
<1> QED
  BY <1>3, <1>4, <1>5, <1>6 DEF IInv

\* Arrive only sets the pointer and starts the creation of the ring.
LEMMA ArriveStep == IInv /\ Arrive => IInv'
<1> SUFFICES ASSUME IInv, Arrive PROVE IInv'
  OBVIOUS
<1> USE DEF IInv, Arrive, consVars
<1>1. TypeOK'
  BY DEF TypeOK
<1>2. Creation'
  BY DEF Creation
<1>3. IndexOrder'
  BY DEF IndexOrder, QueueUsedSize
<1>4. Filling' /\ Copying' /\ HeldWhole'
  BY QueueAssumption DEF TypeOK, Filling, Copying, HeldWhole, SlotOf, QueueUsedSize
<1> QED
  BY <1>1, <1>2, <1>3, <1>4

\* InitQueue gives the ring its mask and resets indices that are still 0.
LEMMA InitQueueStep == IInv /\ InitQueue => IInv'
<1> SUFFICES ASSUME IInv, InitQueue PROVE IInv'
  OBVIOUS
<1> USE DEF IInv, InitQueue
<1>0. /\ wr_idx = 0 /\ rd_idx = 0 /\ wr_seen = 0 /\ rd_seen = 0
      /\ cons = "poll" /\ storage
  BY DEF Creation
<1>1. TypeOK'
  BY <1>0, QueueAssumption DEF TypeOK
<1>2. Creation'
  BY <1>0 DEF Creation
<1>3. IndexOrder'
  BY <1>0 DEF IndexOrder, QueueUsedSize
<1>4. Filling' /\ Copying'
  BY <1>0 DEF Filling, Copying
<1>5. HeldWhole'
  <2> SUFFICES ASSUME NEW i \in Indices
               PROVE  ~(QueueUsedSize(i, 0) < QueueUsedSize(0, 0))
    BY <1>0 DEF HeldWhole, QueueUsedSize
  <2>1. 0 \in Indices
    BY QueueAssumption DEF Indices
  <2> QED
    BY <2>1, UsedCases DEF Indices
<1> QED
  BY <1>1, <1>2, <1>3, <1>4, <1>5

\* Dropping a frame touches neither the ring nor the indices.
LEMMA PushFullStep == IInv /\ PushFull => IInv'
<1> SUFFICES ASSUME IInv, PushFull PROVE IInv'
  OBVIOUS
<1> USE DEF IInv, PushFull, consVars
<1>1. TypeOK'
  BY QueueAssumption DEF TypeOK, Filling
<1>2. Creation'
  BY DEF Creation
<1>3. IndexOrder'
  BY DEF IndexOrder, QueueUsedSize
<1>4. Filling' /\ Copying' /\ HeldWhole'
  BY DEF Filling, Copying, HeldWhole, SlotOf, QueueUsedSize
<1> QED
  BY <1>1, <1>2, <1>3, <1>4

\* The indices and the distances between them, as the invariant bounds them.
LEMMA IndexFacts ==
    ASSUME IInv
    PROVE  /\ wr_idx \in Indices /\ rd_idx \in Indices
           /\ wr_seen \in Indices /\ rd_seen \in Indices
           /\ QueueUsedSize(wr_idx, rd_seen) \in Nat
           /\ QueueUsedSize(wr_idx, wr_seen) \in Nat
           /\ QueueUsedSize(wr_seen, rd_idx) \in Nat
           /\ QueueUsedSize(rd_idx, rd_seen) \in Nat
           /\ QueueUsedSize(wr_idx, rd_seen) <= Size
           /\ QueueUsedSize(wr_idx, rd_seen)
                 = QueueUsedSize(wr_idx, wr_seen)
                 + QueueUsedSize(wr_seen, rd_idx)
                 + QueueUsedSize(rd_idx, rd_seen)
           /\ QueueUsedSize(wr_idx, rd_idx)
                 = QueueUsedSize(wr_idx, wr_seen) + QueueUsedSize(wr_seen, rd_idx)
           /\ Size \in Nat /\ IdxMod \in Nat /\ 0 < Size /\ Size < IdxMod
<1>1. /\ wr_idx \in Indices /\ rd_idx \in Indices
      /\ wr_seen \in Indices /\ rd_seen \in Indices
  BY DEF IInv, TypeOK
<1>2. Size \in Nat /\ IdxMod \in Nat /\ 0 < Size /\ Size < IdxMod
  BY QueueAssumption
<1>3. /\ QueueUsedSize(wr_idx, rd_seen) \in Nat
      /\ QueueUsedSize(wr_idx, wr_seen) \in Nat
      /\ QueueUsedSize(wr_seen, rd_idx) \in Nat
      /\ QueueUsedSize(rd_idx, rd_seen) \in Nat
  BY <1>1, <1>2, UsedDistance
<1>4. /\ QueueUsedSize(wr_idx, rd_seen) <= Size
      /\ QueueUsedSize(wr_idx, rd_seen)
            = QueueUsedSize(wr_idx, wr_seen)
            + QueueUsedSize(wr_seen, rd_idx)
            + QueueUsedSize(rd_idx, rd_seen)
  BY DEF IInv, IndexOrder
<1>5. QueueUsedSize(wr_idx, wr_seen) + QueueUsedSize(wr_seen, rd_idx) < IdxMod
  BY <1>2, <1>3, <1>4
<1> QED
  BY <1>1, <1>2, <1>3, <1>4, <1>5, UsedSum

\* What holds while the producer fills a slot: the slot is not one of those
\* the consumer may still read.
LEMMA FillingApart ==
    ASSUME IInv, mask = Size - 1, QueueUsedSize(wr_idx, rd_seen) < Size
    PROVE  /\ SlotOf(wr_idx) = wr_idx % Size
           /\ SlotOf(wr_idx) \in Positions
           /\ \A i \in Indices :
                 QueueUsedSize(i, rd_idx) < QueueUsedSize(wr_idx, rd_idx)
                     => SlotOf(i) # SlotOf(wr_idx)
           /\ cons \in {"body", "update"} => SlotOf(rd_idx) # SlotOf(wr_idx)
<1>1. \A i \in Indices : SlotOf(i) = i % Size /\ i % Size \in Positions
  BY SlotInRing DEF SlotOf
<1>2. ASSUME NEW i \in Indices,
             QueueUsedSize(i, rd_idx) < QueueUsedSize(wr_idx, rd_idx)
      PROVE  SlotOf(i) # SlotOf(wr_idx)
  <2>1. QueueUsedSize(i, rd_idx) \in Nat
    BY IndexFacts, UsedDistance
  <2>2. QueueUsedSize(wr_idx, i)
            = QueueUsedSize(wr_idx, rd_idx) - QueueUsedSize(i, rd_idx)
    BY <1>2, <2>1, IndexFacts, UsedAhead
  <2>3. 0 < QueueUsedSize(wr_idx, i) /\ QueueUsedSize(wr_idx, i) < Size
    BY <1>2, <2>1, <2>2, IndexFacts
  <2>4. wr_idx % Size # i % Size
    BY <2>3, IndexFacts, SlotsDiffer
  <2> QED
    BY <1>1, <2>4, IndexFacts
<1>3. ASSUME cons \in {"body", "update"}
      PROVE  SlotOf(rd_idx) # SlotOf(wr_idx)
  <2>1. wr_seen # rd_idx
    BY <1>3 DEF IInv, Copying
  <2>2. QueueUsedSize(wr_seen, rd_idx) > 0
    BY <2>1, IndexFacts, UsedDistance
  <2>3. QueueUsedSize(rd_idx, rd_idx) = 0
    BY IndexFacts, UsedDistance
  <2>4. QueueUsedSize(rd_idx, rd_idx) < QueueUsedSize(wr_idx, rd_idx)
    BY <2>2, <2>3, IndexFacts
  <2> QED
    BY <1>2, <2>4, IndexFacts
<1> QED
  BY <1>1, <1>2, <1>3, IndexFacts

\* The first half goes to a slot outside those the consumer may read.
LEMMA PushHeadStep == IInv /\ PushHead => IInv'
<1> SUFFICES ASSUME IInv, PushHead PROVE IInv'
  OBVIOUS
<1> DEFINE s == SlotOf(wr_idx)
<1>1. /\ mask = Size - 1
      /\ QueueUsedSize(wr_idx, rd_seen) < Size
  <2>1. mask = Size - 1
    BY DEF IInv, Creation, PushHead
  <2>2. wr_idx \in Indices /\ rd_seen \in Indices
    BY DEF IInv, TypeOK
  <2>3. QueueUsedSize(wr_idx, rd_seen) \in Int
    BY <2>2, UsedCases, QueueAssumption DEF Indices
  <2> QED
    BY <2>1, <2>3, QueueAssumption DEF PushHead, QueueIsFull
<1>2. /\ s \in Positions
      /\ \A i \in Indices :
            QueueUsedSize(i, rd_idx) < QueueUsedSize(wr_idx, rd_idx)
                => SlotOf(i) # s
      /\ cons \in {"body", "update"} => SlotOf(rd_idx) # s
  BY <1>1, FillingApart
<1>3. offered + 1 \in FrameIds
  BY QueueAssumption DEF IInv, TypeOK, Filling, PushHead, FrameIds
<1>4. slots \in [Positions -> Packet]
  BY DEF IInv, TypeOK
<1>5. slots' \in [Positions -> Packet]
  BY <1>2, <1>3, <1>4 DEF PushHead, Packet
<1>6. slots'[s].head = offered + 1
  BY <1>2, <1>4 DEF PushHead, Packet
<1>7. \A p \in Positions : p # s => slots'[p] = slots[p]
  BY <1>2, <1>4 DEF PushHead
<1>8. \A i \in Indices : SlotOf(i) \in Positions
  BY <1>1, SlotInRing DEF SlotOf
<1>9. rd_idx \in Indices
  BY DEF IInv, TypeOK
<1> HIDE DEF s
<1> USE DEF IInv, PushHead, consVars
<1>10. TypeOK'
  BY <1>5 DEF TypeOK
<1>11. Creation'
  BY DEF Creation
<1>12. IndexOrder'
  BY DEF IndexOrder, QueueUsedSize
<1>13. Filling'
  <2>1. slots'[SlotOf(wr_idx)'].head = offered + 1
    BY <1>6 DEF s, SlotOf
  <2> QED
    BY <1>1, <2>1 DEF Filling, QueueUsedSize
<1>14. Copying'
  <2>1. cons \in {"body", "update"} => slots'[SlotOf(rd_idx)] = slots[SlotOf(rd_idx)]
    BY <1>2, <1>7, <1>8, <1>9
  <2> QED
    BY <2>1 DEF Copying, SlotOf
<1>15. HeldWhole'
  <2>1. \A i \in Indices :
            QueueUsedSize(i, rd_idx) < QueueUsedSize(wr_idx, rd_idx)
                => slots'[SlotOf(i)] = slots[SlotOf(i)]
    BY <1>2, <1>7, <1>8
  <2> QED
    BY <2>1 DEF HeldWhole, SlotOf, QueueUsedSize
<1> QED
  BY <1>10, <1>11, <1>12, <1>13, <1>14, <1>15

\* The second half goes to the slot of the first.
LEMMA PushBodyStep == IInv /\ PushBody => IInv'
<1> SUFFICES ASSUME IInv, PushBody PROVE IInv'
  OBVIOUS
<1> DEFINE s == SlotOf(wr_idx)
<1>1. /\ mask = Size - 1
      /\ QueueUsedSize(wr_idx, rd_seen) < Size
  BY DEF IInv, Creation, Filling, PushBody
<1>2. /\ s \in Positions
      /\ \A i \in Indices :
            QueueUsedSize(i, rd_idx) < QueueUsedSize(wr_idx, rd_idx)
                => SlotOf(i) # s
      /\ cons \in {"body", "update"} => SlotOf(rd_idx) # s
  BY <1>1, FillingApart
<1>3. offered + 1 \in FrameIds
  BY QueueAssumption DEF IInv, TypeOK, Filling, PushBody, FrameIds
<1>4. slots \in [Positions -> Packet]
  BY DEF IInv, TypeOK
<1>5. slots' \in [Positions -> Packet]
  BY <1>2, <1>3, <1>4 DEF PushBody, Packet
<1>6. slots'[s].head = offered + 1 /\ slots'[s].body = offered + 1
  BY <1>2, <1>4 DEF PushBody, Packet, IInv, Filling
<1>7. \A p \in Positions : p # s => slots'[p] = slots[p]
  BY <1>2, <1>4 DEF PushBody
<1>8. \A i \in Indices : SlotOf(i) \in Positions
  BY <1>1, SlotInRing DEF SlotOf
<1>9. rd_idx \in Indices
  BY DEF IInv, TypeOK
<1> HIDE DEF s
<1> USE DEF IInv, PushBody, consVars
<1>10. TypeOK'
  BY <1>5 DEF TypeOK
<1>11. Creation'
  BY DEF Creation
<1>12. IndexOrder'
  BY DEF IndexOrder, QueueUsedSize
<1>13. Filling'
  <2>1. /\ slots'[SlotOf(wr_idx)'].head = offered + 1
        /\ slots'[SlotOf(wr_idx)'].body = offered + 1
    BY <1>6 DEF s, SlotOf
  <2> QED
    BY <1>1, <2>1 DEF Filling, QueueUsedSize
<1>14. Copying'
  <2>1. cons \in {"body", "update"} => slots'[SlotOf(rd_idx)] = slots[SlotOf(rd_idx)]
    BY <1>2, <1>7, <1>8, <1>9
  <2> QED
    BY <2>1 DEF Copying, SlotOf
<1>15. HeldWhole'
  <2>1. \A i \in Indices :
            QueueUsedSize(i, rd_idx) < QueueUsedSize(wr_idx, rd_idx)
                => slots'[SlotOf(i)] = slots[SlotOf(i)]
    BY <1>2, <1>7, <1>8
  <2> QED
    BY <2>1 DEF HeldWhole, SlotOf, QueueUsedSize
<1> QED
  BY <1>10, <1>11, <1>12, <1>13, <1>14, <1>15

\* The committed slot joins those the consumer may read: it is whole.
LEMMA PushCommitStep == IInv /\ PushCommit => IInv'
<1> SUFFICES ASSUME IInv, PushCommit PROVE IInv'
  OBVIOUS
<1>1. /\ wr_idx' \in Indices
      /\ wr_idx' = Incr(wr_idx)
  BY IndexFacts, IncrCases DEF PushCommit
<1>2. /\ QueueUsedSize(wr_idx, rd_seen) < Size
      /\ slots[SlotOf(wr_idx)].head = offered + 1
      /\ slots[SlotOf(wr_idx)].body = offered + 1
  BY DEF IInv, Filling, PushCommit
<1>3. /\ QueueUsedSize(wr_idx', rd_seen) = QueueUsedSize(wr_idx, rd_seen) + 1
      /\ QueueUsedSize(wr_idx', wr_seen) = QueueUsedSize(wr_idx, wr_seen) + 1
      /\ QueueUsedSize(wr_idx', rd_idx) = QueueUsedSize(wr_idx, rd_idx) + 1
  <2>1. /\ QueueUsedSize(wr_idx, rd_seen) + 1 < IdxMod
        /\ QueueUsedSize(wr_idx, wr_seen) + 1 < IdxMod
        /\ QueueUsedSize(wr_idx, rd_idx) + 1 < IdxMod
    BY <1>2, IndexFacts
  <2> QED
    BY <1>1, <2>1, IndexFacts, UsedDistance
<1>4. TypeOK'
  BY <1>1, QueueAssumption DEF IInv, PushCommit, consVars, TypeOK, Filling
<1>5. Creation'
  BY DEF IInv, PushCommit, consVars, Creation
<1>6. IndexOrder'
  <2>1. QueueUsedSize(wr_idx', rd_seen) <= Size
    BY <1>2, <1>3, IndexFacts
  <2>2. QueueUsedSize(wr_idx', rd_seen)
            = QueueUsedSize(wr_idx', wr_seen)
            + QueueUsedSize(wr_seen, rd_idx)
            + QueueUsedSize(rd_idx, rd_seen)
    BY <1>3, IndexFacts
  <2> QED
    BY <2>1, <2>2 DEF PushCommit, consVars, IndexOrder, QueueUsedSize
<1>7. Filling'
  BY DEF PushCommit, Filling
<1>8. Copying'
  BY DEF IInv, PushCommit, consVars, Copying, SlotOf
<1>9. HeldWhole'
  <2> SUFFICES ASSUME NEW i \in Indices,
                      QueueUsedSize(i, rd_idx) < QueueUsedSize(wr_idx', rd_idx)
               PROVE  slots[SlotOf(i)].head = slots[SlotOf(i)].body
    BY DEF HeldWhole, PushCommit, consVars, SlotOf, QueueUsedSize
  <2>1. QueueUsedSize(i, rd_idx) \in Nat
    BY IndexFacts, UsedDistance
  <2>2. CASE QueueUsedSize(i, rd_idx) < QueueUsedSize(wr_idx, rd_idx)
    BY <2>2 DEF IInv, HeldWhole
  <2>3. CASE QueueUsedSize(i, rd_idx) = QueueUsedSize(wr_idx, rd_idx)
    <3>1. QueueUsedSize(wr_idx, i) = 0
      BY <2>1, <2>3, IndexFacts, UsedAhead
    <3>2. wr_idx = i
      BY <3>1, IndexFacts, UsedDistance
    <3> QED
      BY <1>2, <3>2
  <2> QED
    BY <1>3, <2>1, <2>2, <2>3, IndexFacts
<1> QED
  BY <1>4, <1>5, <1>6, <1>7, <1>8, <1>9 DEF IInv

\* The consumer copies from a committed slot.
LEMMA PopHeadStep == IInv /\ PopHead => IInv'
<1> SUFFICES ASSUME IInv, PopHead PROVE IInv'
  OBVIOUS
<1> USE DEF IInv, PopHead, prodVars
<1>1. mask = Size - 1
  <2>1. wr_seen # rd_idx
    BY DEF QueueIsEmpty
  <2> QED
    BY <2>1 DEF Creation
<1>2. SlotOf(rd_idx) \in Positions
  BY <1>1, SlotInRing, IndexFacts DEF SlotOf
<1>3. slots[SlotOf(rd_idx)] \in Packet /\ pkg \in Packet
  BY <1>2 DEF TypeOK
<1>4. pkg' \in Packet /\ pkg'.head = slots[SlotOf(rd_idx)].head
  BY <1>3 DEF Packet
<1>5. TypeOK'
  BY <1>4 DEF TypeOK
<1>6. Creation'
  BY DEF Creation, QueueIsEmpty
<1>7. IndexOrder'
  BY DEF IndexOrder, QueueUsedSize
<1>8. Filling'
  BY DEF Filling, SlotOf, QueueUsedSize
<1>9. Copying'
  BY <1>4 DEF Copying, SlotOf, QueueIsEmpty
<1>10. HeldWhole'
  BY DEF HeldWhole, SlotOf, QueueUsedSize
<1> QED
  BY <1>5, <1>6, <1>7, <1>8, <1>9, <1>10

\* Both halves that are copied come from the same, whole slot.
LEMMA PopBodyStep == IInv /\ PopBody => IInv'
<1> SUFFICES ASSUME IInv, PopBody PROVE IInv'
  OBVIOUS
<1> USE DEF IInv, PopBody, prodVars
<1>1. mask = Size - 1
  BY DEF Creation
<1>2. SlotOf(rd_idx) \in Positions
  BY <1>1, SlotInRing, IndexFacts DEF SlotOf
<1>3. slots[SlotOf(rd_idx)] \in Packet /\ pkg \in Packet
  BY <1>2 DEF TypeOK
<1>4. slots[SlotOf(rd_idx)].head = slots[SlotOf(rd_idx)].body
  <2>1. wr_seen # rd_idx
    BY DEF Copying
  <2>2. QueueUsedSize(wr_seen, rd_idx) > 0
    BY <2>1, IndexFacts, UsedDistance
  <2>3. QueueUsedSize(rd_idx, rd_idx) = 0
    BY IndexFacts, UsedDistance
  <2>4. QueueUsedSize(rd_idx, rd_idx) < QueueUsedSize(wr_idx, rd_idx)
    BY <2>2, <2>3, IndexFacts
  <2> QED
    BY <2>4, IndexFacts DEF HeldWhole
<1>5. /\ pkg' \in Packet
      /\ pkg'.head = pkg'.body
      /\ pkg'.head = slots[SlotOf(rd_idx)].head
  BY <1>3, <1>4 DEF Packet, Copying
<1>6. TypeOK'
  BY <1>5 DEF TypeOK
<1>7. Creation'
  BY DEF Creation
<1>8. IndexOrder'
  BY DEF IndexOrder, QueueUsedSize
<1>9. Filling'
  BY DEF Filling, SlotOf, QueueUsedSize
<1>10. Copying'
  BY <1>5 DEF Copying, SlotOf
<1>11. HeldWhole'
  BY DEF HeldWhole, SlotOf, QueueUsedSize
<1> QED
  BY <1>6, <1>7, <1>8, <1>9, <1>10, <1>11

\* A slot leaves those the consumer may read once it is copied.
LEMMA PopUpdateStep == IInv /\ PopUpdate => IInv'
<1> SUFFICES ASSUME IInv, PopUpdate PROVE IInv'
  OBVIOUS
<1>1. rd_idx' \in Indices /\ rd_idx' = Incr(rd_idx)
  BY IndexFacts, IncrCases DEF PopUpdate
<1>2. wr_seen # rd_idx
  BY DEF IInv, Copying, PopUpdate
<1>3. QueueUsedSize(wr_seen, rd_idx) > 0
  BY <1>2, IndexFacts, UsedDistance
<1>4. wr_idx # rd_idx
  <2>1. QueueUsedSize(wr_idx, rd_idx) > 0
    BY <1>3, IndexFacts
  <2> QED
    BY <2>1, IndexFacts, UsedDistance
<1>5. /\ QueueUsedSize(wr_seen, rd_idx') = QueueUsedSize(wr_seen, rd_idx) - 1
      /\ QueueUsedSize(rd_idx', rd_seen) = QueueUsedSize(rd_idx, rd_seen) + 1
      /\ QueueUsedSize(wr_idx, rd_idx') = QueueUsedSize(wr_idx, rd_idx) - 1
  <2>1. QueueUsedSize(rd_idx, rd_seen) + 1 < IdxMod
    BY <1>3, IndexFacts
  <2> QED
    BY <1>1, <1>2, <1>4, <2>1, IndexFacts, UsedDistance
<1>6. TypeOK'
  BY <1>1 DEF IInv, PopUpdate, prodVars, TypeOK, Packet
<1>7. Creation'
  BY DEF IInv, PopUpdate, prodVars, Creation
<1>8. IndexOrder'
  <2>1. QueueUsedSize(wr_idx, rd_seen)
            = QueueUsedSize(wr_idx, wr_seen)
            + QueueUsedSize(wr_seen, rd_idx')
            + QueueUsedSize(rd_idx', rd_seen)
    BY <1>5, IndexFacts
  <2> QED
    BY <2>1, IndexFacts DEF PopUpdate, prodVars, IndexOrder, QueueUsedSize
<1>9. Filling'
  BY DEF IInv, PopUpdate, prodVars, Filling, SlotOf, QueueUsedSize
<1>10. Copying'
  BY DEF PopUpdate, Copying
<1>11. HeldWhole'
  <2> SUFFICES ASSUME NEW i \in Indices,
                      QueueUsedSize(i, rd_idx') < QueueUsedSize(wr_idx, rd_idx')
               PROVE  slots[SlotOf(i)].head = slots[SlotOf(i)].body
    BY DEF HeldWhole, PopUpdate, prodVars, SlotOf, QueueUsedSize
  <2>1. i # rd_idx
    <3> SUFFICES ASSUME i = rd_idx PROVE FALSE
      OBVIOUS
    <3>1. QueueUsedSize(i, rd_idx') = IdxMod - 1
      BY <1>1, IndexFacts, UsedDistance
    <3> QED
      BY <1>5, <3>1, IndexFacts
  <2>2. QueueUsedSize(i, rd_idx') = QueueUsedSize(i, rd_idx) - 1
    BY <1>1, <2>1, IndexFacts, UsedDistance
  <2>3. QueueUsedSize(i, rd_idx) \in Nat
    BY IndexFacts, UsedDistance
  <2>4. QueueUsedSize(i, rd_idx) < QueueUsedSize(wr_idx, rd_idx)
    BY <1>5, <2>2, <2>3, IndexFacts
  <2> QED
    BY <2>4 DEF IInv, HeldWhole
<1> QED
  BY <1>6, <1>7, <1>8, <1>9, <1>10, <1>11 DEF IInv

\* The consumer's view of wr_idx moves towards wr_idx and not past it.
LEMMA WriteVisibleStep == IInv /\ WriteVisible => IInv'
<1> SUFFICES ASSUME IInv, WriteVisible PROVE IInv'
  OBVIOUS
<1>1. wr_seen' \in Indices /\ wr_seen' = Incr(wr_seen)
  BY IndexFacts, IncrCases DEF WriteVisible
<1>2. QueueUsedSize(wr_idx, wr_seen) > 0
  BY IndexFacts, UsedDistance DEF WriteVisible
<1>3. /\ QueueUsedSize(wr_idx, wr_seen') = QueueUsedSize(wr_idx, wr_seen) - 1
      /\ QueueUsedSize(wr_seen', rd_idx) = QueueUsedSize(wr_seen, rd_idx) + 1
  <2>1. QueueUsedSize(wr_seen, rd_idx) + 1 < IdxMod
    BY <1>2, IndexFacts
  <2> QED
    BY <1>1, <2>1, IndexFacts, UsedDistance DEF WriteVisible
<1>4. TypeOK'
  BY <1>1 DEF IInv, WriteVisible, prodVars, consVars, TypeOK
<1>5. Creation'
  BY DEF IInv, WriteVisible, prodVars, consVars, Creation
<1>6. IndexOrder'
  <2>1. QueueUsedSize(wr_idx, rd_seen)
            = QueueUsedSize(wr_idx, wr_seen')
            + QueueUsedSize(wr_seen', rd_idx)
            + QueueUsedSize(rd_idx, rd_seen)
    BY <1>3, IndexFacts
  <2> QED
    BY <2>1, IndexFacts
       DEF WriteVisible, prodVars, consVars, IndexOrder, QueueUsedSize
<1>7. Filling'
  BY DEF IInv, WriteVisible, prodVars, consVars, Filling, SlotOf, QueueUsedSize
<1>8. Copying'
  <2>1. wr_seen' # rd_idx
    BY <1>1, <1>3, IndexFacts, UsedDistance
  <2> QED
    BY <2>1 DEF IInv, WriteVisible, prodVars, consVars, Copying, SlotOf
<1>9. HeldWhole'
  BY DEF IInv, WriteVisible, prodVars, consVars, HeldWhole, SlotOf, QueueUsedSize
<1> QED
  BY <1>4, <1>5, <1>6, <1>7, <1>8, <1>9 DEF IInv

\* The producer's view of rd_idx moves towards rd_idx and not past it.
LEMMA ReadVisibleStep == IInv /\ ReadVisible => IInv'
<1> SUFFICES ASSUME IInv, ReadVisible PROVE IInv'
  OBVIOUS
<1>1. rd_seen' \in Indices /\ rd_seen' = Incr(rd_seen)
  BY IndexFacts, IncrCases DEF ReadVisible
<1>2. QueueUsedSize(rd_idx, rd_seen) > 0
  BY IndexFacts, UsedDistance DEF ReadVisible
<1>3. wr_idx # rd_seen
  BY <1>2, IndexFacts, UsedDistance
<1>4. /\ QueueUsedSize(rd_idx, rd_seen') = QueueUsedSize(rd_idx, rd_seen) - 1
      /\ QueueUsedSize(wr_idx, rd_seen') = QueueUsedSize(wr_idx, rd_seen) - 1
  BY <1>1, <1>3, IndexFacts, UsedDistance DEF ReadVisible
<1>5. TypeOK'
  BY <1>1 DEF IInv, ReadVisible, prodVars, consVars, TypeOK
<1>6. Creation'
  BY DEF IInv, ReadVisible, prodVars, consVars, Creation
<1>7. IndexOrder'
  <2>1. /\ QueueUsedSize(wr_idx, rd_seen') <= Size
        /\ QueueUsedSize(wr_idx, rd_seen')
              = QueueUsedSize(wr_idx, wr_seen)
              + QueueUsedSize(wr_seen, rd_idx)
              + QueueUsedSize(rd_idx, rd_seen')
    BY <1>4, IndexFacts
  <2> QED
    BY <2>1 DEF ReadVisible, prodVars, consVars, IndexOrder, QueueUsedSize
<1>8. Filling'
  <2>1. QueueUsedSize(wr_idx, rd_seen') < QueueUsedSize(wr_idx, rd_seen)
    BY <1>4, IndexFacts
  <2>2. prod \in {"body", "commit"} => QueueUsedSize(wr_idx, rd_seen') < Size
    BY <2>1, <1>4, IndexFacts DEF IInv, Filling
  <2> QED
    BY <2>2
       DEF IInv, ReadVisible, prodVars, consVars, Filling, SlotOf, QueueUsedSize
<1>9. Copying' /\ HeldWhole'
  BY DEF IInv, ReadVisible, prodVars, consVars, Copying, HeldWhole, SlotOf,
         QueueUsedSize
<1> QED
  BY <1>5, <1>6, <1>7, <1>8, <1>9 DEF IInv

-----------------------------------------------------------------------------
(* The theorems                                                              *)

\* The invariant holds in every reachable state, for every ring size that
\* divides the number of index values.
THEOREM Invariance == Spec => []IInv
<1>1. IInv /\ [Next]_vars => IInv'
  <2> SUFFICES ASSUME IInv, [Next]_vars PROVE IInv'
    OBVIOUS
  <2>1. CASE Producer
    BY <2>1, ArriveStep, InitQueueStep, PushFullStep, PushHeadStep, PushBodyStep,
       PushCommitStep DEF Producer
  <2>2. CASE Consumer
    BY <2>2, PopHeadStep, PopBodyStep, PopUpdateStep DEF Consumer
  <2>3. CASE Memory
    BY <2>3, WriteVisibleStep, ReadVisibleStep DEF Memory
  <2>4. CASE UNCHANGED vars
    BY <2>4 DEF vars, IInv, TypeOK, Creation, IndexOrder, Filling, Copying,
                HeldWhole, SlotOf, QueueUsedSize
  <2> QED
    BY <2>1, <2>2, <2>3, <2>4 DEF Next
<1> QED
  BY <1>1, InitIInv, PTL DEF Spec

\* The variables always have their types: no index leaves uint32, no slot
\* outside the ring is written.
THEOREM TypeCorrect == Spec => []TypeOK
<1>1. IInv => TypeOK
  BY DEF IInv
<1> QED
  BY <1>1, Invariance, PTL

\* QueuePushAny and QueuePop are never at work in the same slot.
THEOREM SlotsExclusive == Spec => []SlotExclusive
<1>1. IInv => SlotExclusive
  <2> SUFFICES ASSUME IInv, prod \in {"body", "commit"}, cons \in {"body", "update"}
               PROVE  SlotOf(wr_idx) # SlotOf(rd_idx)
    BY DEF SlotExclusive
  <2>1. mask = Size - 1 /\ QueueUsedSize(wr_idx, rd_seen) < Size
    BY DEF IInv, Creation, Filling
  <2> QED
    BY <2>1, FillingApart
<1> QED
  BY <1>1, Invariance, PTL

\* Every frame that is taken out of the ring is one that was put in.
THEOREM FramesWhole == Spec => []NoTornFrame
<1>1. IInv => NoTornFrame
  BY DEF IInv, Copying, NoTornFrame
<1> QED
  BY <1>1, Invariance, PTL

\* The consumer never copies from a ring that is still being created.
THEOREM RingCreatedBeforeUse == Spec => []CreatedBeforeUse
<1>1. IInv => CreatedBeforeUse
  BY DEF IInv, Creation, CreatedBeforeUse
<1> QED
  BY <1>1, Invariance, PTL

-----------------------------------------------------------------------------
(* The sizes of the rings                                                    *)

\* A set of numbers has a least one.
LEMMA LeastNumber ==
    ASSUME NEW S \in SUBSET Nat, S # {}
    PROVE  \E n \in S : \A k \in S : n <= k
<1> DEFINE R == OpToRel(<, Nat)
<1>1. IsWellFoundedOn(R, Nat)
  BY NatLessThanWellFounded
<1>2. \A a, b \in Nat : a < b => <<a, b>> \in R
  BY DEF OpToRel
<1> HIDE DEF R
<1>3. PICK n \in S : \A k \in S : <<k, n>> \notin R
  BY <1>1, WFMin
<1>4. ASSUME NEW k \in S PROVE n <= k
  <2>1. n \in Nat /\ k \in Nat
    OBVIOUS
  <2>2. ~(k < n)
    BY <2>1, <1>2, <1>3
  <2> QED
    BY <2>1, <2>2
<1> QED
  BY <1>4

\* The powers of two that a size can have: each is the double of the one before.
LEMMA Powers ==
    ASSUME NEW k \in 0 .. 7
    PROVE  Power(k) \in Nat \ {0} /\ (k # 0 => Power(k) = 2 * Power(k - 1))
<1>1. CASE k = 0
  BY <1>1 DEF Power
<1>2. CASE k = 1
  BY <1>2 DEF Power
<1>3. CASE k = 2
  BY <1>3 DEF Power
<1>4. CASE k = 3
  BY <1>4 DEF Power
<1>5. CASE k = 4
  BY <1>5 DEF Power
<1>6. CASE k = 5
  BY <1>6 DEF Power
<1>7. CASE k = 6
  BY <1>7 DEF Power
<1>8. CASE k = 7
  BY <1>8 DEF Power
<1> QED
  BY <1>1, <1>2, <1>3, <1>4, <1>5, <1>6, <1>7, <1>8

\* The loop of RoundupPowerOf2 ends at the least power of two that holds the size.
LEMMA RoundupIsLeast ==
    ASSUME NEW size \in 1 .. 128
    PROVE  \E n \in 0 .. 7 :
              /\ RoundupPowerOf2(size) = Power(n)
              /\ size <= Power(n)
              /\ \A k \in 0 .. n - 1 : Power(k) < size
<1> DEFINE Ends(n) == n = 31 \/ size <= Power(n)
           Does(n) == (\A k \in 0 .. n - 1 : size > Power(k)) /\ Ends(n)
           S == {n \in 0 .. 31 : Ends(n)}
<1>1. 7 \in S
  BY DEF Power
<1>2. PICK n \in S : \A k \in S : n <= k
  <2>1. S \in SUBSET Nat /\ S # {}
    BY <1>1
  <2> HIDE DEF S
  <2> QED
    BY <2>1, LeastNumber
<1>3. n \in 0 .. 7
  <2>1. n <= 7 /\ n \in 0 .. 31
    BY <1>1, <1>2
  <2> QED
    BY <2>1
<1>4. \A k \in 0 .. 7 : Power(k) \in Nat
  BY Powers
<1>5. Does(n)
  <2>1. ASSUME NEW k \in 0 .. n - 1 PROVE size > Power(k)
    <3>1. k \in 0 .. 7 /\ k \notin S /\ k \in 0 .. 31
      BY <1>2, <1>3
    <3> QED
      BY <1>4, <3>1
  <2> QED
    BY <1>2, <2>1
<1>6. ASSUME NEW m \in 0 .. 31, Does(m) PROVE m = n
  <2>1. m \in S
    BY <1>6
  <2>2. n <= m
    BY <1>2, <2>1
  <2>3. CASE n < m
    <3>1. n \in 0 .. m - 1
      BY <1>3, <2>3
    <3>2. size > Power(n) /\ size <= Power(n)
      BY <1>2, <1>3, <1>6, <3>1
    <3> QED
      BY <1>3, <1>4, <3>2
  <2> QED
    BY <1>3, <2>2, <2>3
<1>7. (CHOOSE m \in 0 .. 31 : Does(m)) = n
  <2> HIDE DEF Does
  <2>1. n \in 0 .. 31
    BY <1>3
  <2> QED
    BY <1>5, <1>6, <2>1
<1>8. RoundupPowerOf2(size) = Power(n)
  BY <1>7 DEF RoundupPowerOf2
<1>9. size <= Power(n) /\ \A k \in 0 .. n - 1 : Power(k) < size
  <2>1. \A k \in 0 .. n - 1 : k \in 0 .. 7
    BY <1>3
  <2> QED
    BY <1>3, <1>4, <1>5, <2>1
<1> HIDE DEF S
<1> QED
  BY <1>3, <1>8, <1>9

\* What IsPowerOf2 takes for a power of two is one: of any other size and the
\* number before it, both have the leading bit.
LEMMA PowersOnly ==
    ASSUME NEW size \in 1 .. 128, IsPowerOf2(size)
    PROVE  RoundupPowerOf2(size) = size
<1>1. PICK n \in 0 .. 7 :
         /\ RoundupPowerOf2(size) = Power(n)
         /\ size <= Power(n)
         /\ \A k \in 0 .. n - 1 : Power(k) < size
  BY RoundupIsLeast
<1> SUFFICES ASSUME size # Power(n)
             PROVE  FALSE
  BY <1>1
<1>2. \A k \in 0 .. 6 : Power(k) \in Nat \ {0} /\ Power(k + 1) = 2 * Power(k)
  <2> SUFFICES ASSUME NEW k \in 0 .. 6
               PROVE  Power(k) \in Nat \ {0} /\ Power(k + 1) = 2 * Power(k)
    OBVIOUS
  <2>1. k \in 0 .. 7 /\ k + 1 \in 0 .. 7 /\ k + 1 # 0 /\ (k + 1) - 1 = k
    OBVIOUS
  <2> QED
    BY <2>1, Powers
<1>3. size < Power(n)
  <2>1. Power(n) \in Nat
    BY Powers
  <2> QED
    BY <1>1, <2>1
<1>4. n # 0
  <2>1. Power(0) = 1
    BY DEF Power
  <2> QED
    BY <1>3, <2>1
<1>5. PICK k \in 0 .. 6 : n = k + 1
  <2>1. n - 1 \in 0 .. 6
    BY <1>4
  <2> QED
    BY <2>1
<1>6. /\ Power(k) \in Nat \ {0}
      /\ Power(k) < size
      /\ size < 2 * Power(k)
  <2>1. k \in 0 .. n - 1
    BY <1>5
  <2> QED
    BY <1>1, <1>2, <1>3, <1>5, <2>1
<1>7. ASSUME NEW p \in Nat \ {0}, NEW s \in Nat, p <= s, s < 2 * p
      PROVE  (s \div p) % 2 = 1
  <2>1. /\ s \div p \in Int
        /\ s % p \in 0 .. p - 1
        /\ s = p * (s \div p) + (s % p)
    BY Division
  <2> DEFINE q == s \div p
  <2>2. q \in Int /\ p * q > 0 /\ p * q < p * 2
    BY <1>7, <2>1
  <2> HIDE DEF q
  <2>3. q >= 1 /\ q <= 1
    BY <2>2
  <2>4. q = 1
    BY <2>2, <2>3
  <2> QED
    BY <2>4 DEF q
<1>8. k \in Bits(size) /\ k \in Bits(size - 1)
  <2>1. size \in Nat /\ Power(k) <= size
    BY <1>6
  <2>2. size - 1 \in Nat /\ Power(k) <= size - 1 /\ size - 1 < 2 * Power(k)
    BY <1>6
  <2>3. (size \div Power(k)) % 2 = 1
    BY <1>6, <1>7, <2>1
  <2>4. ((size - 1) \div Power(k)) % 2 = 1
    BY <1>6, <1>7, <2>2
  <2> QED
    BY <2>3, <2>4 DEF Bits
<1> QED
  BY <1>8 DEF IsPowerOf2

\* A frequency within the limits asks for 10 to 101 slots, enough for a second.
LEMMA SizeAskedFor ==
    ASSUME NEW parameter \in Int
    PROVE  /\ CalculatePacketQueueSize(PublishFreq(parameter)) \in 10 .. 101
           /\ PublishFreq(parameter) \in Int
           /\ CalculatePacketQueueSize(PublishFreq(parameter)) * Hz
                 >= PublishFreq(parameter)
<1> DEFINE freq == PublishFreq(parameter)
           whole == freq \div Hz
<1>1. Hz \in Nat \ {0} /\ Hz \div 2 \in Int /\ Hz = 2 * (Hz \div 2)
  BY UnitAssumption, Division
<1>2. freq \in Int /\ freq <= 100 * Hz
  BY <1>1 DEF PublishFreq
<1> HIDE DEF freq
<1>3. CASE freq > 10 * Hz
  <2>1. /\ whole \in Int
        /\ freq % Hz \in 0 .. Hz - 1
        /\ freq = Hz * whole + (freq % Hz)
    BY <1>1, <1>2, Division
  <2> HIDE DEF whole
  <2>2. (whole + 1) * Hz >= freq
    BY <1>1, <2>1
  <2>3. Hz * whole > 9 * Hz /\ Hz * whole <= 100 * Hz
    BY <1>1, <1>2, <1>3, <2>1
  <2>4. whole > 9 /\ whole <= 100
    BY <1>1, <2>1, <2>3
  <2>5. CalculatePacketQueueSize(freq) = whole + 1
    BY <1>3 DEF CalculatePacketQueueSize, whole
  <2> QED
    BY <1>2, <2>1, <2>2, <2>4, <2>5 DEF freq
<1>4. CASE ~(freq > 10 * Hz)
  <2>1. CalculatePacketQueueSize(freq) = 10 /\ 10 * Hz >= freq
    BY <1>1, <1>2, <1>4 DEF CalculatePacketQueueSize
  <2> QED
    BY <1>2, <2>1 DEF freq
<1> QED
  BY <1>3, <1>4

\* Whatever the publish frequency is set to, the ring that InitQueue creates has
\* the least power of two of slots that holds a second of frames: 16, 32, 64 or
\* 128.
THEOREM RingSizesSuit ==
    ASSUME NEW parameter \in Int
    PROVE  LET freq == PublishFreq(parameter)
           IN  Suits(RingSize(freq), freq) /\ RingSize(freq) \in {16, 32, 64, 128}
<1> DEFINE freq == PublishFreq(parameter)
           size == CalculatePacketQueueSize(freq)
<1>1. size \in 10 .. 101 /\ freq \in Int /\ size * Hz >= freq
  BY SizeAskedFor
<1>2. RingSize(freq) = RoundupPowerOf2(size)
  <2>1. size \in 1 .. 128
    BY <1>1
  <2> HIDE DEF freq, size
  <2>2. IsPowerOf2(size) => RoundupPowerOf2(size) = size
    BY <2>1, PowersOnly
  <2> QED
    BY <2>2 DEF RingSize, size
<1> HIDE DEF freq, size
<1>3. PICK n \in 0 .. 7 :
         /\ RoundupPowerOf2(size) = Power(n)
         /\ size <= Power(n)
         /\ \A k \in 0 .. n - 1 : Power(k) < size
  <2>1. size \in 1 .. 128
    BY <1>1
  <2> QED
    BY <2>1, RoundupIsLeast
<1>4. Power(n) * Hz >= freq
  <2>1. Power(n) \in Nat /\ Hz \in Nat
    BY Powers, UnitAssumption
  <2>2. size \in Int /\ Power(n) * Hz >= size * Hz
    BY <1>1, <1>3, <2>1
  <2> QED
    BY <1>1, <2>1, <2>2
<1>5. Power(n) \in {16, 32, 64, 128}
  <2>1. /\ Power(0) = 1 /\ Power(1) = 2 /\ Power(2) = 4 /\ Power(3) = 8
        /\ Power(4) = 16 /\ Power(5) = 32 /\ Power(6) = 64 /\ Power(7) = 128
    BY DEF Power
  <2>2. n \notin 0 .. 3
    <3>1. n \in 0 .. 3 => n = 0 \/ n = 1 \/ n = 2 \/ n = 3
      OBVIOUS
    <3> QED
      BY <1>1, <1>3, <2>1, <3>1
  <2>3. n = 4 \/ n = 5 \/ n = 6 \/ n = 7
    BY <2>2
  <2> QED
    BY <2>1, <2>3
<1> QED
  BY <1>2, <1>3, <1>4, <1>5 DEF Suits, freq

\* Rings of these sizes are what the theorems are about: with indices of 32 bits
\* they meet QueueAssumption.
THEOREM RingSizesAllowed ==
    ASSUME NEW parameter \in Int
    PROVE  LET size == RingSize(PublishFreq(parameter))
               idxmod == 4294967296
           IN  /\ size \in Nat \ {0}
               /\ idxmod = 2 ^ 32
               /\ size < idxmod
               /\ idxmod % size = 0
<1>1. RingSize(PublishFreq(parameter)) \in {16, 32, 64, 128}
  BY RingSizesSuit
<1>2. 2 ^ 32 = 4294967296
  OBVIOUS
<1>3. /\ 4294967296 % 16 = 0 /\ 4294967296 % 32 = 0
      /\ 4294967296 % 64 = 0 /\ 4294967296 % 128 = 0
  OBVIOUS
<1> QED
  BY <1>1, <1>2, <1>3

\* Every ring holds a second of frames, whatever the unit of the frequencies.
THEOREM RingsHoldASecond == Spec => []RingHoldsASecond
<1>1. SizesSuit
  <2>1. ASSUME NEW p \in Parameters
        PROVE  Suits(RingSize(PublishFreq(p)), PublishFreq(p))
    <3>1. p \in Int
      BY UnitAssumption DEF Parameters
    <3> QED
      BY <3>1, RingSizesSuit
  <2> QED
    BY <2>1 DEF SizesSuit
<1>2. RingHoldsASecond
  BY <1>1 DEF RingHoldsASecond
<1> QED
  BY <1>2, PTL

\* The producer finds its ring full only when it is a second ahead: the slots it
\* counts as taken are as many as the frames that its node cuts in a second.
FullIsASecond ==
    (prod = "check" /\ QueueIsFull(wr_idx, rd_seen)) =>
        \A p \in Parameters :
            RingSize(PublishFreq(p)) = Size
                => QueueUsedSize(wr_idx, rd_seen) * Hz >= PublishFreq(p)

\* A frame is dropped only by a poll thread that is a second late.
THEOREM DroppedASecondLate == Spec => []FullIsASecond
<1>1. IInv => FullIsASecond
  <2> SUFFICES ASSUME IInv, prod = "check", QueueIsFull(wr_idx, rd_seen),
                      NEW p \in Parameters, RingSize(PublishFreq(p)) = Size
               PROVE  QueueUsedSize(wr_idx, rd_seen) * Hz >= PublishFreq(p)
    BY DEF FullIsASecond
  <2>1. mask = Size - 1
    BY DEF IInv, Creation
  <2>2. QueueUsedSize(wr_idx, rd_seen) = Size
    BY <2>1, IndexFacts DEF QueueIsFull
  <2>3. p \in Int
    BY UnitAssumption DEF Parameters
  <2>4. Size * Hz >= PublishFreq(p)
    BY <2>3, RingSizesSuit DEF Suits
  <2> QED
    BY <2>2, <2>4
<1> QED
  BY <1>1, Invariance, PTL
=============================================================================
