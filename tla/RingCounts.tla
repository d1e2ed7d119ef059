------------------------------ MODULE RingCounts ------------------------------
(****************************************************************************)
(* A ring of frames as the threads on both of its sides need to know it when *)
(* it does not matter which frames it holds: how many there are, and how far *)
(* each thread's view of the other's index is behind.  LossyFifo is this with *)
(* the frames; PointDelivery has one for each lidar.                         *)
(****************************************************************************)
EXTENDS Integers

CONSTANT
    Capacity      \* slots of the ring

VARIABLES
    used,         \* frames in the ring
    unseen,       \* those of them that the reader cannot see yet
    unreleased    \* emptied slots that the writer still counts as taken

vars == <<used, unseen, unreleased>>

Init == used = 0 /\ unseen = 0 /\ unreleased = 0

\* What the writer and the reader take the ring for.
LooksFull == used + unreleased >= Capacity
LooksDrained == used + unreleased = 0
LooksEmpty == used = unseen

\* A store waits behind those before it, or reaches memory at once with them.
Push ==
    /\ ~LooksFull
    /\ used' = used + 1
    /\ unseen' \in {0, unseen + 1}
    /\ UNCHANGED unreleased

Pop ==
    /\ ~LooksEmpty
    /\ used' = used - 1
    /\ unreleased' \in {0, unreleased + 1}
    /\ UNCHANGED unseen

\* Some of the stores that wait, the oldest first, reach memory.
Reveal ==
    /\ unseen' \in 0 .. unseen - 1
    /\ UNCHANGED <<used, unreleased>>

Release ==
    /\ unreleased' \in 0 .. unreleased - 1
    /\ UNCHANGED <<used, unseen>>

Next == Push \/ Pop \/ Reveal \/ Release

Spec == Init /\ [][Next]_vars
=============================================================================
