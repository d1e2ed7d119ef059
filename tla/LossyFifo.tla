------------------------------ MODULE LossyFifo ------------------------------
(****************************************************************************)
(* What the frame queue of one lidar promises to the driver: a bounded      *)
(* first-in first-out buffer that refuses a frame only when every slot is    *)
(* taken.  Each side learns late of what the other has done: the reader does *)
(* not see the last "unseen" frames yet, and "unreleased" counts the slots   *)
(* that it has emptied and the writer does not know of yet.                  *)
(*                                                                           *)
(* Frames are numbered in the order in which the driver cuts them.           *)
(****************************************************************************)
EXTENDS Naturals, Sequences

CONSTANTS
    Capacity,     \* slots of the queue
    MaxFrames     \* bound on the frames handed to the queue

VARIABLES
    offered,      \* frames handed to the queue so far, kept or refused
    fifo,         \* the frames it holds, oldest first
    unseen,       \* those of them, the newest, that the reader does not see yet
    unreleased,   \* emptied slots the writer still counts as taken
    published     \* the frame the reader took last, 0 before the first

vars == <<offered, fifo, unseen, unreleased, published>>

Init ==
    /\ offered = 0
    /\ fifo = <<>>
    /\ unseen = 0
    /\ unreleased = 0
    /\ published = 0

Taken == Len(fifo) + unreleased

\* A frame is kept when a slot is free ...
Keep ==
    /\ offered < MaxFrames
    /\ Taken < Capacity
    /\ offered' = offered + 1
    /\ fifo' = Append(fifo, offered')
    /\ unseen' = unseen + 1
    /\ UNCHANGED <<unreleased, published>>

\* ... and the newest frame is the one that is lost when none is.
Refuse ==
    /\ offered < MaxFrames
    /\ Taken = Capacity
    /\ offered' = offered + 1
    /\ UNCHANGED <<fifo, unseen, unreleased, published>>

\* The oldest frame leaves, if the reader sees it.
Take ==
    /\ unseen < Len(fifo)
    /\ published' = Head(fifo)
    /\ fifo' = Tail(fifo)
    /\ unreleased' = unreleased + 1
    /\ UNCHANGED <<offered, unseen>>

Reveal ==
    /\ unseen > 0
    /\ unseen' = unseen - 1
    /\ UNCHANGED <<offered, fifo, unreleased, published>>

Release ==
    /\ unreleased > 0
    /\ unreleased' = unreleased - 1
    /\ UNCHANGED <<offered, fifo, unseen, published>>

Next == Keep \/ Refuse \/ Take \/ Reveal \/ Release

Spec == Init /\ [][Next]_vars

\* Frames leave in the order in which they were cut: those held are in that
\* order and newer than the one taken last, so that what the queue loses are
\* gaps and never leads to an older frame after a newer one.
InOrder ==
    /\ \A j, k \in 1 .. Len(fifo) : j < k => fifo[j] < fifo[k]
    /\ \A k \in 1 .. Len(fifo) : published < fifo[k] /\ fifo[k] <= offered
=============================================================================
