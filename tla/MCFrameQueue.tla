---------------------------- MODULE MCFrameQueue ----------------------------
(* FrameQueue on small rings.  IdxMod stands for 2^32: the bound on the      *)
(* frames is above it, so that both indices wrap around.                     *)
EXTENDS FrameQueue
=============================================================================
