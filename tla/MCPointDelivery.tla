--------------------------- MODULE MCPointDelivery ---------------------------
(* PointDelivery with two lidars and rings of two frames, on machines with   *)
(* and without store buffers.                                                *)
EXTENDS PointDelivery

BothMachines == {TRUE, FALSE}
=============================================================================
