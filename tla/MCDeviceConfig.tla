---------------------------- MODULE MCDeviceConfig ----------------------------
(* DeviceConfig with lidars h1, which the configuration file gives           *)
(* parameters, and h2, which it does not name.                               *)
EXTENDS DeviceConfig, TLC

CONSTANTS h1, h2, p1, p2

OneLidar == {h1}
BothLidars == {h1, h2}
Unlisted == {h2}
Params == {p1, p2}
OneParam == {p1}
ListsFirst == h1 :> Params
ListsFirstParam == h1 :> {p1}
ListsNone == [h \in {} |-> {}]
=============================================================================
