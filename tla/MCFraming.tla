------------------------------ MODULE MCFraming ------------------------------
(* Framing with small intervals and few packets.  Where both kinds of time    *)
(* are mixed the clocks differ by HostEpoch.                                  *)
EXTENDS Framing

CONSTANTS l1, l2

OneLidar == {l1}
TwoLidars == {l1, l2}
Synced == {TRUE}
Unsynced == {FALSE}
Either == {TRUE, FALSE}
=============================================================================
