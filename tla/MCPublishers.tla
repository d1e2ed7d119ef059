----------------------------- MODULE MCPublishers -----------------------------
(* Publishers with three lidars, two of them of one network, and two         *)
(* devices.                                                                  *)
EXTENDS Publishers

\* The handle of the lidar with the address a.b.c.d.
Address(a, b, c, d) == a + 256 * b + 65536 * c + 16777216 * d

Lidars == {Address(192, 168, 1, 12), Address(192, 168, 1, 13), Address(10, 0, 0, 12)}
Threads == {"processing", "sdk"}

ToRos(format, multi) == [format |-> format, multi |-> multi, ros |-> TRUE]

\* Each format and each topic mode; the format without publishers in a node
\* that publishes nothing anyway.
NodeSettings ==
    {ToRos(kPointCloud2Msg, FALSE), ToRos(kLivoxCustomMsg, TRUE),
     ToRos(kAllMsg, FALSE), ToRos(kAllMsg, TRUE),
     [format |-> kPclPxyziMsg, multi |-> TRUE, ros |-> FALSE]}
=============================================================================
