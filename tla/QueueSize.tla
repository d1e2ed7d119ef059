------------------------------ MODULE QueueSize ------------------------------
(****************************************************************************)
(* How many slots the ring of a lidar has: the publish frequency the node    *)
(* accepts (livox_ros_driver2.cpp), the size that the first frame of a lidar *)
(* asks for (CalculatePacketQueueSize) and what InitQueue makes of it.       *)
(****************************************************************************)
EXTENDS Integers

CONSTANT
    Hz            \* a frequency of 1 Hz: the unit is as fine as one likes

\* The code's frequencies are doubles.  Each is a number of some unit, half a
\* hertz too, and its conversion to an integer drops what is less than Hz.
ASSUME UnitAssumption == Hz \in Nat \ {0} /\ Hz % 2 = 0

\* DriverNode::DriverNode keeps the parameter between 0.5 and 100 Hz.
PublishFreq(parameter) ==
    IF parameter > 100 * Hz THEN 100 * Hz
    ELSE IF parameter < Hz \div 2 THEN Hz \div 2
    ELSE parameter

\* Fault: the fraction of a frame is forgotten.
CalculatePacketQueueSizeDown(publish_freq) ==
    IF publish_freq > 10 * Hz THEN publish_freq \div Hz ELSE 10

CalculatePacketQueueSize(publish_freq) ==
    IF publish_freq > 10 * Hz THEN publish_freq \div Hz + 1 ELSE 10

\* "1 << k"
Power(k) == 2 ^ k

\* The bits set in a number below 2^31, which sizes are.
Bits(n) == {k \in 0 .. 30 : (n \div Power(k)) % 2 = 1}

\* "size & (size - 1)" has no bit.
IsPowerOf2(size) == size # 0 /\ Bits(size) \cap Bits(size - 1) = {}

\* The loop tries the powers from 2^0 on and ends at the first that will do, or
\* at the last one.
RoundupPowerOf2(size) ==
    Power(CHOOSE n \in 0 .. 31 :
            /\ \A k \in 0 .. n - 1 : size > Power(k)
            /\ n = 31 \/ size <= Power(n))

\* The size of the ring that PushLidarData has InitQueue create.
RingSize(publish_freq) ==
    LET queue_size == CalculatePacketQueueSize(publish_freq)
    IN  IF IsPowerOf2(queue_size) THEN queue_size ELSE RoundupPowerOf2(queue_size)

-----------------------------------------------------------------------------
\* Parameters inside, at and beyond both bounds.
Parameters == 0 .. 102 * Hz

\* The size for a frequency holds the frames of a second and is a power of two.
Suits(size, freq) ==
    /\ size * Hz >= freq
    /\ \E n \in 0 .. 30 : size = Power(n)

SizesSuit == \A p \in Parameters : Suits(RingSize(PublishFreq(p)), PublishFreq(p))
=============================================================================
