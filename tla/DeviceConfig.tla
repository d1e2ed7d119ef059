----------------------------- MODULE DeviceConfig -----------------------------
(****************************************************************************)
(* How a lidar that the SDK discovers is configured and declared Sampling,   *)
(* the state in which its data is published (call_back/                      *)
(* livox_lidar_callback.cpp, LdsLidar::InitLivoxLidar).                      *)
(*                                                                           *)
(* LidarInfoChangeCallback sends the lidar one asynchronous command for each *)
(* parameter of its configuration, marking each in set_bits, and then its    *)
(* install attitude, its work mode and the request to send IMU data.  The    *)
(* SDK calls back once per command, with success, failure, or a timeout when *)
(* command or answer is lost; timeouts are answered by sending the command   *)
(* again.  The acknowledgement that clears the last bit makes the lidar      *)
(* Sampling.  config_mutex_ keeps the acknowledgements of the first commands *)
(* out until the bits of all of them are set.                                *)
(*                                                                           *)
(* The SDK reports a lidar each time it is detected or its status changes,   *)
(* so the callback may run several times for one lidar, also while commands  *)
(* of an earlier run are unanswered.                                         *)
(****************************************************************************)
EXTENDS Integers, FiniteSets

CONSTANTS
    Handle,       \* the lidars on the network
    Param,        \* the parameters that have a bit: kConfigDataType, ...
    UserParams,   \* for each lidar of the configuration file, those it gives
    Slots,        \* devices: kMaxSourceLidar
    MaxInfo       \* bound on the reports of one lidar

Configured == DOMAIN UserParams

ASSUME ConfigAssumption ==
    /\ IsFiniteSet(Handle)
    /\ Configured \subseteq Handle
    /\ UserParams \in [Configured -> SUBSET Param]
    /\ Param \cap {"attitude", "workMode", "imu"} = {}
    /\ Slots \in Nat /\ Cardinality(Configured) <= Slots
    /\ MaxInfo \in Nat

\* The commands a lidar is sent.
Command == Param \cup {"attitude", "workMode", "imu"}

VARIABLES
    registered,     \* lidars that have an index in cache_index_
    set_bits,       \* parameters set and not acknowledged, per lidar
    connect_state,  \* kConnectStateOff or kConnectStateSampling, per lidar
    stage,          \* where LidarInfoChangeCallback is ...
    subject,        \* ... for which lidar ...
    todo,           \* ... and the parameters it has still to send
    sent,           \* commands on their way, per lidar and command
    lost,           \* commands that will time out
    acked,          \* commands that have succeeded, ever
    failed,         \* commands that have failed, ever
    infos           \* reports of each lidar so far

infoVars == <<stage, subject, todo, infos>>
deviceVars == <<registered, set_bits, connect_state>>
wireVars == <<sent, lost>>
vars == <<registered, set_bits, connect_state, stage, subject, todo, sent, lost,
          acked, failed, infos>>

\* The parameters livox_config holds a value for (other than -1).  A lidar
\* without user-defined configuration has a zeroed one, with a value for all.
ConfigParams(h) == IF h \in Configured THEN UserParams[h] ELSE Param

\* Fault: nothing is locked.
LockedNever == FALSE

\* config_mutex_ is held by LidarInfoChangeCallback.
Locked == stage = "config"

Quiet == [h \in Handle |-> [c \in Command |-> 0]]

\* What c more or fewer of command c for h make of the commands on the wire.
More(wire, h, c) == [wire EXCEPT ![h][c] = @ + 1]
Fewer(wire, h, c) == [wire EXCEPT ![h][c] = @ - 1]

-----------------------------------------------------------------------------
\* InitLivoxLidar has given the lidars of the configuration file their devices
\* before it registers the callback.
Init ==
    /\ registered = Configured
    /\ set_bits = [h \in Handle |-> {}]
    /\ connect_state = [h \in Handle |-> "Off"]
    /\ stage = "idle" /\ todo = {}
    /\ subject \in Handle
    /\ sent = Quiet /\ lost = Quiet
    /\ acked = [h \in Handle |-> {}]
    /\ failed = [h \in Handle |-> {}]
    /\ infos = [h \in Handle |-> 0]

(* LidarInfoChangeCallback                                                   *)

Report(h) ==
    /\ stage = "idle"
    /\ infos[h] < MaxInfo
    /\ infos' = [infos EXCEPT ![h] = @ + 1]
    /\ subject' = h

\* A lidar that has a device: its parameters are set under config_mutex_.
InfoChangeKnown(h) ==
    /\ h \in registered
    /\ Report(h)
    /\ stage' = "config"
    /\ todo' = ConfigParams(h)
    /\ UNCHANGED <<deviceVars, wireVars, acked, failed>>

\* Fault: no test for a free device.
InfoChangeUnknownUntested(h) ==
    /\ h \notin registered
    /\ Report(h)
    /\ registered' = registered \cup {h}
    /\ stage' = "mode"
    /\ UNCHANGED <<todo, set_bits, connect_state, wireVars, acked, failed>>

\* One that has none is given the next free device, and no parameters.
InfoChangeUnknown(h) ==
    /\ h \notin registered
    /\ Cardinality(registered) < Slots
    /\ Report(h)
    /\ registered' = registered \cup {h}
    /\ stage' = "mode"
    /\ UNCHANGED <<todo, set_bits, connect_state, wireVars, acked, failed>>

\* No device is free: the lidar is not even started.
InfoChangeRefused(h) ==
    /\ h \notin registered
    /\ Cardinality(registered) >= Slots
    /\ Report(h)
    /\ UNCHANGED <<stage, todo, deviceVars, wireVars, acked, failed>>

\* The code takes the parameters in a fixed order; any order is allowed here.
SetParam(p) ==
    /\ stage = "config"
    /\ p \in todo
    /\ set_bits' = [set_bits EXCEPT ![subject] = @ \cup {p}]
    /\ sent' = More(sent, subject, p)
    /\ todo' = todo \ {p}
    /\ UNCHANGED <<registered, connect_state, stage, subject, lost, acked,
                   failed, infos>>

\* The mutex is released and the attitude sent, to the handle of the
\* configuration: that of a lidar without one is 0 and reaches no lidar.
SetAttitude ==
    /\ stage = "config"
    /\ todo = {}
    /\ stage' = "mode"
    /\ sent' = IF subject \in Configured THEN More(sent, subject, "attitude") ELSE sent
    /\ UNCHANGED <<deviceVars, subject, todo, lost, acked, failed, infos>>

SetWorkModeAndImu ==
    /\ stage = "mode"
    /\ stage' = "idle"
    /\ sent' = More(More(sent, subject, "workMode"), subject, "imu")
    /\ UNCHANGED <<deviceVars, subject, todo, lost, acked, failed, infos>>

(* The callbacks of the commands                                             *)

\* Fault: the bits are tested before this one is cleared.
ParamAckedStale(h, p) ==
    /\ sent[h][p] > 0
    /\ ~Locked
    /\ sent' = Fewer(sent, h, p)
    /\ set_bits' = [set_bits EXCEPT ![h] = @ \ {p}]
    /\ connect_state' = IF set_bits[h] = {}
                        THEN [connect_state EXCEPT ![h] = "Sampling"]
                        ELSE connect_state
    /\ acked' = [acked EXCEPT ![h] = @ \cup {p}]
    /\ UNCHANGED <<registered, lost, failed, infoVars>>

\* Success of a parameter: Set...Callback, under config_mutex_.
ParamAcked(h, p) ==
    /\ sent[h][p] > 0
    /\ ~Locked
    /\ sent' = Fewer(sent, h, p)
    /\ set_bits' = [set_bits EXCEPT ![h] = @ \ {p}]
    /\ connect_state' = IF set_bits'[h] = {}
                        THEN [connect_state EXCEPT ![h] = "Sampling"]
                        ELSE connect_state
    /\ acked' = [acked EXCEPT ![h] = @ \cup {p}]
    /\ UNCHANGED <<registered, lost, failed, infoVars>>

\* Success of any other command is only logged.
OtherAcked(h, c) ==
    /\ c \notin Param
    /\ sent[h][c] > 0
    /\ sent' = Fewer(sent, h, c)
    /\ acked' = [acked EXCEPT ![h] = @ \cup {c}]
    /\ UNCHANGED <<deviceVars, lost, failed, infoVars>>

\* Fault: no failure is tried again.
FailedForGood(h, c) ==
    /\ sent[h][c] > 0
    /\ sent' = Fewer(sent, h, c)
    /\ failed' = [failed EXCEPT ![h] = @ \cup {c}]
    /\ UNCHANGED <<deviceVars, lost, acked, infoVars>>

\* A failure is logged, and only WorkModeChangedCallback tries again.
Failed(h, c) ==
    /\ sent[h][c] > 0
    /\ sent' = IF c = "workMode" THEN sent ELSE Fewer(sent, h, c)
    /\ failed' = [failed EXCEPT ![h] = @ \cup {c}]
    /\ UNCHANGED <<deviceVars, lost, acked, infoVars>>

\* The command or its answer is lost on the network.
Lose(h, c) ==
    /\ sent[h][c] > 0
    /\ sent' = Fewer(sent, h, c)
    /\ lost' = More(lost, h, c)
    /\ UNCHANGED <<deviceVars, acked, failed, infoVars>>

\* Fault: a timeout is only logged.
TimedOutForGood(h, c) ==
    /\ lost[h][c] > 0
    /\ lost' = Fewer(lost, h, c)
    /\ UNCHANGED <<sent, deviceVars, acked, failed, infoVars>>

\* The SDK calls back with a timeout and no response.  The command is sent
\* again, except that EnableLivoxLidarImuDataCallback returns when there is no
\* response, before it looks at the status.
TimedOut(h, c) ==
    /\ lost[h][c] > 0
    /\ lost' = Fewer(lost, h, c)
    /\ sent' = IF c = "imu" THEN sent ELSE More(sent, h, c)
    /\ UNCHANGED <<deviceVars, acked, failed, infoVars>>

-----------------------------------------------------------------------------
InfoChange(h) == InfoChangeKnown(h) \/ InfoChangeUnknown(h) \/ InfoChangeRefused(h)

Sending == (\E p \in Param : SetParam(p)) \/ SetAttitude \/ SetWorkModeAndImu

Acked(h, c) == (c \in Param /\ ParamAcked(h, c)) \/ OtherAcked(h, c)

Next ==
    \/ \E h \in Handle : InfoChange(h)
    \/ Sending
    \/ \E h \in Handle, c \in Command :
          Acked(h, c) \/ Failed(h, c) \/ Lose(h, c) \/ TimedOut(h, c)

\* A callback that has begun runs to its end, a lost command times out, and a
\* command that is sent again and again is answered some time.  Nothing waits for
\* the attitude.
Fairness ==
    /\ WF_vars(Sending)
    /\ \A h \in Handle, c \in Command \ {"attitude"} :
          WF_vars(TimedOut(h, c)) /\ SF_vars(Acked(h, c))

Spec == Init /\ [][Next]_vars /\ Fairness

-----------------------------------------------------------------------------
(* Properties                                                                *)

\* Every variable has its type.
TypeOK ==
    /\ registered \subseteq Handle /\ Cardinality(registered) <= Slots
    /\ set_bits \in [Handle -> SUBSET Param]
    /\ connect_state \in [Handle -> {"Off", "Sampling"}]
    /\ stage \in {"idle", "config", "mode"}
    /\ subject \in Handle
    /\ todo \subseteq Param
    /\ sent \in [Handle -> [Command -> Nat]]
    /\ lost \in [Handle -> [Command -> Nat]]
    /\ acked \in [Handle -> SUBSET Command]
    /\ failed \in [Handle -> SUBSET Command]
    /\ infos \in [Handle -> 0 .. MaxInfo]

\* A lidar is Sampling, and its data published, only after every parameter of
\* its configuration has been acknowledged at least once, whatever was lost,
\* failed, answered early or answered for an earlier report.
SamplingIsConfigured ==
    \A h \in Handle : connect_state[h] = "Sampling" => ConfigParams(h) \subseteq acked[h]

\* A bit that keeps a lidar from Sampling has a command that may still clear
\* it, unless one has failed.
BitsOutstanding ==
    \A h \in Handle : \A p \in set_bits[h] :
        sent[h][p] + lost[h][p] > 0 \/ p \in failed[h]

\* A reported lidar of the configuration file that gives it a parameter ends up
\* Sampling unless it refuses a parameter.
ReachesSampling ==
    \A h \in Configured :
        (infos[h] > 0 /\ UserParams[h] # {})
            ~> (connect_state[h] = "Sampling" \/ failed[h] \cap Param # {})

\* A reported lidar that has a device, of the configuration file or not, ends
\* up in the normal work mode: every outcome but success is tried again.
ReachesNormalMode ==
    \A h \in Handle :
        (infos[h] > 0 /\ h \in registered) ~> ("workMode" \in acked[h])

\* What livox_lidar_callback.cpp:55 says of the parameters a lidar is sent:
\* they are set "according to the user-defined config".
ParamsAreUserDefined ==
    \A h \in Handle : \A p \in Param :
        sent[h][p] > 0 => h \in Configured /\ p \in UserParams[h]

\* What livox_lidar_callback.cpp:309 says of a timeout of the IMU command: "try
\* again...".  A lidar that was told to send IMU data answers some time.
ImuIsAnswered ==
    \A h \in Handle :
        (sent[h]["imu"] > 0) ~> ("imu" \in acked[h] \cup failed[h])
=============================================================================
