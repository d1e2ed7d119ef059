-------------------------- MODULE DeviceConfigProofs --------------------------
(* Lidars are declared Sampling only when they are configured, for any number *)
(* of lidars, parameters, devices and reports.                                *)
EXTENDS DeviceConfig, FiniteSetTheorems, TLAPS

-----------------------------------------------------------------------------
(* The inductive invariant                                                   *)

\* Parameters of h that LidarInfoChangeCallback has still to set.
InHand(h) == IF stage = "config" /\ subject = h THEN todo ELSE {}

\* The callback is about to send h its parameters, or one is on its way, either
\* way or lost.
Underway(h) ==
    \/ stage = "config" /\ subject = h
    \/ \E p \in Param : sent[h][p] > 0 \/ lost[h][p] > 0

\* Each parameter of such a lidar has been acknowledged, has its bit set or is
\* yet to be sent by the callback.  The last is over when an acknowledgement
\* gets config_mutex_.
EachAccountedFor ==
    \A h \in Handle :
        Underway(h) => ConfigParams(h) \subseteq acked[h] \cup set_bits[h] \cup InHand(h)

ConfigIInv == TypeOK /\ EachAccountedFor /\ SamplingIsConfigured /\ BitsOutstanding

-----------------------------------------------------------------------------
(* Commands on the wire                                                      *)

\* One more command changes one entry.
LEMMA MoreAt ==
    ASSUME NEW wire \in [Handle -> [Command -> Nat]], NEW h \in Handle, NEW c \in Command
    PROVE  /\ More(wire, h, c) \in [Handle -> [Command -> Nat]]
           /\ \A g \in Handle, d \in Command :
                 More(wire, h, c)[g][d] =
                     IF g = h /\ d = c THEN wire[g][d] + 1 ELSE wire[g][d]
  BY DEF More

\* So does one fewer, of commands there are.
LEMMA FewerAt ==
    ASSUME NEW wire \in [Handle -> [Command -> Nat]], NEW h \in Handle, NEW c \in Command,
           wire[h][c] > 0
    PROVE  /\ Fewer(wire, h, c) \in [Handle -> [Command -> Nat]]
           /\ \A g \in Handle, d \in Command :
                 Fewer(wire, h, c)[g][d] =
                     IF g = h /\ d = c THEN wire[g][d] - 1 ELSE wire[g][d]
  BY DEF Fewer

\* The parameters of a lidar, and commands that are none.
LEMMA CommandKinds ==
    /\ Param \subseteq Command
    /\ {"attitude", "workMode", "imu"} \subseteq Command \ Param
    /\ \A h \in Handle : ConfigParams(h) \subseteq Param
  BY ConfigAssumption DEF Command, ConfigParams, Configured

\* Commands that are no parameters leave those of the parameters alone.
LEMMA OthersApart ==
    ASSUME NEW wire \in [Handle -> [Command -> Nat]], NEW h \in Handle,
           NEW c \in Command \ Param
    PROVE  /\ More(wire, h, c) \in [Handle -> [Command -> Nat]]
           /\ \A g \in Handle, p \in Param : More(wire, h, c)[g][p] = wire[g][p]
           /\ wire[h][c] > 0 =>
                 /\ Fewer(wire, h, c) \in [Handle -> [Command -> Nat]]
                 /\ \A g \in Handle, p \in Param : Fewer(wire, h, c)[g][p] = wire[g][p]
<1>1. \A p \in Param : p \in Command /\ p # c
  BY CommandKinds
<1>2. More(wire, h, c) \in [Handle -> [Command -> Nat]]
  BY MoreAt
<1>3. ASSUME NEW g \in Handle, NEW p \in Param
      PROVE  More(wire, h, c)[g][p] = wire[g][p]
  BY <1>1, MoreAt
<1>4. ASSUME wire[h][c] > 0
      PROVE  /\ Fewer(wire, h, c) \in [Handle -> [Command -> Nat]]
             /\ \A g \in Handle, p \in Param : Fewer(wire, h, c)[g][p] = wire[g][p]
  BY <1>1, <1>4, FewerAt
<1> QED
  BY <1>2, <1>3, <1>4

\* Before the first report.
LEMMA InitConfigIInv == Init => ConfigIInv
<1> SUFFICES ASSUME Init
             PROVE  ConfigIInv
  OBVIOUS
<1>1. \A h \in Handle, c \in Command : sent[h][c] = 0 /\ lost[h][c] = 0
  BY DEF Init, Quiet
<1>2. TypeOK
  <2>1. IsFiniteSet(Configured) /\ Cardinality(Configured) <= Slots
    BY ConfigAssumption, FS_Subset
  <2> QED
    BY <2>1, ConfigAssumption DEF Init, TypeOK, Quiet
<1>3. EachAccountedFor
  BY <1>1, CommandKinds DEF Init, EachAccountedFor, Underway
<1>4. SamplingIsConfigured /\ BitsOutstanding
  BY DEF Init, SamplingIsConfigured, BitsOutstanding
<1> QED
  BY <1>2, <1>3, <1>4 DEF ConfigIInv

-----------------------------------------------------------------------------
(* LidarInfoChangeCallback                                                   *)

\* A report of a lidar that has a device.
LEMMA KnownStep ==
    ASSUME ConfigIInv, NEW h \in Handle, InfoChangeKnown(h)
    PROVE  ConfigIInv'
<1>1. TypeOK'
  <2>1. ConfigParams(h) \subseteq Param
    BY CommandKinds
  <2>2. infos' \in [Handle -> 0 .. MaxInfo]
    BY ConfigAssumption DEF ConfigIInv, TypeOK, InfoChangeKnown, Report
  <2> QED
    BY <2>1, <2>2 DEF ConfigIInv, TypeOK, InfoChangeKnown, Report, deviceVars, wireVars
<1>2. EachAccountedFor'
  BY CommandKinds DEF ConfigIInv, TypeOK, EachAccountedFor, Underway, InHand,
        ConfigParams, InfoChangeKnown, Report, deviceVars, wireVars
<1>3. SamplingIsConfigured' /\ BitsOutstanding'
  BY DEF ConfigIInv, SamplingIsConfigured, BitsOutstanding, ConfigParams,
         InfoChangeKnown, Report, deviceVars, wireVars
<1> QED
  BY <1>1, <1>2, <1>3 DEF ConfigIInv

\* A report of one that has none.
LEMMA UnknownStep ==
    ASSUME ConfigIInv, NEW h \in Handle, InfoChangeUnknown(h) \/ InfoChangeRefused(h)
    PROVE  ConfigIInv'
<1>1. registered' \subseteq Handle /\ Cardinality(registered') <= Slots
  <2>1. IsFiniteSet(registered) /\ Cardinality(registered) \in Nat
    BY ConfigAssumption, FS_Subset, FS_CardinalityType DEF ConfigIInv, TypeOK
  <2>2. h \notin registered => Cardinality(registered \cup {h}) = Cardinality(registered) + 1
    BY <2>1, FS_AddElement
  <2>3. CASE InfoChangeUnknown(h)
    <3>1. registered' = registered \cup {h} /\ h \notin registered
          /\ Cardinality(registered) < Slots
      BY <2>3 DEF InfoChangeUnknown
    <3>2. Cardinality(registered') = Cardinality(registered) + 1
      BY <3>1, <2>2
    <3>3. Slots \in Nat
      BY ConfigAssumption
    <3> QED
      BY <3>1, <3>2, <3>3, <2>1 DEF ConfigIInv, TypeOK
  <2>4. CASE InfoChangeRefused(h)
    BY <2>4 DEF ConfigIInv, TypeOK, InfoChangeRefused, deviceVars
  <2> QED
    BY <2>3, <2>4
<1>2. /\ stage = "idle" /\ stage' \in {"idle", "mode"} /\ todo' = todo
      /\ subject' = h /\ infos' \in [Handle -> 0 .. MaxInfo]
      /\ UNCHANGED <<set_bits, connect_state, sent, lost, acked, failed>>
  <2>1. infos' \in [Handle -> 0 .. MaxInfo]
    BY ConfigAssumption
       DEF ConfigIInv, TypeOK, InfoChangeUnknown, InfoChangeRefused, Report
  <2> QED
    BY <2>1 DEF InfoChangeUnknown, InfoChangeRefused, Report, deviceVars, wireVars
<1>3. TypeOK'
  BY <1>1, <1>2 DEF ConfigIInv, TypeOK
<1>4. EachAccountedFor' /\ SamplingIsConfigured' /\ BitsOutstanding'
  BY <1>2 DEF ConfigIInv, EachAccountedFor, SamplingIsConfigured, BitsOutstanding,
              Underway, InHand, ConfigParams
<1> QED
  BY <1>3, <1>4 DEF ConfigIInv

\* A parameter changes from being in hand to having a bit and a command.
LEMMA SetParamStep ==
    ASSUME ConfigIInv, NEW p \in Param, SetParam(p)
    PROVE  ConfigIInv'
<1>1. p \in Command /\ subject \in Handle /\ sent \in [Handle -> [Command -> Nat]]
  BY CommandKinds DEF ConfigIInv, TypeOK
<1>2. /\ sent' \in [Handle -> [Command -> Nat]]
      /\ \A g \in Handle, d \in Command :
            sent'[g][d] = IF g = subject /\ d = p THEN sent[g][d] + 1 ELSE sent[g][d]
  BY <1>1, MoreAt DEF SetParam
<1>3. /\ set_bits' \in [Handle -> SUBSET Param]
      /\ \A g \in Handle :
            set_bits'[g] = IF g = subject THEN set_bits[g] \cup {p} ELSE set_bits[g]
  BY DEF ConfigIInv, TypeOK, SetParam
<1>4. TypeOK'
  BY <1>2, <1>3 DEF ConfigIInv, TypeOK, SetParam
<1>5. EachAccountedFor'
  <2> SUFFICES ASSUME NEW h \in Handle, Underway(h)'
               PROVE  ConfigParams(h) \subseteq (acked[h] \cup set_bits[h] \cup InHand(h))'
    BY DEF EachAccountedFor, ConfigParams
  <2>1. CASE h = subject
    BY <2>1, <1>3, CommandKinds DEF ConfigIInv, EachAccountedFor, Underway, InHand, SetParam
  <2>2. CASE h # subject
    <3>1. Underway(h)
      BY <2>2, <1>2, CommandKinds DEF Underway, SetParam
    <3> QED
      BY <2>2, <3>1, <1>3 DEF ConfigIInv, EachAccountedFor, InHand, SetParam
  <2> QED
    BY <2>1, <2>2
<1>6. SamplingIsConfigured'
  BY DEF ConfigIInv, SamplingIsConfigured, ConfigParams, SetParam
<1>7. BitsOutstanding'
  BY <1>2, <1>3, CommandKinds DEF ConfigIInv, TypeOK, BitsOutstanding, SetParam
<1> QED
  BY <1>4, <1>5, <1>6, <1>7 DEF ConfigIInv

\* The other commands are no parameters; when the mutex is released nothing is
\* in hand.
LEMMA SendOthersStep ==
    ASSUME ConfigIInv, SetAttitude \/ SetWorkModeAndImu
    PROVE  ConfigIInv'
<1>1. subject \in Handle /\ sent \in [Handle -> [Command -> Nat]]
  BY DEF ConfigIInv, TypeOK
<1>2. {"attitude", "workMode", "imu"} \subseteq Command \ Param
  BY CommandKinds
<1>3. /\ sent' \in [Handle -> [Command -> Nat]]
      /\ \A g \in Handle, p \in Param : sent'[g][p] = sent[g][p]
  <2>1. CASE SetAttitude
    <3>1. sent' = sent \/ sent' = More(sent, subject, "attitude")
      BY <2>1 DEF SetAttitude
    <3>2. "attitude" \in Command \ Param
      BY <1>2
    <3> QED
      BY <1>1, <3>1, <3>2, OthersApart
  <2>2. CASE SetWorkModeAndImu
    <3> DEFINE mode == More(sent, subject, "workMode")
    <3>1. /\ mode \in [Handle -> [Command -> Nat]]
          /\ \A g \in Handle, p \in Param : mode[g][p] = sent[g][p]
      <4>1. "workMode" \in Command \ Param
        BY <1>2
      <4> QED
        BY <1>1, <4>1, OthersApart
    <3>2. sent' = More(mode, subject, "imu")
      BY <2>2 DEF SetWorkModeAndImu
    <3> HIDE DEF mode
    <3>3. /\ More(mode, subject, "imu") \in [Handle -> [Command -> Nat]]
          /\ \A g \in Handle, p \in Param : More(mode, subject, "imu")[g][p] = mode[g][p]
      <4>1. "imu" \in Command \ Param
        BY <1>2
      <4> QED
        BY <3>1, <1>1, <4>1, OthersApart
    <3> QED
      BY <3>1, <3>2, <3>3
  <2> QED
    BY <2>1, <2>2
<1>4. TypeOK'
  BY <1>3 DEF ConfigIInv, TypeOK, SetAttitude, SetWorkModeAndImu, deviceVars
<1>5. EachAccountedFor'
  BY <1>3 DEF ConfigIInv, EachAccountedFor, Underway, InHand, ConfigParams, SetAttitude,
              SetWorkModeAndImu, deviceVars
<1>6. SamplingIsConfigured' /\ BitsOutstanding'
  BY <1>3 DEF ConfigIInv, TypeOK, SamplingIsConfigured, BitsOutstanding, ConfigParams,
              SetAttitude, SetWorkModeAndImu, deviceVars
<1> QED
  BY <1>4, <1>5, <1>6 DEF ConfigIInv

-----------------------------------------------------------------------------
(* The callbacks of the commands                                             *)

\* Without the mutex held, nothing is in hand when a bit is cleared: if it was
\* the last, every parameter has been acknowledged.
LEMMA ParamAckedStep ==
    ASSUME ConfigIInv, NEW h \in Handle, NEW p \in Param, ParamAcked(h, p)
    PROVE  ConfigIInv'
<1>1. p \in Command /\ sent \in [Handle -> [Command -> Nat]] /\ sent[h][p] > 0
  BY CommandKinds DEF ConfigIInv, TypeOK, ParamAcked
<1>2. /\ sent' \in [Handle -> [Command -> Nat]]
      /\ \A g \in Handle, d \in Command :
            sent'[g][d] = IF g = h /\ d = p THEN sent[g][d] - 1 ELSE sent[g][d]
  BY <1>1, FewerAt DEF ParamAcked
<1>3. /\ set_bits' \in [Handle -> SUBSET Param] /\ acked' \in [Handle -> SUBSET Command]
      /\ \A g \in Handle :
            /\ set_bits'[g] = IF g = h THEN set_bits[g] \ {p} ELSE set_bits[g]
            /\ acked'[g] = IF g = h THEN acked[g] \cup {p} ELSE acked[g]
  BY <1>1 DEF ConfigIInv, TypeOK, ParamAcked
<1>4. /\ connect_state' \in [Handle -> {"Off", "Sampling"}]
      /\ \A g \in Handle : connect_state'[g] = "Sampling" =>
            connect_state[g] = "Sampling" \/ (g = h /\ set_bits'[h] = {})
  BY DEF ConfigIInv, TypeOK, ParamAcked
<1>5. stage # "config" /\ UNCHANGED <<registered, lost, failed, stage, subject, todo, infos>>
  BY DEF ParamAcked, Locked, infoVars
<1>6. TypeOK'
  BY <1>2, <1>3, <1>4, <1>5 DEF ConfigIInv, TypeOK
<1>7. EachAccountedFor'
  <2> SUFFICES ASSUME NEW g \in Handle, Underway(g)'
               PROVE  ConfigParams(g) \subseteq (acked[g] \cup set_bits[g] \cup InHand(g))'
    BY DEF EachAccountedFor, ConfigParams
  <2>1. Underway(g)
    BY <1>1, <1>2, <1>5, CommandKinds DEF Underway, ConfigIInv, TypeOK
  <2>2. ConfigParams(g) \subseteq acked[g] \cup set_bits[g]
    BY <2>1, <1>5 DEF ConfigIInv, EachAccountedFor, InHand
  <2> QED
    BY <2>2, <1>3, <1>5 DEF InHand
<1>8. SamplingIsConfigured'
  <2>1. ConfigParams(h) \subseteq acked[h] \cup set_bits[h]
    BY <1>1, <1>5 DEF ConfigIInv, EachAccountedFor, Underway, InHand
  <2>2. set_bits'[h] = {} => ConfigParams(h) \subseteq acked'[h]
    BY <2>1, <1>3
  <2> QED
    BY <2>2, <1>3, <1>4 DEF ConfigIInv, SamplingIsConfigured, ConfigParams
<1>9. BitsOutstanding'
  <2> SUFFICES ASSUME NEW g \in Handle, NEW q \in set_bits'[g]
               PROVE  sent'[g][q] + lost[g][q] > 0 \/ q \in failed[g]
    BY <1>5 DEF BitsOutstanding
  <2>1. q \in set_bits[g] /\ ~(g = h /\ q = p)
    BY <1>3
  <2>2. q \in Command
    BY <2>1, CommandKinds DEF ConfigIInv, TypeOK
  <2>3. sent'[g][q] = sent[g][q]
    BY <1>2, <2>1, <2>2
  <2> QED
    BY <2>1, <2>3 DEF ConfigIInv, BitsOutstanding
<1> QED
  BY <1>6, <1>7, <1>8, <1>9 DEF ConfigIInv

\* Success of another command changes no parameter's fate.
LEMMA OtherAckedStep ==
    ASSUME ConfigIInv, NEW h \in Handle, NEW c \in Command, OtherAcked(h, c)
    PROVE  ConfigIInv'
<1>1. sent \in [Handle -> [Command -> Nat]] /\ sent[h][c] > 0 /\ c \notin Param
  BY DEF ConfigIInv, TypeOK, OtherAcked
<1>2. /\ sent' \in [Handle -> [Command -> Nat]]
      /\ \A g \in Handle, p \in Param : sent'[g][p] = sent[g][p]
  BY <1>1, OthersApart DEF OtherAcked
<1>3. /\ acked' \in [Handle -> SUBSET Command]
      /\ \A g \in Handle : acked[g] \subseteq acked'[g]
  BY DEF ConfigIInv, TypeOK, OtherAcked
<1>4. UNCHANGED <<registered, set_bits, connect_state, lost, failed, stage, subject, todo, infos>>
  BY DEF OtherAcked, deviceVars, infoVars
<1>5. TypeOK'
  BY <1>2, <1>3, <1>4 DEF ConfigIInv, TypeOK
<1>6. EachAccountedFor'
  <2> SUFFICES ASSUME NEW g \in Handle, Underway(g)'
               PROVE  ConfigParams(g) \subseteq (acked[g] \cup set_bits[g] \cup InHand(g))'
    BY DEF EachAccountedFor, ConfigParams
  <2>1. Underway(g)
    BY <1>2, <1>4 DEF Underway
  <2> QED
    BY <2>1, <1>3, <1>4 DEF ConfigIInv, EachAccountedFor, InHand
<1>7. SamplingIsConfigured' /\ BitsOutstanding'
  BY <1>2, <1>3, <1>4 DEF ConfigIInv, TypeOK, SamplingIsConfigured, BitsOutstanding, ConfigParams
<1> QED
  BY <1>5, <1>6, <1>7 DEF ConfigIInv

\* A failure leaves the bit of a parameter that has failed.
LEMMA FailedStep ==
    ASSUME ConfigIInv, NEW h \in Handle, NEW c \in Command, Failed(h, c)
    PROVE  ConfigIInv'
<1>1. sent \in [Handle -> [Command -> Nat]] /\ sent[h][c] > 0
  BY DEF ConfigIInv, TypeOK, Failed
<1>2. /\ sent' \in [Handle -> [Command -> Nat]]
      /\ \A g \in Handle, d \in Command :
            /\ sent'[g][d] <= sent[g][d]
            /\ ~(g = h /\ d = c) => sent'[g][d] = sent[g][d]
  BY <1>1, FewerAt DEF Failed
<1>3. /\ failed' \in [Handle -> SUBSET Command]
      /\ \A g \in Handle : failed[g] \subseteq failed'[g]
      /\ c \in failed'[h]
  BY DEF ConfigIInv, TypeOK, Failed
<1>4. UNCHANGED <<registered, set_bits, connect_state, lost, acked, stage, subject, todo, infos>>
  BY DEF Failed, deviceVars, infoVars
<1>5. TypeOK'
  BY <1>2, <1>3, <1>4 DEF ConfigIInv, TypeOK
<1>6. EachAccountedFor'
  <2> SUFFICES ASSUME NEW g \in Handle, Underway(g)'
               PROVE  ConfigParams(g) \subseteq (acked[g] \cup set_bits[g] \cup InHand(g))'
    BY DEF EachAccountedFor, ConfigParams
  <2>1. \A p \in Param : sent'[g][p] > 0 => sent[g][p] > 0
    BY <1>1, <1>2, CommandKinds
  <2>2. Underway(g)
    BY <2>1, <1>4 DEF Underway
  <2> QED
    BY <2>2, <1>4 DEF ConfigIInv, EachAccountedFor, InHand
<1>7. SamplingIsConfigured'
  BY <1>4 DEF ConfigIInv, SamplingIsConfigured, ConfigParams
<1>8. BitsOutstanding'
  <2> SUFFICES ASSUME NEW g \in Handle, NEW p \in set_bits[g]
               PROVE  sent'[g][p] + lost[g][p] > 0 \/ p \in failed'[g]
    BY <1>4 DEF BitsOutstanding
  <2>1. p \in Command
    BY CommandKinds DEF ConfigIInv, TypeOK
  <2>2. sent[g][p] + lost[g][p] > 0 \/ p \in failed[g]
    BY DEF ConfigIInv, BitsOutstanding
  <2> QED
    BY <2>1, <2>2, <1>2, <1>3
<1> QED
  BY <1>5, <1>6, <1>7, <1>8 DEF ConfigIInv

\* A command of a parameter that is lost, or sent again, stays on its way.
LEMMA WireStep ==
    ASSUME ConfigIInv, NEW h \in Handle, NEW c \in Command, Lose(h, c) \/ TimedOut(h, c)
    PROVE  ConfigIInv'
<1>1. sent \in [Handle -> [Command -> Nat]] /\ lost \in [Handle -> [Command -> Nat]]
  BY DEF ConfigIInv, TypeOK
<1>2. /\ sent' \in [Handle -> [Command -> Nat]] /\ lost' \in [Handle -> [Command -> Nat]]
      /\ \A g \in Handle, p \in Param : sent'[g][p] + lost'[g][p] = sent[g][p] + lost[g][p]
  <2>1. CASE Lose(h, c)
    <3>1. sent[h][c] > 0 /\ sent' = Fewer(sent, h, c) /\ lost' = More(lost, h, c)
      BY <2>1 DEF Lose
    <3>2. /\ sent' \in [Handle -> [Command -> Nat]]
          /\ \A g \in Handle, d \in Command :
                sent'[g][d] = IF g = h /\ d = c THEN sent[g][d] - 1 ELSE sent[g][d]
      BY <1>1, <3>1, FewerAt
    <3>3. /\ lost' \in [Handle -> [Command -> Nat]]
          /\ \A g \in Handle, d \in Command :
                lost'[g][d] = IF g = h /\ d = c THEN lost[g][d] + 1 ELSE lost[g][d]
      BY <1>1, <3>1, MoreAt
    <3> QED
      BY <1>1, <3>2, <3>3, CommandKinds
  <2>2. CASE TimedOut(h, c)
    <3>1. lost[h][c] > 0 /\ lost' = Fewer(lost, h, c)
      BY <2>2 DEF TimedOut
    <3>2. /\ lost' \in [Handle -> [Command -> Nat]]
          /\ \A g \in Handle, d \in Command :
                lost'[g][d] = IF g = h /\ d = c THEN lost[g][d] - 1 ELSE lost[g][d]
      BY <1>1, <3>1, FewerAt
    <3>3. CASE c = "imu"
      <4>1. sent' = sent /\ c \notin Param
        BY <2>2, <3>3, CommandKinds DEF TimedOut
      <4>2. \A g \in Handle, p \in Param : lost'[g][p] = lost[g][p]
        <5>1. c \in Command \ Param
          BY <4>1
        <5>2. \A g \in Handle, p \in Param : Fewer(lost, h, c)[g][p] = lost[g][p]
          BY <1>1, <3>1, <5>1, OthersApart
        <5> QED
          BY <3>1, <5>2
      <4> QED
        BY <4>1, <4>2, <1>1, <3>2
    <3>4. CASE c # "imu"
      <4>1. sent' = More(sent, h, c)
        BY <2>2, <3>4 DEF TimedOut
      <4>2. /\ sent' \in [Handle -> [Command -> Nat]]
            /\ \A g \in Handle, d \in Command :
                  sent'[g][d] = IF g = h /\ d = c THEN sent[g][d] + 1 ELSE sent[g][d]
        <5>1. sent \in [Handle -> [Command -> Nat]]
          BY <1>1
        <5>2. /\ More(sent, h, c) \in [Handle -> [Command -> Nat]]
              /\ \A g \in Handle, d \in Command :
                    More(sent, h, c)[g][d] =
                        IF g = h /\ d = c THEN sent[g][d] + 1 ELSE sent[g][d]
          BY <5>1, MoreAt
        <5> QED
          BY <4>1, <5>2
      <4>3. \A g \in Handle, d \in Command : sent'[g][d] + lost'[g][d] = sent[g][d] + lost[g][d]
        <5> SUFFICES ASSUME NEW g \in Handle, NEW d \in Command
                     PROVE  sent'[g][d] + lost'[g][d] = sent[g][d] + lost[g][d]
          OBVIOUS
        <5>1. sent[g][d] \in Nat /\ lost[g][d] \in Nat
          BY <1>1
        <5>2. CASE g = h /\ d = c
          <6>1. sent'[g][d] = sent[g][d] + 1
            BY <5>2, <4>2
          <6>2. lost'[g][d] = lost[g][d] - 1
            BY <5>2, <3>2
          <6> QED
            BY <5>1, <6>1, <6>2
        <5>3. CASE ~(g = h /\ d = c)
          <6>1. sent'[g][d] = sent[g][d]
            BY <5>3, <4>2
          <6>2. lost'[g][d] = lost[g][d]
            BY <5>3, <3>2
          <6> QED
            BY <6>1, <6>2
        <5> QED
          BY <5>2, <5>3
      <4>4. \A p \in Param : p \in Command
        BY CommandKinds
      <4> QED
        BY <4>2, <4>3, <4>4, <3>2
    <3> QED
      BY <3>3, <3>4
  <2> QED
    BY <2>1, <2>2
<1>3. UNCHANGED <<registered, set_bits, connect_state, acked, failed, stage, subject, todo, infos>>
  BY DEF Lose, TimedOut, deviceVars, infoVars
<1>4. TypeOK'
  BY <1>2, <1>3 DEF ConfigIInv, TypeOK
<1>5. EachAccountedFor'
  <2> SUFFICES ASSUME NEW g \in Handle, Underway(g)'
               PROVE  ConfigParams(g) \subseteq (acked[g] \cup set_bits[g] \cup InHand(g))'
    BY DEF EachAccountedFor, ConfigParams
  <2>1. \A p \in Param : sent'[g][p] > 0 \/ lost'[g][p] > 0 => sent[g][p] > 0 \/ lost[g][p] > 0
    BY <1>1, <1>2, CommandKinds
  <2>2. Underway(g)
    BY <2>1, <1>3 DEF Underway
  <2> QED
    BY <2>2, <1>3 DEF ConfigIInv, EachAccountedFor, InHand
<1>6. SamplingIsConfigured' /\ BitsOutstanding'
  BY <1>2, <1>3 DEF ConfigIInv, TypeOK, SamplingIsConfigured, BitsOutstanding, ConfigParams
<1> QED
  BY <1>4, <1>5, <1>6 DEF ConfigIInv

-----------------------------------------------------------------------------
(* The theorems                                                              *)

\* Every step keeps the invariant.
LEMMA ConfigNextStep == ConfigIInv /\ [Next]_vars => ConfigIInv'
<1> SUFFICES ASSUME ConfigIInv, [Next]_vars
             PROVE  ConfigIInv'
  OBVIOUS
<1>1. ASSUME NEW h \in Handle, InfoChange(h)
      PROVE  ConfigIInv'
  BY <1>1, KnownStep, UnknownStep DEF InfoChange
<1>2. CASE Sending
  BY <1>2, SetParamStep, SendOthersStep DEF Sending
<1>3. ASSUME NEW h \in Handle, NEW c \in Command,
             Acked(h, c) \/ Failed(h, c) \/ Lose(h, c) \/ TimedOut(h, c)
      PROVE  ConfigIInv'
  BY <1>3, ParamAckedStep, OtherAckedStep, FailedStep, WireStep DEF Acked
<1>4. CASE UNCHANGED vars
  BY <1>4 DEF vars, ConfigIInv, TypeOK, EachAccountedFor, Underway, InHand, ConfigParams,
              SamplingIsConfigured, BitsOutstanding
<1> QED
  BY <1>1, <1>2, <1>3, <1>4 DEF Next

\* The invariant holds for any number of lidars, parameters and reports.
THEOREM ConfigInvariance == Spec => []ConfigIInv
  BY InitConfigIInv, ConfigNextStep, PTL DEF Spec

\* Every variable has its type; in particular no more lidars are given a device
\* than there are devices, however many are discovered.
THEOREM ConfigTypes == Spec => []TypeOK
<1>1. ConfigIInv => TypeOK
  BY DEF ConfigIInv
<1> QED
  BY <1>1, ConfigInvariance, PTL

\* A lidar is Sampling only after each of its parameters was acknowledged,
\* whatever was lost, refused, answered early or answered for an older report.
THEOREM SamplingConfigured == Spec => []SamplingIsConfigured
<1>1. ConfigIInv => SamplingIsConfigured
  BY DEF ConfigIInv
<1> QED
  BY <1>1, ConfigInvariance, PTL

\* A bit that keeps a lidar from Sampling may still be cleared, unless its
\* parameter was refused.
THEOREM BitsClearable == Spec => []BitsOutstanding
<1>1. ConfigIInv => BitsOutstanding
  BY DEF ConfigIInv
<1> QED
  BY <1>1, ConfigInvariance, PTL

-----------------------------------------------------------------------------
(* What keeps a lidar from Sampling, or from its work mode, will see to it   *)

\* A lidar that is to get parameters was registered before its first report.
\* From then on, until it is Sampling, it has a parameter in hand or a bit set.
OffHasABit ==
    /\ Configured \subseteq registered
    /\ \A h \in Configured :
          (infos[h] > 0 /\ UserParams[h] # {} /\ connect_state[h] = "Off")
              => set_bits[h] # {} \/ InHand(h) # {}

\* The safety behind ReachesSampling: a reported lidar that has parameters and
\* refused none is Sampling, or the callback has a parameter yet to send it, or a
\* bit has its command on the way or about to be sent again.
SamplingOnItsWay ==
    \A h \in Configured :
        (infos[h] > 0 /\ UserParams[h] # {} /\ failed[h] \cap Param = {})
            => \/ connect_state[h] = "Sampling"
               \/ InHand(h) # {}
               \/ \E p \in set_bits[h] : sent[h][p] + lost[h][p] > 0

\* That behind ReachesNormalMode: a reported lidar with a device was set to its
\* work mode, or the command is on its way or about to be sent, for the first
\* time or again.
ModeOnItsWay ==
    \A h \in registered :
        infos[h] > 0 => \/ "workMode" \in acked[h]
                        \/ stage # "idle" /\ subject = h
                        \/ sent[h]["workMode"] + lost[h]["workMode"] > 0

-----------------------------------------------------------------------------
(* A lidar that is not Sampling yet always has a reason to become it         *)

\* Reports of a lidar that has a device put its parameters in hand.
LEMMA InfoChangeOff ==
    ASSUME ConfigIInv, OffHasABit, NEW h \in Handle, InfoChange(h)
    PROVE  OffHasABit'
<1>1. /\ stage = "idle" /\ subject' = h
      /\ \A g \in Handle \ {h} : infos'[g] = infos[g]
      /\ UNCHANGED <<set_bits, connect_state>>
  BY DEF InfoChange, InfoChangeKnown, InfoChangeUnknown, InfoChangeRefused, Report,
         deviceVars, ConfigIInv, TypeOK
<1>2. registered \subseteq registered'
  BY DEF InfoChange, InfoChangeKnown, InfoChangeUnknown, InfoChangeRefused, deviceVars
<1>3. h \in Configured => stage' = "config" /\ todo' = UserParams[h]
  BY DEF OffHasABit, InfoChange, InfoChangeKnown, InfoChangeUnknown, InfoChangeRefused,
         ConfigParams
<1>4. \A g \in Configured : g \in Handle
  BY ConfigAssumption
<1>5. ASSUME NEW g \in Configured, infos'[g] > 0, UserParams[g] # {},
             connect_state'[g] = "Off"
      PROVE  set_bits'[g] # {} \/ InHand(g)' # {}
  <2>1. CASE g = h
    BY <2>1, <1>1, <1>3, <1>5 DEF InHand
  <2>2. CASE g # h
    <3>1. InHand(g) = {}
      BY <1>1 DEF InHand
    <3>2. infos[g] > 0 /\ connect_state[g] = "Off"
      BY <1>1, <1>4, <1>5, <2>2
    <3> QED
      BY <1>1, <1>5, <3>1, <3>2 DEF OffHasABit
  <2> QED
    BY <2>1, <2>2
<1> QED
  BY <1>2, <1>5 DEF OffHasABit

\* A parameter is in hand until its bit is set.
LEMMA SendingOff ==
    ASSUME ConfigIInv, OffHasABit, Sending
    PROVE  OffHasABit'
<1>1. CASE \E p \in Param : SetParam(p)
  <2>1. PICK p \in Param : SetParam(p)
    BY <1>1
  <2>2. /\ stage = "config" /\ stage' = stage /\ subject' = subject
        /\ \A g \in Handle : set_bits'[g] = IF g = subject THEN set_bits[g] \cup {p}
                                                          ELSE set_bits[g]
        /\ UNCHANGED <<registered, connect_state, infos>>
    BY <2>1 DEF SetParam, ConfigIInv, TypeOK
  <2>3. \A g \in Configured : g \in Handle
    BY ConfigAssumption
  <2>4. ASSUME NEW g \in Configured, set_bits[g] # {} \/ InHand(g) # {}
        PROVE  set_bits'[g] # {} \/ InHand(g)' # {}
    <3>1. CASE g = subject
      BY <2>2, <2>3, <3>1
    <3>2. CASE g # subject
      BY <2>2, <2>3, <2>4, <3>2 DEF InHand
    <3> QED
      BY <3>1, <3>2
  <2> QED
    BY <2>2, <2>4 DEF OffHasABit
<1>2. CASE SetAttitude \/ SetWorkModeAndImu
  <2>1. UNCHANGED <<registered, set_bits, connect_state, infos>>
    BY <1>2 DEF SetAttitude, SetWorkModeAndImu, deviceVars
  <2>2. \A g \in Configured : InHand(g) = {}
    BY <1>2 DEF SetAttitude, SetWorkModeAndImu, InHand
  <2> QED
    BY <2>1, <2>2 DEF OffHasABit
<1> QED
  BY <1>1, <1>2 DEF Sending

\* The acknowledgement that clears the last bit makes its lidar Sampling; no
\* other callback clears one.
LEMMA CallbackOff ==
    ASSUME ConfigIInv, OffHasABit, NEW h \in Handle, NEW c \in Command,
           Acked(h, c) \/ Failed(h, c) \/ Lose(h, c) \/ TimedOut(h, c)
    PROVE  OffHasABit'
<1>1. CASE c \in Param /\ ParamAcked(h, c)
  <2>1. /\ \A g \in Handle \ {h} : set_bits'[g] = set_bits[g]
                                   /\ connect_state'[g] = connect_state[g]
        /\ set_bits'[h] = {} => connect_state'[h] = "Sampling"
        /\ UNCHANGED <<registered, stage, subject, todo, infos>>
    BY <1>1 DEF ParamAcked, infoVars, ConfigIInv, TypeOK
  <2>2. \A g \in Configured : g \in Handle
    BY ConfigAssumption
  <2>3. ASSUME NEW g \in Configured, infos'[g] > 0, UserParams[g] # {},
               connect_state'[g] = "Off"
        PROVE  set_bits'[g] # {} \/ InHand(g)' # {}
    <3>1. CASE g = h
      BY <2>1, <2>3, <3>1
    <3>2. CASE g # h
      BY <2>1, <2>2, <2>3, <3>2 DEF OffHasABit, InHand
    <3> QED
      BY <3>1, <3>2
  <2> QED
    BY <2>1, <2>3 DEF OffHasABit
<1>2. CASE OtherAcked(h, c) \/ Failed(h, c) \/ Lose(h, c) \/ TimedOut(h, c)
  BY <1>2 DEF OtherAcked, Failed, Lose, TimedOut, deviceVars, infoVars, OffHasABit, InHand
<1> QED
  BY <1>1, <1>2 DEF Acked

\* A listed lidar that was reported, is to get parameters and refused none, is
\* never left in a state from which nothing makes it Sampling: with nobody else's
\* help the callback sends a parameter, or an answer or timeout is due.
THEOREM NeverStuckOff == Spec => []SamplingOnItsWay
<1>1. Init => OffHasABit
  BY ConfigAssumption DEF Init, OffHasABit
<1>2. ConfigIInv /\ OffHasABit /\ [Next]_vars => OffHasABit'
  <2> SUFFICES ASSUME ConfigIInv, OffHasABit, [Next]_vars
               PROVE  OffHasABit'
    OBVIOUS
  <2>1. CASE UNCHANGED vars
    BY <2>1 DEF vars, OffHasABit, InHand
  <2> QED
    BY <2>1, InfoChangeOff, SendingOff, CallbackOff DEF Next
<1>3. ConfigIInv /\ OffHasABit => SamplingOnItsWay
  <2> SUFFICES ASSUME ConfigIInv, OffHasABit, NEW h \in Configured, infos[h] > 0,
                      UserParams[h] # {}, failed[h] \cap Param = {},
                      connect_state[h] # "Sampling", InHand(h) = {}
               PROVE  \E p \in set_bits[h] : sent[h][p] + lost[h][p] > 0
    BY DEF SamplingOnItsWay
  <2>1. h \in Handle /\ connect_state[h] = "Off" /\ set_bits[h] \subseteq Param
    BY ConfigAssumption DEF ConfigIInv, TypeOK
  <2>2. PICK p \in set_bits[h] : TRUE
    BY <2>1 DEF OffHasABit
  <2>3. sent[h][p] + lost[h][p] > 0 \/ p \in failed[h]
    BY <2>1 DEF ConfigIInv, BitsOutstanding
  <2> QED
    BY <2>1, <2>3
<1> QED
  BY <1>1, <1>2, <1>3, ConfigInvariance, PTL DEF Spec

\* Only an acknowledgement takes the work mode off the wire for good.
LEMMA WorkModeStays ==
    ASSUME ConfigIInv, NEW h \in Handle, NEW c \in Command,
           Acked(h, c) \/ Failed(h, c) \/ Lose(h, c) \/ TimedOut(h, c)
    PROVE  \A g \in Handle :
              \/ "workMode" \in acked'[g]
              \/ sent'[g]["workMode"] + lost'[g]["workMode"]
                    = sent[g]["workMode"] + lost[g]["workMode"]
<1>1. /\ sent \in [Handle -> [Command -> Nat]] /\ lost \in [Handle -> [Command -> Nat]]
      /\ acked \in [Handle -> SUBSET Command]
  BY DEF ConfigIInv, TypeOK
<1>2. "workMode" \in Command \ Param
  BY CommandKinds
<1>3. CASE c # "workMode"
  <2>1. \A g \in Handle : /\ More(sent, h, c)[g]["workMode"] = sent[g]["workMode"]
                          /\ More(lost, h, c)[g]["workMode"] = lost[g]["workMode"]
    BY <1>1, <1>2, <1>3 DEF More
  <2>2. sent[h][c] > 0 =>
            \A g \in Handle : Fewer(sent, h, c)[g]["workMode"] = sent[g]["workMode"]
    BY <1>1, <1>2, <1>3 DEF Fewer
  <2>3. lost[h][c] > 0 =>
            \A g \in Handle : Fewer(lost, h, c)[g]["workMode"] = lost[g]["workMode"]
    BY <1>1, <1>2, <1>3 DEF Fewer
  <2> QED
    BY <2>1, <2>2, <2>3 DEF Acked, ParamAcked, OtherAcked, Failed, Lose, TimedOut
<1>4. CASE c = "workMode"
  <2>1. /\ sent[h][c] > 0 => \A g \in Handle :
              Fewer(sent, h, c)[g][c] = IF g = h THEN sent[g][c] - 1 ELSE sent[g][c]
        /\ lost[h][c] > 0 => \A g \in Handle :
              Fewer(lost, h, c)[g][c] = IF g = h THEN lost[g][c] - 1 ELSE lost[g][c]
    BY <1>1 DEF Fewer
  <2>2. /\ \A g \in Handle :
              More(sent, h, c)[g][c] = IF g = h THEN sent[g][c] + 1 ELSE sent[g][c]
        /\ \A g \in Handle :
              More(lost, h, c)[g][c] = IF g = h THEN lost[g][c] + 1 ELSE lost[g][c]
    BY <1>1 DEF More
  <2>3. \A g \in Handle : sent[g][c] \in Nat /\ lost[g][c] \in Nat
    BY <1>1
  <2>4. CASE Acked(h, c)
    <3>1. /\ acked' = [acked EXCEPT ![h] = @ \cup {c}] /\ lost' = lost
          /\ sent[h][c] > 0 /\ sent' = Fewer(sent, h, c)
      BY <1>2, <1>4, <2>4 DEF Acked, OtherAcked
    <3>2. c \in acked'[h] /\ \A g \in Handle \ {h} : sent'[g][c] = sent[g][c]
      BY <1>1, <2>1, <3>1
    <3> QED
      BY <1>4, <3>1, <3>2
  <2>5. CASE Failed(h, c)
    BY <1>4, <2>5 DEF Failed, deviceVars
  <2>6. CASE Lose(h, c)
    <3>1. sent[h][c] > 0 /\ sent' = Fewer(sent, h, c) /\ lost' = More(lost, h, c)
      BY <2>6 DEF Lose
    <3> QED
      BY <1>4, <2>1, <2>2, <2>3, <3>1
  <2>7. CASE TimedOut(h, c)
    <3>1. lost[h][c] > 0 /\ lost' = Fewer(lost, h, c) /\ sent' = More(sent, h, c)
      BY <1>4, <2>7 DEF TimedOut
    <3> QED
      BY <1>4, <2>1, <2>2, <2>3, <3>1
  <2> QED
    BY <2>4, <2>5, <2>6, <2>7
<1> QED
  BY <1>3, <1>4

\* Reporting sends the work mode in the end, to the lidar that it is about.
LEMMA ReportingMode ==
    ASSUME ConfigIInv, ModeOnItsWay, Sending \/ \E h \in Handle : InfoChange(h)
    PROVE  ModeOnItsWay'
<1>1. /\ sent \in [Handle -> [Command -> Nat]] /\ lost \in [Handle -> [Command -> Nat]]
      /\ registered \subseteq Handle /\ subject \in Handle
      /\ infos \in [Handle -> 0 .. MaxInfo]
  BY DEF ConfigIInv, TypeOK
<1>2. "workMode" \in Command /\ "attitude" \in Command /\ "imu" \in Command
      /\ "workMode" \notin Param /\ Param \subseteq Command
  BY CommandKinds
<1>3. CASE \E h \in Handle : InfoChange(h)
  <2>1. PICK h \in Handle : InfoChange(h)
    BY <1>3
  <2>2. /\ stage = "idle" /\ subject' = h
        /\ \A g \in Handle \ {h} : infos'[g] = infos[g]
        /\ registered' \subseteq registered \cup {h}
        /\ h \in registered' => stage' # "idle"
        /\ UNCHANGED <<sent, lost, acked>>
    BY <1>1, <2>1 DEF InfoChange, InfoChangeKnown, InfoChangeUnknown, InfoChangeRefused,
                      Report, deviceVars, wireVars
  <2>3. ASSUME NEW g \in registered', infos'[g] > 0, g # h
        PROVE  "workMode" \in acked[g] \/ sent[g]["workMode"] + lost[g]["workMode"] > 0
    BY <1>1, <2>2, <2>3 DEF ModeOnItsWay
  <2> QED
    BY <2>2, <2>3 DEF ModeOnItsWay
<1>4. CASE (\E p \in Param : SetParam(p)) \/ SetAttitude
  <2>1. /\ stage' # "idle" /\ stage # "idle" /\ subject' = subject
        /\ UNCHANGED <<registered, lost, acked, infos>>
    BY <1>4 DEF SetParam, SetAttitude, deviceVars
  <2>2. \A g \in Handle : sent'[g]["workMode"] = sent[g]["workMode"]
    <3>1. \A c \in Command \ {"workMode"}, g \in Handle :
              More(sent, subject, c)[g]["workMode"] = sent[g]["workMode"]
      BY <1>1, <1>2 DEF More
    <3> QED
      BY <1>2, <1>4, <3>1 DEF SetParam, SetAttitude
  <2> QED
    BY <1>1, <2>1, <2>2 DEF ModeOnItsWay
<1>5. CASE SetWorkModeAndImu
  <2> DEFINE mode == More(sent, subject, "workMode")
  <2>1. /\ mode \in [Handle -> [Command -> Nat]]
        /\ \A g \in Handle : mode[g]["workMode"] =
              IF g = subject THEN sent[g]["workMode"] + 1 ELSE sent[g]["workMode"]
    BY <1>1, <1>2 DEF More
  <2>2. sent' = More(mode, subject, "imu")
        /\ UNCHANGED <<registered, lost, acked, infos>>
    BY <1>5 DEF SetWorkModeAndImu, deviceVars
  <2> HIDE DEF mode
  <2>3. \A g \in Handle : sent'[g]["workMode"] = mode[g]["workMode"]
    BY <1>1, <1>2, <2>1, <2>2 DEF More
  <2>4. ASSUME NEW g \in registered, infos[g] > 0
        PROVE  "workMode" \in acked[g] \/ sent'[g]["workMode"] + lost[g]["workMode"] > 0
    <3>1. /\ g \in Handle /\ sent[g]["workMode"] \in Nat /\ lost[g]["workMode"] \in Nat
      BY <1>1, <1>2
    <3>2. CASE g = subject
      BY <2>1, <2>3, <3>1, <3>2
    <3>3. CASE g # subject
      BY <2>1, <2>3, <2>4, <3>1, <3>3 DEF ModeOnItsWay
    <3> QED
      BY <3>2, <3>3
  <2> QED
    BY <2>2, <2>4 DEF ModeOnItsWay
<1> QED
  BY <1>3, <1>4, <1>5 DEF Sending

\* A reported lidar with a device, listed or discovered, was set to its work mode,
\* or the command is on its way or about to be sent: no failure, loss or timeout,
\* whatever their order, is the last word on it.
THEOREM ModeNotForgotten == Spec => []ModeOnItsWay
<1>1. Init => ModeOnItsWay
  BY ConfigAssumption DEF Init, ModeOnItsWay
<1>2. ConfigIInv /\ ModeOnItsWay /\ [Next]_vars => ModeOnItsWay'
  <2> SUFFICES ASSUME ConfigIInv, ModeOnItsWay, [Next]_vars
               PROVE  ModeOnItsWay'
    OBVIOUS
  <2>1. CASE UNCHANGED vars
    BY <2>1 DEF vars, ModeOnItsWay
  <2>2. ASSUME NEW h \in Handle, NEW c \in Command,
               Acked(h, c) \/ Failed(h, c) \/ Lose(h, c) \/ TimedOut(h, c)
        PROVE  ModeOnItsWay'
    <3>1. /\ UNCHANGED <<registered, stage, subject, infos>>
          /\ \A g \in Handle : acked[g] \subseteq acked'[g]
      BY <2>2 DEF Acked, ParamAcked, OtherAcked, Failed, Lose, TimedOut, deviceVars,
                  infoVars, ConfigIInv, TypeOK
    <3>2. registered \subseteq Handle
      BY DEF ConfigIInv, TypeOK
    <3> QED
      BY <2>2, <3>1, <3>2, WorkModeStays DEF ModeOnItsWay
  <2> QED
    BY <2>1, <2>2, ReportingMode DEF Next
<1> QED
  BY <1>1, <1>2, ConfigInvariance, PTL DEF Spec
=============================================================================
