------------------------------ MODULE BmsCodec ------------------------------
(***************************************************************************)
(* The battery codec: how a command becomes a CAN frame (BmsTx), how the   *)
(* identifier names battery and message (BmsFrameRouter), how a frame is   *)
(* taken apart again (BmsProto, ProtoBmsTableRuntime) and what the logic   *)
(* adapter reads out of it (BmsLogicAdapter::updateFrom...).               *)
(*                                                                         *)
(* The eight data bytes of a frame are the set of the positions of its one *)
(* bits, 0 to 63, and a raw value is the set of its one bits: shifting and *)
(* masking are then arithmetic on positions, and no value is too wide.     *)
(* All frames are extended ones of eight bytes: the dispatcher drops the   *)
(* others before they get here (BmsReceive).                               *)
(***************************************************************************)
EXTENDS BmsTable, FiniteSets, FiniteSetsExt

CONSTANTS Batteries,     \* instance numbers of the batteries on the bus
          StrayIds,      \* identifiers of frames no battery sends
          Payloads(_)    \* what a message may carry: a raw value per signal

ASSUME BatteriesAssumption == Batteries \subseteq 1..4

\* A raw value is as wide as its signal.
ASSUME PayloadsAssumption ==
    \A m \in MessageNames : \A vals \in Payloads(m) :
        /\ DOMAIN vals = DOMAIN Messages[m].signals
        /\ \A k \in DOMAIN vals : vals[k] \subseteq 0 .. Messages[m].signals[k].len - 1

VARIABLES sent,    \* what was last sent: message, battery, raw value per signal
          wire,    \* the frame on its way to the parser
          got      \* what the adapter took from the last frame

vars == <<sent, wire, got>>

Nothing == [msg |-> "none"]
NoFrame == [id |-> 0, bits |-> {}]

-----------------------------------------------------------------------------
(* Bits: BmsTx::packBitsLsb, BmsProto::extractBitsLsb.                     *)

\* A mutant of PackBits.
PackBits_Narrow(data, start, len, value) ==
    (data \ (start .. start + len - 1)) \cup
        {start + b : b \in value \cap (0 .. len - 2)}

PackBits(data, start, len, value) ==
    IF start < 0 \/ len <= 0 \/ start >= 64 THEN data
    ELSE LET n == IF start + len > 64 THEN 64 - start ELSE len
         IN (data \ (start .. start + n - 1)) \cup
            {start + b : b \in value \cap (0 .. n - 1)}

\* A mutant of ExtractBits.
ExtractBits_OneShort(data, start, len) ==
    {p - start : p \in data \cap (start .. start + len - 2)}

ExtractBits(data, start, len) ==
    IF start < 0 \/ len <= 0 \/ start >= 64 THEN {}
    ELSE LET n == IF start + len > 64 THEN 64 - start ELSE len
         IN {p - start : p \in data \cap (start .. start + n - 1)}

-----------------------------------------------------------------------------
(* Identifiers: BmsFrameRouter.  The low 12 bits hold the battery (one     *)
(* nibble) and a message code (one byte).                                  *)

\* protoIdFromMsgCode: the identifiers of codes 1..15, a copy of the table's own.
ProtoIds ==
    <<\h1802F3EF, \h1881EFF3, \h1882EFF3, \h1883EFF3, \h1884EFF3,
      \h1885EFF3, \h1886EFF3, \h1887EFF3, \h1888EFF3, \h1889EFF3,
      \h18C3EFF3, \h18C4EFF3, \h18FF45F4, \h18FFC13A, \h18FFF10F>>

ProtoIdFromMsgCode(code) == IF code \in DOMAIN ProtoIds THEN ProtoIds[code] ELSE 0

IsValidInstance(i) == i \in 1..4

ExtractInstanceIndex(id) ==
    LET i == (id % 4096) \div 256 IN IF IsValidInstance(i) THEN i ELSE 0

ExtractMsgCode(id) == (id % 4096) % 256

\* A mutant of DecodesAsRuntime.
DecodesAsRuntime_AnyInstance(id) == ProtoIdFromMsgCode(ExtractMsgCode(id)) # 0

\* decodeRuntimeId: only the low 12 bits decide.
DecodesAsRuntime(id) ==
    /\ IsValidInstance(ExtractInstanceIndex(id))
    /\ ProtoIdFromMsgCode(ExtractMsgCode(id)) # 0

FireTemplateId == \h18FFF7F6

MsgCodeFromProtoId(id) ==
    IF \E c \in DOMAIN ProtoIds : ProtoIds[c] = id
    THEN CHOOSE c \in DOMAIN ProtoIds : ProtoIds[c] = id
    ELSE IF id = FireTemplateId THEN 15
    ELSE IF DecodesAsRuntime(id) THEN ExtractMsgCode(id) ELSE 0

\* A stray identifier fits the bus, is nobody's own, and its low 12 bits name no
\* battery with a known message.
ASSUME StrayIdsAssumption ==
    \A id \in StrayIds :
        /\ id \in Nat /\ id <= \h1FFFFFFF /\ id # FireTemplateId
        /\ \A c \in 1..15 : id # ProtoIds[c] /\ \A i \in 1..4 : id % 4096 # i * 256 + c

NormalizeToProtoId(id) ==
    LET p == ProtoIdFromMsgCode(MsgCodeFromProtoId(id))
    IN IF p # 0 THEN p ELSE id

RewriteRuntimeId(id, i) ==
    LET c == MsgCodeFromProtoId(id)
        t == ProtoIdFromMsgCode(c)
    IN IF ~IsValidInstance(i) \/ c = 0 \/ t = 0 THEN id
       ELSE (t - (t % 4096)) + i * 256 + c

\* ProtoBmsTableRuntime::findMessage: by the identifier itself, and then by
\* what it normalises to.
FindMessage(id) ==
    LET Named(x) == {m \in MessageNames : Messages[m].id = x}
    IN IF Named(id) # {} THEN Named(id) ELSE Named(NormalizeToProtoId(id))

-----------------------------------------------------------------------------
(* Taking a frame apart: BmsProto::parse.                                  *)

CanonicalMsgName(m) ==
    CASE m = "B2V_Fult1_32960" -> "B2V_Fault1"
      [] m = "B2V_Fult2"       -> "B2V_Fault2"
      [] OTHER                 -> m

\* shouldParseAsPhysical
ParsedAsPhysical(s) ==
    /\ s.len # 1
    /\ \/ s.num # s.den \/ s.off # 0
       \/ ~s.enum
       \/ s.len >= 8

\* Under a name that occurs twice, as only reserved bits' names do, num keeps the value
\* of the first row and value that of the last.
SignalOf(m, name) ==
    LET rows == {k \in DOMAIN Messages[m].signals :
                    Messages[m].signals[k].name = name}
        phys == {k \in rows : ParsedAsPhysical(Messages[m].signals[k])}
    IN Messages[m].signals[IF phys # {} THEN Min(phys) ELSE Max(rows)]

SignalNames(m) == {Messages[m].signals[k].name : k \in DOMAIN Messages[m].signals}

Parse(frame, m) ==
    LET phys == {n \in SignalNames(m) : ParsedAsPhysical(SignalOf(m, n))}
        Raw(n) == ExtractBits(frame.bits, SignalOf(m, n).start, SignalOf(m, n).len)
    IN [table |-> m, msg |-> CanonicalMsgName(m),
        inst |-> ExtractInstanceIndex(frame.id),
        num |-> [n \in phys |-> Raw(n)],
        value |-> [n \in SignalNames(m) \ phys |-> Raw(n)]]

ToNat(raw) == MapThenSumSet(LAMBDA b : 2 ^ b, raw)

\* signExtend and the cast to int64
SignExtend(raw, len) ==
    IF len - 1 \in raw THEN ToNat(raw) - 2 ^ len ELSE ToNat(raw)

\* rawToPhys, in units of 1/den: a negative offset makes the raw value signed.
RawToPhys(s, raw) ==
    (IF s.off < 0 THEN SignExtend(raw, s.len) ELSE ToNat(raw)) * s.num
        + s.off * s.den

-----------------------------------------------------------------------------
(* What the adapter reads.  A reader has the signals it takes from num,    *)
(* each with the check that may declare it invalid, and the signals it     *)
(* takes as integers and as booleans from wherever the parser put them.    *)

Reader(nums, ints, bools) == [nums |-> nums, ints |-> ints, bools |-> bools]
NoNums == [n \in {} |-> "any"]

UpdateFromFault1 ==
    Reader(NoNums,
           {"B2V_Fult1_DelTemp", "B2V_Fult1_OverTemp", "B2V_Fult1_OverUcell",
            "B2V_Fult1_LowUcell", "B2V_Fult1_PackOverHVolt",
            "B2V_Fult1_PackLowHVolt", "B2V_Fult1_LowSOC",
            "B2V_Fult1_LowInsRes", "B2V_Fult1_FaultNum_32960"},
           {"B2V_Fult1_UcellUniformity", "B2V_Fult1_OverChg",
            "B2V_Fult1_OverSOC", "B2V_Fult1_SOCChangeFast",
            "B2V_Fult1_BatSysNotMatch", "B2V_Fult1_HVILFault"})

\* The open and weld errors, two per relay.
Fault2Relays ==
    {"B2V_Fult2_HeatRelayOpenErr", "B2V_Fult2_HeatRelayWeldErr",
     "B2V_Fult2_MainPosRelayOpenErr", "B2V_Fult2_MainPosRelayWeldErr",
     "B2V_Fult2_MainNegRelayOpenErr", "B2V_Fult2_MainNegRelayWeldErr",
     "B2V_Fult2_DCChrgPos1RelayOpenErr", "B2V_Fult2_DCChrgPos1RelayWeldErr",
     "B2V_Fult2_DCChrgNeg1RelayOpenErr", "B2V_Fult2_DCChrgNeg1RelayWeldErr",
     "B2V_Fult2_DCChrgPos2RelayOpenErr", "B2V_Fult2_DCChrgPos2RelayWeldErr",
     "B2V_Fult2_DCChrgNeg2RelayOpenErr", "B2V_Fult2_DCChrgNeg2RelayWeldErr",
     "B2V_Fult2_ACChrgPosRelayOpenErr", "B2V_Fult2_ACChrgPosRelayWeldErr",
     "B2V_Fult2_ACChrgNegRelayOpenErr", "B2V_Fult2_ACChrgNegRelayWeldErr",
     "B2V_Fult2_PantoChrgPosRelayOpenErr", "B2V_Fult2_PantoChrgPosRelayWeldErr",
     "B2V_Fult2_PantoChrgNegRelayOpenErr", "B2V_Fult2_PantoChrgNegRelayWeldErr"}

UpdateFromFault2 ==
    Reader(NoNums,
           {"B2V_Fult2_OverDischrgCurr", "B2V_Fult2_OverChrgCurrInTheDrive",
            "B2V_Fult2_ChrgNTCTempOver"},
           {"B2V_Fult2_CellOverDischrg", "B2V_Fult2_CellLowTemp",
            "B2V_Fult2_PackFireWarning", "B2V_Fult2_CurrSensorErr",
            "B2V_Fult2_PowerSupplyErr", "B2V_Fult2_SOCDifferErr",
            "B2V_Fult2_ChrgConnectErr", "B2V_Fult2_OverDischrgCurrWhenInChrg",
            "B2V_Fult2_OverChrgCurrInTheChrg", "B2V_Fult2_ChrgNTCErr",
            "B2V_Fult2_TMSErr", "B2V_Fult2_PackSelfProtect",
            "B2V_Fult2_MainLoopPrechrgErr", "B2V_Fult2_AuxLoopPrechrgErr",
            "B2V_Fult2_ChrgInsLowErr", "B2V_Fult2_ACANLost",
            "B2V_Fult2_InnerCommunicationErr", "B2V_Fult2_DCDCErr",
            "B2V_Fult2_BranchBreakErr"} \cup Fault2Relays)

UpdateFromSt1 == Reader(NoNums, SignalNames("B2V_ST1"), {})

UpdateFromSt2 ==
    Reader([B2V_ST2_SOC |-> "soc", B2V_ST2_SOH |-> "soc",
            B2V_ST2_PackInsideVolt |-> "voltage", B2V_ST2_PackCurrent |-> "current"],
           {"B2V_ST2_FaultLevel", "B2V_ST2_FaultCode"}, {"B2V_ST2_RqHVPoerOff"})

UpdateFromSt3 ==
    Reader([n \in {"B2V_ST3_PosInsRes", "B2V_ST3_NegInsRes",
                   "B2V_ST3_SysInsRes"} |-> "insulation"],
           {}, {"B2V_ST3_InsDetectorSt"})

UpdateFromSt4 ==
    Reader([n \in {"B2V_ST4_Max_Temp", "B2V_ST4_Min_Temp",
                   "B2V_ST4_Avg_Temp"} |-> "temp"],
           {"B2V_ST4_MaxTemp_Position", "B2V_ST4_MinTemp_Position"}, {})

UpdateFromSt5 ==
    Reader([n \in {"B2V_ST5_Max_Ucell", "B2V_ST5_Min_Ucell",
                   "B2V_ST5_Avg_Ucell"} |-> "any"], {}, {})

UpdateFromSt6 == Reader(NoNums, SignalNames("B2V_ST6") \ {"Reserved"}, {})

UpdateFromSt7 ==
    Reader([n \in {"B2V_ST7_Gun1DCPosTemp", "B2V_ST7_Gun1DCNegTemp",
                   "B2V_ST7_Gun2DCPosTemp", "B2V_ST7_Gun2DCNegTemp",
                   "B2V_ST7_GunACPosTemp", "B2V_ST7_GunACNegTemp"} |-> "any"],
           {}, {})

UpdateFromElecEnergy ==
    Reader([n \in {"B2V_TotChgEnergy", "B2V_TotDischgEnergy",
                   "B2V_SingleChgEnergy"} |-> "energy"], {}, {})

UpdateFromCurrentLimit ==
    Reader([n \in {"B2V_AvailInpulseDischrgCurr", "B2V_AvailInpulseChrgCurr",
                   "B2V_AvailFollowChrgCurr", "B2V_AvailFollowDishrgCurr"}
                |-> "limit"], {}, {})

UpdateFromTm2b ==
    Reader(NoNums, {"T2B_WorkStatus_A", "TM2B_FaultCode_A",
                    "TM2B_FaultLevel_A"}, {})

UpdateFromFire2b ==
    Reader([n \in {"Fire_Max_Tmp", "Fire_Max_Gus", "Fire_Max_Fog"} |-> "any"],
           {"Fire_valueNumber", "Fire_valueAlarmLevel"},
           {"Fire_byStartSts", "Fire_SnerrrorSts", "Fire_HwerrrorSts",
            "Fire_byTempSenor1Err", "Fire_byTempSenor2Err",
            "Fire_byAirSenorErr", "Fire_bySAMSenorErr", "Fire_Tmp_alarm",
            "Fire_Gus_alarm", "Fire_Fog_alarm", "Fire_Leak_alarm"})

\* onDeviceData chooses the reader by the canonical message name.
Readers ==
    [B2V_ST1 |-> UpdateFromSt1, B2V_ST2 |-> UpdateFromSt2,
     B2V_ST3 |-> UpdateFromSt3, B2V_ST4 |-> UpdateFromSt4,
     B2V_ST5 |-> UpdateFromSt5, B2V_ST6 |-> UpdateFromSt6,
     B2V_ST7 |-> UpdateFromSt7, B2V_ElecEnergy |-> UpdateFromElecEnergy,
     B2V_CurrentLimit |-> UpdateFromCurrentLimit, TM2B_Info |-> UpdateFromTm2b,
     Fire2B_Info |-> UpdateFromFire2b, B2V_Fault1 |-> UpdateFromFault1,
     B2V_Fault2 |-> UpdateFromFault2]

\* The is...Invalid_ predicates, for a value in units of 1/d.
Invalid(check, v, d) ==
    CASE check = "soc"        -> \/ 2 * v \in 203 * d .. 205 * d
                                 \/ 2 * v \in 509 * d .. 511 * d
      [] check = "current"    -> v > 60000 * d \/ v < -60000 * d
      [] check = "voltage"    -> v > 60000 * d \/ v < -d
      [] check = "temp"       -> v < -100 * d \/ v > 300 * d
      [] check = "limit"      -> v < -d \/ v > 5000 * d
      [] check = "insulation" -> v < 0 \/ v > 60000 * d
      [] check = "energy"     -> v < 0 \/ v > 20000000 * d
      [] OTHER                -> FALSE

Reading(ok, v) == [ok |-> ok, v |-> v]

\* readNum_ looks in num only; readInt_ and readBool_ in value and then in num.
ReadSignals(d) ==
    LET r == Readers[d.msg]
        S(n) == SignalOf(d.table, n)
        AsInt(n) == IF n \in DOMAIN d.value THEN ToNat(d.value[n])
                    ELSE RawToPhys(S(n), d.num[n])
        AsNum(n) ==
            LET v == RawToPhys(S(n), d.num[n])
            IN IF Invalid(r.nums[n], v, S(n).den) THEN Reading(FALSE, 0) ELSE Reading(TRUE, v)
        nums == DOMAIN r.nums \cap DOMAIN d.num
    IN [n \in nums \cup r.ints \cup r.bools |->
            IF n \in nums THEN AsNum(n)
            ELSE IF n \in r.ints THEN Reading(TRUE, AsInt(n))
            ELSE Reading(TRUE, IF AsInt(n) # 0 THEN 1 ELSE 0)]

-----------------------------------------------------------------------------
(* Sending.                                                                *)

\* Where a peer puts bit b of a signal: Intel order counts upwards, Motorola
\* order goes on in the byte before.
Place(start, b, intel) ==
    IF intel THEN start + b ELSE start + b - 16 * (((start % 8) + b) \div 8)

PeerEncodes(m, vals) ==
    UNION {{Place(Messages[m].signals[k].start, b, Messages[m].intel)
                : b \in vals[k]} : k \in DOMAIN vals}

\* BmsTx::buildFrameForInstance packs one signal after the other into zeroed
\* data.
Packed(vals) ==
    LET sigs == Messages["V2B_CMD"].signals
        step[k \in 0 .. Len(sigs)] ==
            IF k = 0 THEN {}
            ELSE PackBits(step[k - 1], sigs[k].start, sigs[k].len, vals[k])
    IN step[Len(sigs)]

BuildFrame(i, vals) ==
    [id |-> RewriteRuntimeId(Messages["V2B_CMD"].id, i), bits |-> Packed(vals)]

Init == sent = Nothing /\ wire = NoFrame /\ got = Nothing

\* The codec keeps no state between frames, so a behaviour is one exchange.
Idle == sent = Nothing /\ wire = NoFrame

\* The controller sends a command: the frame BmsCommandManager asks BmsTx for.
CommandSend(i) ==
    /\ Idle
    /\ \E vals \in Payloads("V2B_CMD") :
        /\ sent' = [msg |-> "V2B_CMD", inst |-> i, vals |-> vals]
        /\ wire' = BuildFrame(i, vals)
    /\ UNCHANGED got

\* A battery sends a message, under the identifier the CAN hub gives it.
BatterySend(i) ==
    /\ Idle
    /\ \E m \in MessageNames \ {"V2B_CMD"} : \E vals \in Payloads(m) :
        /\ sent' = [msg |-> m, inst |-> i, vals |-> vals]
        /\ wire' = [id |-> RewriteRuntimeId(Messages[m].id, i),
                    bits |-> PeerEncodes(m, vals)]
    /\ UNCHANGED got

StraySend ==
    /\ Idle
    /\ \E id \in StrayIds : wire' = [id |-> id, bits |-> 0 .. 63]
    /\ UNCHANGED <<sent, got>>

\* BmsWorker hands the frame to the parser, and what was parsed to the adapter.
Receive ==
    /\ wire # NoFrame
    /\ wire' = NoFrame
    /\ \/ FindMessage(wire.id) = {} /\ got' = Nothing
       \/ \E m \in FindMessage(wire.id) : \E d \in {Parse(wire, m)} :
            got' = [msg |-> d.msg, inst |-> d.inst,
                    raw |-> [n \in DOMAIN d.num \cup DOMAIN d.value |->
                                IF n \in DOMAIN d.num THEN d.num[n] ELSE d.value[n]],
                    cache |-> IF d.msg \in DOMAIN Readers
                              THEN ReadSignals(d) ELSE [n \in {} |-> 0]]
    /\ UNCHANGED sent

Next ==
    \/ \E i \in Batteries : CommandSend(i) \/ BatterySend(i)
    \/ StraySend
    \/ Receive

Spec == Init /\ [][Next]_vars

-----------------------------------------------------------------------------
Frames == [id : Nat, bits : SUBSET (0..63)]

\* A frame carries a 29-bit identifier and 64 bits of data; the parser's
\* result names one of the four batteries.
TypeOK ==
    /\ sent = Nothing \/ sent.msg \in MessageNames
    /\ wire.id \in Nat /\ wire.id <= \h1FFFFFFF /\ wire.bits \subseteq 0..63
    /\ got = Nothing \/ got.inst \in 1..4

\* What arrives is the message that was sent, from the battery that sent it:
\* no two pairs of message and battery share an identifier, and no identifier
\* leads the parser to another table row (BmsFrameRouter, findMessage).  A
\* frame whose low bits name no battery or no message is dropped.
RoutedToSender ==
    wire = NoFrame =>
        IF sent = Nothing THEN got = Nothing
        ELSE /\ got # Nothing
             /\ got.inst = sent.inst
             /\ got.msg = CanonicalMsgName(sent.msg)

Received == wire = NoFrame /\ sent # Nothing /\ got # Nothing

\* A command frame, taken apart by the same table, gives back every field
\* BmsTx packed, whatever the other fields hold.
CommandAsBuilt ==
    Received /\ sent.msg = "V2B_CMD" =>
        \A k \in DOMAIN sent.vals :
            got.raw[Messages["V2B_CMD"].signals[k].name] = sent.vals[k]

\* The value the protocol gives a raw number.
Meant(s, raw) == ToNat(raw) * s.num + s.off * s.den

\* What the cache must hold of signal k.
ReadAsMeant(r, s, raw) ==
    got.cache[s.name] =
        IF s.name \in DOMAIN r.nums /\ Invalid(r.nums[s.name], Meant(s, raw), s.den)
        THEN Reading(FALSE, 0)
        ELSE IF s.name \in r.bools
             THEN Reading(TRUE, IF raw = {} THEN 0 ELSE 1)
             ELSE Reading(TRUE, Meant(s, raw))

SignalsRead(P(_, _)) ==
    Received /\ got.msg \in DOMAIN Readers =>
        LET r == Readers[got.msg]
        IN \A k \in DOMAIN sent.vals :
            LET s == Messages[sent.msg].signals[k]
            IN /\ s.name \in DOMAIN r.nums \cup r.ints \cup r.bools
               /\ P(s, sent.vals[k])
               => ReadAsMeant(r, s, sent.vals[k])

\* Every signal the adapter looks for in a message arrives in its cache with
\* the physical value the battery meant, or marked invalid when that value is
\* outside the adapter's limits: the parser files each signal where the
\* adapter looks, and no neighbour's bits leak in.  A signal with a negative
\* offset counts only below its sign bit (see TemperatureRead).
ReadsWhatWasSent ==
    SignalsRead(LAMBDA s, raw : s.off >= 0 \/ s.len - 1 \notin raw)

\* The same for every temperature the table admits, -40 to 213 with two codes
\* kept for abnormal and invalid: a hot cell must not read as a cold or an
\* invalid one.
TemperatureRead ==
    SignalsRead(LAMBDA s, raw : s.off = -40 /\ ~(1 .. 7 \subseteq raw))
=============================================================================
