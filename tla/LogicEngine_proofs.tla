-------------------------- MODULE LogicEngine_proofs --------------------------
(***************************************************************************)
(* Proofs about LogicEngine for any number of BMSs and PCUs, any timeouts, *)
(* any inputs and any delay between stamping and handling an event.        *)
(***************************************************************************)
EXTENDS LogicEngine, TLAPS

-----------------------------------------------------------------------------
(* Lemmas about the operators on one BMS entry.                            *)

\* The entry before the first frame is an entry.
LEMMA NewEntryType == NewEntry \in Entry
  BY DEF NewEntry, Entry, Group

\* Receiving a frame keeps the entry's type.
LEMMA ArrivedType ==
  ASSUME NEW x \in Entry, NEW m \in BmsMsg, NEW ts \in Nat
  PROVE  Arrived(x, m, ts) \in Entry
<1>1. x.last \in [Group -> Nat] /\ x.fresh \in [Group -> BOOLEAN] /\ x.reason \in 0..2
  BY DEF Entry
<1>2. (IF m.msg \in Group THEN [x.last EXCEPT ![m.msg] = ts] ELSE x.last) \in [Group -> Nat]
  BY <1>1
<1>3. (IF m.msg \in Group THEN [x.fresh EXCEPT ![m.msg] = TRUE] ELSE x.fresh)
        \in [Group -> BOOLEAN]
  BY <1>1
<1>4. (IF x.reason = 1 THEN 0 ELSE x.reason) \in 0..2
  BY <1>1
<1>5. QED
  BY <1>2, <1>3, <1>4 DEF Arrived, Entry

\* The update of the message's own fields keeps the entry's type.
LEMMA UpdateFromType ==
  ASSUME NEW x \in Entry, NEW m \in BmsMsg
  PROVE  UpdateFrom(x, m) \in Entry
<1>1. CASE m \in St1Msg
  <2>1. m.msg = "B2V_ST1" /\ m.hvOn \in BOOLEAN /\ m.charging \in BOOLEAN
    BY <1>1 DEF St1Msg
  <2>2. QED
    BY <2>1 DEF UpdateFrom, UpdateFromSt1, Entry
<1>2. CASE m \in St2Msg
  <2>1. m.msg = "B2V_ST2" /\ m.level \in Nat /\ m.rqOff \in BOOLEAN
        /\ m.packV \in Nat /\ m.packI \in Nat
    BY <1>2 DEF St2Msg
  <2>2. QED
    BY <2>1 DEF UpdateFrom, UpdateFromSt2, Entry
<1>3. CASE m \in LimitMsg
  <2>1. m.msg = "B2V_CurrentLimit" /\ m.limit \in Nat /\ m.valid \in BOOLEAN
    BY <1>3 DEF LimitMsg
  <2>2. QED
    BY <2>1 DEF UpdateFrom, UpdateFromCurrentLimit, Entry
<1>4. CASE m \in FaultMsg
  <2>1. m.msg \in {"B2V_Fault1", "B2V_Fault2"} /\ m.blocks \in BOOLEAN
    BY <1>4 DEF FaultMsg
  <2>2. \A f \in {"B2V_Fault1", "B2V_Fault2"} :
          [x.blocks EXCEPT ![f] = m.blocks] \in [{"B2V_Fault1", "B2V_Fault2"} -> BOOLEAN]
    BY <2>1 DEF Entry
  <2>3. CASE m.msg = "B2V_Fault1"
    <3>1. UpdateFrom(x, m) = UpdateFromFault1(x, m)
      BY <2>3 DEF UpdateFrom
    <3>2. QED
      BY <2>2, <3>1 DEF UpdateFromFault1, Entry
  <2>4. CASE m.msg = "B2V_Fault2"
    <3>1. UpdateFrom(x, m) = UpdateFromFault2(x, m)
      BY <2>4 DEF UpdateFrom
    <3>2. QED
      BY <2>2, <3>1 DEF UpdateFromFault2, Entry
  <2>5. QED
    BY <2>1, <2>3, <2>4
<1>5. CASE m \in TmsMsg
  <2>1. m.msg = "TM2B_Info" /\ m.level \in Nat
    BY <1>5 DEF TmsMsg
  <2>2. QED
    BY <2>1 DEF UpdateFrom, UpdateFromTm2b, Entry
<1>6. CASE m \in FireMsg \cup OtherMsg
  <2>1. m.msg \in {"Fire2B_state", "Other"}
    BY <1>6 DEF FireMsg, OtherMsg
  <2>2. QED
    BY <2>1 DEF UpdateFrom
<1>7. QED
  BY <1>1, <1>2, <1>3, <1>4, <1>5, <1>6 DEF BmsMsg

\* onDeviceData keeps the entry's type and recomputes hv_allow_close.
LEMMA BmsOnDeviceDataFacts ==
  ASSUME NEW x \in Entry, NEW m \in BmsMsg, NEW ts \in Nat
  PROVE  /\ BmsOnDeviceData(x, m, ts) \in Entry
         /\ BmsOnDeviceData(x, m, ts).allow = ~HvShouldOpen(BmsOnDeviceData(x, m, ts))
<1> DEFINE y == UpdateFrom(Arrived(x, m, ts), m)
<1>1. y \in Entry
  BY ArrivedType, UpdateFromType
<1> HIDE DEF y
<1>2. HvShouldOpen(y) \in BOOLEAN
  BY <1>1 DEF HvShouldOpen, Entry
<1>3. [y EXCEPT !.allow = ~HvShouldOpen(y)] \in Entry
  BY <1>1, <1>2 DEF Entry
<1>4. [y EXCEPT !.allow = ~HvShouldOpen(y)].allow =
        ~HvShouldOpen([y EXCEPT !.allow = ~HvShouldOpen(y)])
  BY <1>1, <1>2 DEF Entry, HvShouldOpen
<1>5. QED
  BY <1>3, <1>4 DEF BmsOnDeviceData, y

\* A health pass keeps the entry's type and the signals.
LEMMA UpdateBmsHealthFacts ==
  ASSUME NEW x \in Entry, NEW ts \in Nat
  PROVE  /\ UpdateBmsHealth(x, ts) \in Entry
         /\ UpdateBmsHealth(x, ts).allow = x.allow
         /\ HvShouldOpen(UpdateBmsHealth(x, ts)) = HvShouldOpen(x)
         /\ UpdateBmsHealth(x, ts).last = x.last
         /\ UpdateBmsHealth(x, ts).lastRx = x.lastRx
         /\ UpdateBmsHealth(x, ts).seen = x.seen
         /\ UpdateBmsHealth(x, ts).fresh = GroupFresh(x, ts)
         /\ UpdateBmsHealth(x, ts).online = (OfflineReason(x, ts) = 0)
         /\ UpdateBmsHealth(x, ts).stale =
              \E g \in Group : x.last[g] > 0 /\ ~GroupFresh(x, ts)[g]
<1>1. GroupFresh(x, ts) \in [Group -> BOOLEAN]
  BY DEF GroupFresh, CalcFreshByTimeout
<1>2. OfflineReason(x, ts) \in 0..2
  BY DEF OfflineReason
<1>3. (\E g \in Group : x.last[g] > 0 /\ ~GroupFresh(x, ts)[g]) \in BOOLEAN
  OBVIOUS
<1>4. (OfflineReason(x, ts) = 0) \in BOOLEAN
  OBVIOUS
<1>5. QED
  BY <1>1, <1>2, <1>3, <1>4 DEF UpdateBmsHealth, Entry, HvShouldOpen

\* What an open gate says of the entry's flags and signals.
LEMMA AllowCloseFacts ==
  ASSUME NEW x \in Entry, x.allow = ~HvShouldOpen(x), SafetyBlockReason(x) = "AllowClose"
  PROVE  /\ \A g \in Group : x.last[g] # 0 /\ x.fresh[g]
         /\ NothingBlocks(x)
<1>1. /\ ~Absent(x, "B2V_ST2") /\ ~Absent(x, "B2V_Fault1") /\ ~Absent(x, "B2V_Fault2")
      /\ ~Absent(x, "B2V_CurrentLimit")
      /\ ~x.rqOff /\ ~(x.level >= 2) /\ ~(x.tms >= 2) /\ x.allow
  BY DEF SafetyBlockReason
<1>2. \A g \in Group : x.last[g] # 0 /\ x.fresh[g]
  BY <1>1 DEF Absent, Group
<1>3. ~x.blocks["B2V_Fault1"] /\ ~x.blocks["B2V_Fault2"]
  BY <1>1 DEF HvShouldOpen
<1>4. x.level < 2 /\ x.tms < 2
  BY <1>1 DEF Entry
<1>5. QED
  BY <1>1, <1>2, <1>3, <1>4 DEF NothingBlocks

\* A fresh stamp, seen by a handler at most Lag late, is a recent one.
LEMMA FreshIsRecent ==
  ASSUME NEW ts \in Nat, NEW t \in Nat, NEW timeout \in Nat, now \in Nat,
         now <= ts + Lag, CalcFreshByTimeout(ts, t, timeout)
  PROVE  t # 0 /\ now <= t + timeout + Lag
  BY EngineAssumption DEF CalcFreshByTimeout

\* The gate gives one of the reasons of a command.
LEMMA ReasonType == ASSUME NEW x PROVE SafetyBlockReason(x) \in CmdReason
  BY DEF SafetyBlockReason, CmdReason

\* The command steps of a tick keep the command's type; the clamp leaves PowerOn
\* only where the gate is open.
LEMMA TickCmdFacts ==
  ASSUME NEW c \in CmdState, NEW x \in Entry, NEW l \in Latch
  PROVE  /\ TickCmd(c, x, l) \in CmdState
         /\ BmsTx /\ TickCmd(c, x, l).hv = PowerOn => SafetyBlockReason(x) = "AllowClose"
<1> DEFINE r == RebuildDesired(c, x)
           b == BusinessDesired(r, l)
<1>1. BusinessHvOnOff(l) \in {PowerOn, PowerOff}
  BY DEF BusinessHvOnOff, PowerOn, PowerOff
<1>2. r \in CmdState
  BY ReasonType DEF RebuildDesired, CmdState
<1>3. b \in CmdState /\ BusinessDesired(c, l) \in CmdState
  BY <1>1, <1>2 DEF BusinessDesired, CmdState
<1> HIDE DEF r, b
<1>4. EnforceSafety(b, x) \in CmdState
  <2>1. "AllowClose" \in CmdReason /\ "FallbackPowerOff" \in CmdReason
    BY DEF CmdReason
  <2>2. QED
    BY <1>3, <2>1, ReasonType DEF EnforceSafety, CmdState
<1>5. EnforceSafety(b, x).hv = PowerOn => SafetyBlockReason(x) = "AllowClose"
  BY <1>3 DEF EnforceSafety, CmdState, PowerOn, PowerOff
<1>6. QED
  BY <1>3, <1>4, <1>5 DEF TickCmd, r, b

-----------------------------------------------------------------------------
(* The invariant.                                                          *)

\* hv_allow_close agrees with the signals; a critical group that was heard and is
\* not fresh makes the entry stale; nothing is online before its first frame.
EntryOK(x) ==
  /\ x.allow = ~HvShouldOpen(x)
  /\ \A g \in Group : x.last[g] # 0 /\ ~x.fresh[g] => x.stale
  /\ ~x.seen => ~x.online

EntryInv == \A i \in Instance : EntryOK(bms[i])

\* A health pass over all entries keeps their types and EntryInv.
LEMMA HealthPass ==
  ASSUME TypeOK, EntryInv, NEW ts \in Nat
  PROVE  /\ UpdateBmsRuntimeHealth(ts) \in [Instance -> Entry]
         /\ \A i \in Instance : EntryOK(UpdateBmsRuntimeHealth(ts)[i])
<1> DEFINE x(i) == UpdateBmsRuntimeHealth(ts)[i]
<1>1. ASSUME NEW i \in Instance
      PROVE  x(i) \in Entry /\ EntryOK(x(i))
  <2>1. bms[i] \in Entry /\ EntryOK(bms[i])
    BY DEF TypeOK, EntryInv
  <2>2. CASE bms[i].seen
    <3>1. x(i) = UpdateBmsHealth(bms[i], ts)
      BY <2>2 DEF UpdateBmsRuntimeHealth
    <3> DEFINE h == UpdateBmsHealth(bms[i], ts)
    <3>2. /\ h \in Entry /\ h.allow = bms[i].allow
          /\ HvShouldOpen(h) = HvShouldOpen(bms[i])
          /\ h.last = bms[i].last /\ h.fresh = GroupFresh(bms[i], ts)
          /\ h.seen = bms[i].seen
          /\ h.stale = \E g \in Group : bms[i].last[g] > 0 /\ ~GroupFresh(bms[i], ts)[g]
      BY <2>1, UpdateBmsHealthFacts
    <3> HIDE DEF h
    <3>3. h.allow = ~HvShouldOpen(h)
      BY <2>1, <3>2 DEF EntryOK
    <3>4. ASSUME NEW g \in Group, h.last[g] # 0, ~h.fresh[g] PROVE h.stale
      <4>1. bms[i].last[g] \in Nat
        BY <2>1 DEF Entry
      <4>2. bms[i].last[g] > 0 /\ ~GroupFresh(bms[i], ts)[g]
        BY <3>2, <3>4, <4>1
      <4>3. QED
        BY <3>2, <4>2
    <3>5. x(i) = h
      BY <3>1 DEF h
    <3> HIDE DEF x
    <3>6. h.seen
      BY <2>2, <3>2
    <3>7. QED
      BY <3>2, <3>3, <3>4, <3>5, <3>6 DEF EntryOK
  <2>3. CASE ~bms[i].seen
    BY <2>1, <2>3 DEF UpdateBmsRuntimeHealth
  <2>4. QED
    BY <2>2, <2>3
<1>2. UpdateBmsRuntimeHealth(ts) = [i \in Instance |-> x(i)]
  BY DEF UpdateBmsRuntimeHealth
<1>3. QED
  BY <1>1, <1>2

-----------------------------------------------------------------------------
(* Type correctness.                                                       *)

\* Receiving a PCU frame and ageing a PCU keep its type.
LEMMA PcuDataType ==
  ASSUME NEW st \in PcuState, NEW m \in PcuMsg, NEW ts \in Nat
  PROVE  PcuOnDeviceData(st, m, ts) \in PcuState
  BY DEF PcuOnDeviceData, PcuState, PcuMsg

\* Ageing a PCU keeps its type.
LEMMA PcuHealthType ==
  ASSUME NEW st \in PcuState, NEW ts \in Nat
  PROVE  UpdatePcuHealth(st, ts) \in PcuState
<1>1. PcuOfflineReason(st, ts) \in 0..3 /\ (PcuOfflineReason(st, ts) = 0) \in BOOLEAN
  BY DEF PcuOfflineReason
<1>2. QED
  BY <1>1 DEF UpdatePcuHealth, PcuState

\* The business latches stay Boolean.
LEMMA LatchType ==
  ASSUME NEW l \in Latch, NEW s \in IoSample, NEW E, NEW a \in BOOLEAN, NEW g \in BOOLEAN,
         NEW p \in BOOLEAN
  PROVE  EvaluateLatch(l, s, E, a, g, p) \in Latch
<1> DEFINE e == EvaluateLatch(l, s, E, a, g, p)
<1>1. (l.off \/ p \/ s.estop \/ a \/ g) \in BOOLEAN
  OBVIOUS
<1>2. (\/ l.on
       \/ /\ GunStateAllOk(s) /\ ~s.estop
          /\ \A x \in E : x.hvOn
          /\ \A x \in E : ~x.charging) \in BOOLEAN
  OBVIOUS
<1>3. QED
  BY <1>1, <1>2 DEF EvaluateLatch, Latch

\* The frames sent to a PCU are well formed.
LEMMA FrameTypes ==
  ASSUME NEW p \in Pcu, NEW E \in [Instance -> Entry], NEW s \in IoSample
  PROVE  /\ CtrlFrame(p, E, s) \in [pcu : Pcu, plug : BOOLEAN, estop : BOOLEAN,
                                    battEstop : [PcuBatt -> BOOLEAN], enable : BOOLEAN]
         /\ StatusFrame(p, E) \in [pcu : Pcu, power : [PcuBatt -> Nat]]
<1>1. ASSUME NEW b \in PcuBatt
      PROVE  BmsCriticalForPcu(E[b]) \in BOOLEAN /\ CalcPcuDischargePower(E[b]) \in Nat
  <2>1. E[b] \in Entry
    BY EngineAssumption
  <2>2. CalcPcuDischargePower(E[b]) \in Nat
    BY <2>1, TimeoutAssumption DEF CalcPcuDischargePower, Entry
  <2>3. BmsCriticalForPcu(E[b]) \in BOOLEAN
    BY DEF BmsCriticalForPcu
  <2>4. QED
    BY <2>2, <2>3
<1>2. PcuPlugState(s) \in BOOLEAN /\ s.estop \in BOOLEAN
  BY DEF PcuPlugState, IoSample
<1>3. [b \in PcuBatt |-> BmsCriticalForPcu(E[b])] \in [PcuBatt -> BOOLEAN]
  BY <1>1
<1>4. (~s.estop /\ \A b \in PcuBatt : ~[c \in PcuBatt |-> BmsCriticalForPcu(E[c])][b])
        \in BOOLEAN
  OBVIOUS
<1>5. [b \in PcuBatt |-> CalcPcuDischargePower(E[b])] \in [PcuBatt -> Nat]
  BY <1>1
<1>6. CtrlFrame(p, E, s) \in [pcu : Pcu, plug : BOOLEAN, estop : BOOLEAN,
                             battEstop : [PcuBatt -> BOOLEAN], enable : BOOLEAN]
  BY <1>2, <1>3, <1>4 DEF CtrlFrame
<1>7. StatusFrame(p, E) \in [pcu : Pcu, power : [PcuBatt -> Nat]]
  BY <1>5 DEF StatusFrame
<1>8. QED
  BY <1>6, <1>7

\* The initial context is well typed and consistent, and nothing has been sent.
LEMMA EngineInit ==
  Init => TypeOK /\ EntryInv /\ outBms = {} /\ outCtrl = {}
<1> SUFFICES ASSUME Init PROVE TypeOK /\ EntryInv /\ outBms = {} /\ outCtrl = {}
  OBVIOUS
<1>1. bms \in [Instance -> Entry] /\ cmd \in [Instance -> CmdState]
  BY NewEntryType DEF Init, InitCmd, CmdState, CmdReason
<1>2. pcu \in [Pcu -> PcuState]
  BY DEF Init, InitPcu, PcuState
<1>3. /\ fireAlarm \in [Instance -> BOOLEAN] /\ smoke \in BOOLEAN /\ gas \in BOOLEAN
      /\ latch \in Latch /\ io \in IoSample
  <2>1. fireAlarm \in [Instance -> BOOLEAN] /\ smoke \in BOOLEAN /\ gas \in BOOLEAN
    BY DEF Init
  <2>2. latch \in Latch
    BY DEF Init, Latch
  <2>3. io \in IoSample
    BY DEF Init, IoSample
  <2>4. QED
    BY <2>1, <2>2, <2>3
<1>4. /\ now \in Nat /\ tickTs \in Nat /\ bmsTs \in Nat
      /\ hbSince \in [Pcu -> [hb : Nat, since : Nat]]
      /\ pcuTx \in [Pcu -> [due : Nat, hb : Nat]]
      /\ outBms = {} /\ outCtrl = {} /\ outStatus = {}
  BY DEF Init
<1>5. TypeOK
  BY <1>1, <1>2, <1>3, <1>4 DEF TypeOK
<1>6. NewEntry.allow = ~HvShouldOpen(NewEntry)
  <2>1. /\ NewEntry.rqOff = FALSE /\ NewEntry.level = 0 /\ NewEntry.fire = 0
        /\ NewEntry.blocks = [f \in {"B2V_Fault1", "B2V_Fault2"} |-> FALSE]
        /\ NewEntry.allow = TRUE
    BY DEF NewEntry
  <2>2. ~HvShouldOpen(NewEntry)
    BY <2>1 DEF HvShouldOpen
  <2>3. QED
    BY <2>1, <2>2
<1>7. \A g \in Group : NewEntry.last[g] = 0
  BY DEF NewEntry
<1>8. EntryInv
  <2>1. NewEntry.online = FALSE
    BY DEF NewEntry
  <2>2. EntryOK(NewEntry)
    BY <1>6, <1>7, <2>1 DEF EntryOK
  <2>3. QED
    BY <2>2 DEF Init, EntryInv
<1>9. QED
  BY <1>4, <1>5, <1>8

\* A frame received from a BMS keeps the types and EntryInv.
LEMMA BmsDataStep ==
  ASSUME TypeOK, EntryInv, NEW i \in Instance, NEW m \in BmsInputs,
         NEW ts \in Stamps(bmsTs), OnBmsData(i, m, ts)
  PROVE  TypeOK' /\ EntryInv'
<1>1. ts \in Nat /\ m \in BmsMsg /\ bms[i] \in Entry
  BY EngineAssumption DEF Stamps, TypeOK
<1> DEFINE y == BmsOnDeviceData(bms[i], m, ts)
<1>2. y \in Entry /\ y.allow = ~HvShouldOpen(y)
  BY <1>1, BmsOnDeviceDataFacts
<1>3. /\ \A g \in Group : y.last[g] # 0 /\ ~y.fresh[g] =>
           bms[i].last[g] # 0 /\ ~bms[i].fresh[g] /\ y.stale = bms[i].stale
      /\ y.seen
  <2> DEFINE a == Arrived(bms[i], m, ts)
  <2>1. a \in Entry
    BY <1>1, ArrivedType
  <2>2. \A g \in Group : a.last[g] # 0 /\ ~a.fresh[g] =>
          bms[i].last[g] # 0 /\ ~bms[i].fresh[g]
    BY <1>1 DEF Arrived, Entry
  <2>3. a.stale = bms[i].stale /\ a.seen
    BY <1>1 DEF Arrived, Entry
  <2> HIDE DEF a
  <2>4. /\ UpdateFrom(a, m).last = a.last /\ UpdateFrom(a, m).fresh = a.fresh
        /\ UpdateFrom(a, m).stale = a.stale /\ UpdateFrom(a, m).seen = a.seen
    BY <2>1 DEF UpdateFrom, UpdateFromSt1, UpdateFromSt2, UpdateFromCurrentLimit,
                UpdateFromFault1, UpdateFromFault2, UpdateFromTm2b, Entry
  <2>5. UpdateFrom(a, m) \in Entry
    BY <1>1, <2>1, UpdateFromType
  <2> DEFINE u == UpdateFrom(a, m)
  <2>6. y = [u EXCEPT !.allow = ~HvShouldOpen(u)]
    BY DEF BmsOnDeviceData, a
  <2> HIDE DEF u
  <2>7. y.last = u.last /\ y.fresh = u.fresh /\ y.stale = u.stale /\ y.seen = u.seen
    BY <2>5, <2>6 DEF Entry, u
  <2>8. QED
    BY <2>2, <2>3, <2>4, <2>7 DEF u
<1> HIDE DEF y
<1>4. bms' = [bms EXCEPT ![i] = y]
  BY DEF OnBmsData, y
<1>5. EntryInv'
  <2>1. EntryOK(y)
    BY <1>2, <1>3 DEF EntryOK, EntryInv
  <2>2. \A j \in Instance : EntryOK(bms'[j])
    BY <1>4, <2>1 DEF EntryInv, TypeOK
  <2>3. QED
    BY <2>2 DEF EntryInv, EntryOK, HvShouldOpen
<1>6. fireAlarm' \in [Instance -> BOOLEAN]
  <2>1. m.msg = "Fire2B_state" => m.alarm \in BOOLEAN
    BY <1>1 DEF BmsMsg, St1Msg, St2Msg, LimitMsg, FaultMsg, TmsMsg, FireMsg, OtherMsg
  <2>2. QED
    BY <2>1 DEF OnBmsData, TypeOK
<1>7. bms' \in [Instance -> Entry]
  BY <1>2, <1>4 DEF TypeOK
<1>8. QED
  BY <1>1, <1>5, <1>6, <1>7 DEF OnBmsData, NoCommands, envVars, TypeOK

\* A tick keeps the types and EntryInv.
LEMMA TickStep ==
  ASSUME TypeOK, EntryInv, NEW ts \in Stamps(tickTs), OnTick(ts)
  PROVE  TypeOK' /\ EntryInv'
<1>1. ts \in Nat
  BY DEF Stamps
<1> DEFINE aged == UpdateBmsRuntimeHealth(ts)
           agedPcu == UpdatePcuRuntimeHealth(ts)
           someEstop == \E p \in Pcu : agedPcu[p].estop
           newLatch == EvaluateLatch(latch, io, {aged[i] : i \in Instance}, smoke, gas,
                                     someEstop)
           desired == [i \in Instance |-> TickCmd(cmd[i], aged[i], newLatch)]
           served == {p \in PcuTx : PcuDue(p, ts)}
<1>2. /\ tickTs' = ts /\ bms' = aged /\ pcu' = agedPcu /\ latch' = newLatch
      /\ cmd' = [i \in Instance |->
                   IF TickSends(desired[i], ts) THEN Emitted(desired[i], ts) ELSE desired[i]]
      /\ outBms' = {[to |-> i, hv |-> desired[i].hv] :
                      i \in {j \in Instance : TickSends(desired[j], ts)}}
      /\ pcuTx' = [p \in Pcu |->
                     IF p \in served
                     THEN [due |-> ts + PcuPeriod, hb |-> (pcuTx[p].hb + 1) % LifeMod]
                     ELSE pcuTx[p]]
      /\ outCtrl' = {CtrlFrame(p, aged, io) : p \in served}
      /\ outStatus' = {StatusFrame(p, aged) : p \in served}
      /\ UNCHANGED <<now, bmsTs, fireAlarm, io, smoke, gas, hbSince>>
  BY DEF OnTick
<1>3. /\ aged \in [Instance -> Entry]
      /\ \A i \in Instance : EntryOK(aged[i])
  BY <1>1, HealthPass
<1>4. agedPcu \in [Pcu -> PcuState]
  BY <1>1, PcuHealthType DEF UpdatePcuRuntimeHealth, TypeOK
<1>5. newLatch \in Latch
  <2>1. someEstop \in BOOLEAN
    OBVIOUS
  <2> HIDE DEF aged, someEstop
  <2>2. QED
    BY <2>1, LatchType DEF TypeOK
<1> HIDE DEF aged, agedPcu, newLatch
<1>6. desired \in [Instance -> CmdState]
  BY <1>3, <1>5, TickCmdFacts DEF TypeOK
<1> HIDE DEF desired
<1>7. cmd' \in [Instance -> CmdState]
  <2>1. ASSUME NEW c \in CmdState PROVE Emitted(c, ts) \in CmdState
    <3>1. c.life \in Nat
      BY DEF CmdState
    <3>2. (c.life + 1) % LifeMod \in Nat
      BY <3>1, CommandAssumption
    <3>3. QED
      BY <1>1, <3>2 DEF Emitted, CmdState
  <2>2. QED
    BY <1>2, <1>6, <2>1
<1>8. outBms' \subseteq [to : Instance, hv : {PowerOn, PowerOff}]
  <2>1. \A i \in Instance : desired[i].hv \in {PowerOn, PowerOff}
    BY <1>6 DEF CmdState
  <2>2. QED
    BY <1>2, <2>1
<1>9. pcuTx' \in [Pcu -> [due : Nat, hb : Nat]]
  <2>1. \A p \in Pcu : pcuTx[p] \in [due : Nat, hb : Nat]
    BY DEF TypeOK
  <2>2. \A p \in Pcu : [due |-> ts + PcuPeriod, hb |-> (pcuTx[p].hb + 1) % LifeMod]
                         \in [due : Nat, hb : Nat]
    BY <1>1, <2>1, EngineAssumption, CommandAssumption
  <2>3. QED
    BY <1>2, <2>1, <2>2
<1>10. /\ outCtrl' \subseteq [pcu : Pcu, plug : BOOLEAN, estop : BOOLEAN,
                              battEstop : [PcuBatt -> BOOLEAN], enable : BOOLEAN]
       /\ outStatus' \subseteq [pcu : Pcu, power : [PcuBatt -> Nat]]
  <2>1. io \in IoSample /\ served \subseteq Pcu
    BY EngineAssumption DEF TypeOK
  <2>2. ASSUME NEW p \in served
        PROVE  /\ CtrlFrame(p, aged, io) \in [pcu : Pcu, plug : BOOLEAN, estop : BOOLEAN,
                                    battEstop : [PcuBatt -> BOOLEAN], enable : BOOLEAN]
               /\ StatusFrame(p, aged) \in [pcu : Pcu, power : [PcuBatt -> Nat]]
    BY <1>3, <2>1, FrameTypes
  <2> HIDE DEF served
  <2>3. QED
    BY <1>2, <2>2
<1>11. EntryInv'
  BY <1>2, <1>3 DEF EntryInv, EntryOK, HvShouldOpen
<1>12. QED
  <2> HIDE DEF served
  <2>1. now' \in Nat /\ tickTs' \in Nat /\ bmsTs' \in Nat
    BY <1>1, <1>2 DEF TypeOK
  <2>2. bms' \in [Instance -> Entry] /\ pcu' \in [Pcu -> PcuState] /\ latch' \in Latch
    BY <1>2, <1>3, <1>4, <1>5
  <2>3. /\ fireAlarm' \in [Instance -> BOOLEAN] /\ io' \in IoSample
        /\ smoke' \in BOOLEAN /\ gas' \in BOOLEAN
        /\ hbSince' \in [Pcu -> [hb : Nat, since : Nat]]
    BY <1>2 DEF TypeOK
  <2>4. QED
    BY <1>7, <1>8, <1>9, <1>10, <1>11, <2>1, <2>2, <2>3 DEF TypeOK

\* Every other step keeps the types and EntryInv and sends nothing.
LEMMA QuietStep ==
  ASSUME TypeOK, EntryInv, [Next]_vars
  PROVE  \/ \E ts \in Stamps(tickTs) : OnTick(ts)
         \/ UNCHANGED vars
         \/ TypeOK' /\ EntryInv' /\ outBms' = {} /\ outCtrl' = {} /\ outStatus' = {}
<1>1. CASE Advance
  <2>1. now' \in Nat
    BY <1>1 DEF Advance, TypeOK
  <2>2. UNCHANGED <<tickTs, bmsTs, bms, fireAlarm, cmd, latch, io, smoke, gas, hbSince, pcu,
                    pcuTx>> /\ outBms' = {} /\ outCtrl' = {} /\ outStatus' = {}
    BY <1>1 DEF Advance, NoCommands, envVars
  <2>3. QED
    BY <2>1, <2>2 DEF TypeOK, EntryInv, EntryOK, HvShouldOpen
<1>2. CASE \E i \in Instance, m \in BmsInputs, ts \in Stamps(bmsTs) : OnBmsData(i, m, ts)
  <2>1. outBms' = {} /\ outCtrl' = {} /\ outStatus' = {}
    BY <1>2 DEF OnBmsData, NoCommands
  <2>2. QED
    BY <1>2, <2>1, BmsDataStep
<1>3. CASE \E p \in Pcu, m \in PcuInputs : \E ts \in Stamps(pcu[p].lastRx) : OnPcuData(p, m, ts)
  <2>1. PICK p \in Pcu, m \in PcuInputs :
          \E ts \in Stamps(pcu[p].lastRx) : OnPcuData(p, m, ts)
    BY <1>3
  <2>a. PICK ts \in Stamps(pcu[p].lastRx) : OnPcuData(p, m, ts)
    BY <2>1
  <2>2. ts \in Nat /\ m \in PcuMsg /\ m.hb \in Nat /\ pcu[p] \in PcuState
    BY EngineAssumption DEF Stamps, TypeOK, PcuMsg
  <2>3. pcu' \in [Pcu -> PcuState]
    BY <2>a, <2>2, PcuDataType DEF OnPcuData, TypeOK
  <2>4. hbSince' \in [Pcu -> [hb : Nat, since : Nat]]
    <3>1. [hb |-> m.hb, since |-> ts] \in [hb : Nat, since : Nat]
      BY <2>2
    <3>2. QED
      BY <2>a, <3>1 DEF OnPcuData, TypeOK
  <2>5. UNCHANGED <<now, tickTs, bmsTs, bms, fireAlarm, cmd, latch, io, smoke, gas, pcuTx>>
        /\ outBms' = {} /\ outCtrl' = {} /\ outStatus' = {}
    BY <2>a DEF OnPcuData, NoCommands, envVars
  <2>6. QED
    BY <2>3, <2>4, <2>5 DEF TypeOK, EntryInv, EntryOK, HvShouldOpen
<1>4. CASE \E alarm \in SmokeInputs : OnSmokeData(alarm)
  <2>1. smoke' \in BOOLEAN
    BY <1>4, EngineAssumption DEF OnSmokeData
  <2>2. UNCHANGED <<now, tickTs, bmsTs, bms, fireAlarm, cmd, latch, io, gas, hbSince, pcu,
                    pcuTx>> /\ outBms' = {} /\ outCtrl' = {} /\ outStatus' = {}
    BY <1>4 DEF OnSmokeData, NoCommands
  <2>3. QED
    BY <2>1, <2>2 DEF TypeOK, EntryInv, EntryOK, HvShouldOpen
<1>5. CASE \E high \in GasInputs : OnGasData(high)
  <2>1. gas' \in BOOLEAN
    BY <1>5 DEF OnGasData
  <2>2. UNCHANGED <<now, tickTs, bmsTs, bms, fireAlarm, cmd, latch, io, smoke, hbSince, pcu,
                    pcuTx>> /\ outBms' = {} /\ outCtrl' = {} /\ outStatus' = {}
    BY <1>5 DEF OnGasData, NoCommands
  <2>3. QED
    BY <2>1, <2>2 DEF TypeOK, EntryInv, EntryOK, HvShouldOpen
<1>6. CASE \E s \in IoInputs : OnIoSample(s)
  <2>1. io' \in IoSample
    BY <1>6, EngineAssumption DEF OnIoSample
  <2>2. UNCHANGED <<now, tickTs, bmsTs, bms, fireAlarm, cmd, latch, smoke, gas, hbSince, pcu,
                    pcuTx>> /\ outBms' = {} /\ outCtrl' = {} /\ outStatus' = {}
    BY <1>6 DEF OnIoSample, NoCommands
  <2>3. QED
    BY <2>1, <2>2 DEF TypeOK, EntryInv, EntryOK, HvShouldOpen
<1>7. CASE \E s \in SnapInputs, ts \in Stamps(1) : OnSnapshot(s, ts)
  <2>1. PICK s \in SnapInputs, ts \in Stamps(1) : OnSnapshot(s, ts)
    BY <1>7
  <2>2. ts \in Nat
    BY DEF Stamps
  <2> DEFINE aged == UpdateBmsRuntimeHealth(ts)
  <2>3. /\ aged \in [Instance -> Entry]
        /\ \A i \in Instance : EntryOK(aged[i])
    BY <2>2, HealthPass
  <2>4. bms' = aged
    BY <2>1 DEF OnSnapshot
  <2> HIDE DEF aged
  <2>5. EntryInv'
    BY <2>3, <2>4 DEF EntryInv, EntryOK, HvShouldOpen
  <2>6. pcu' \in [Pcu -> PcuState]
    BY <2>1, <2>2, PcuHealthType DEF OnSnapshot, UpdatePcuRuntimeHealth, TypeOK
  <2>7. smoke' \in BOOLEAN /\ gas' \in BOOLEAN
    BY <2>1 DEF OnSnapshot
  <2>8. UNCHANGED <<now, tickTs, bmsTs, fireAlarm, cmd, latch, io, hbSince, pcuTx>>
        /\ outBms' = {} /\ outCtrl' = {} /\ outStatus' = {}
    BY <2>1 DEF OnSnapshot, NoCommands
  <2>9. QED
    BY <2>3, <2>4, <2>5, <2>6, <2>7, <2>8 DEF TypeOK
<1>8. QED
  BY <1>1, <1>2, <1>3, <1>4, <1>5, <1>6, <1>7 DEF Next

\* The types and EntryInv are inductive.
LEMMA InductiveStep ==
  ASSUME TypeOK, EntryInv, [Next]_vars
  PROVE  TypeOK' /\ EntryInv'
<1>1. CASE UNCHANGED vars
  BY <1>1 DEF vars, envVars, outVars, TypeOK, EntryInv, EntryOK, HvShouldOpen
<1>2. QED
  BY <1>1, QuietStep, TickStep

\* Every state of LogicContext and every command sent has its type, whatever frames,
\* samples and snapshots arrive and in whatever order their stamps are handled.
THEOREM TypeCorrect == Spec => []TypeOK
<1>1. Init => TypeOK /\ EntryInv
  BY EngineInit
<1>2. TypeOK /\ EntryInv /\ [Next]_vars => TypeOK' /\ EntryInv'
  BY InductiveStep
<1>3. QED
  BY <1>1, <1>2, PTL DEF Spec

\* hv_allow_close and runtime_fault_stale never lag behind the signals and the group
\* flags they summarise, although frames and health passes update them separately.
THEOREM EntriesConsistent == Spec => []EntryInv
<1>1. Init => TypeOK /\ EntryInv
  BY EngineInit
<1>2. TypeOK /\ EntryInv /\ [Next]_vars => TypeOK' /\ EntryInv'
  BY InductiveStep
<1>3. QED
  BY <1>1, <1>2, PTL DEF Spec

-----------------------------------------------------------------------------
(* Safety of the commands.  They are computed from entries that the same   *)
(* tick has just aged, so an open gate speaks of the present.              *)

\* A health pass at ts: groups and instances it finds fresh were heard lately.
LEMMA AgedIsRecent ==
  ASSUME TypeOK, NEW i \in Instance, NEW ts \in Nat, now <= ts + Lag, bms[i].seen
  PROVE  LET x == UpdateBmsRuntimeHealth(ts)[i]
         IN  /\ \A g \in Group : x.fresh[g] => HeardLately(x, g)
             /\ x.online => now <= x.lastRx + InstanceTimeout + Lag
             /\ x.seen
<1> DEFINE x == UpdateBmsRuntimeHealth(ts)[i]
<1>1. bms[i] \in Entry /\ now \in Nat
  BY DEF TypeOK
<1>2. x = UpdateBmsHealth(bms[i], ts)
  BY DEF UpdateBmsRuntimeHealth
<1> HIDE DEF x
<1>3. /\ x.last = bms[i].last /\ x.lastRx = bms[i].lastRx /\ x.seen = bms[i].seen
      /\ x.fresh = GroupFresh(bms[i], ts)
      /\ x.online = (OfflineReason(bms[i], ts) = 0)
  BY <1>1, <1>2, UpdateBmsHealthFacts
<1>4. ASSUME NEW g \in Group, x.fresh[g] PROVE HeardLately(x, g)
  <2>1. bms[i].last[g] \in Nat /\ GroupTimeout[g] \in Nat
    BY <1>1, TimeoutAssumption DEF Entry
  <2>2. CalcFreshByTimeout(ts, bms[i].last[g], GroupTimeout[g])
    BY <1>3, <1>4 DEF GroupFresh
  <2>3. bms[i].last[g] # 0 /\ now <= bms[i].last[g] + GroupTimeout[g] + Lag
    BY <1>1, <2>1, <2>2, FreshIsRecent
  <2>4. QED
    BY <1>3, <2>3 DEF HeardLately
<1>5. ASSUME x.online PROVE now <= x.lastRx + InstanceTimeout + Lag
  <2>1. bms[i].lastRx \in Nat /\ InstanceTimeout \in Nat
    BY <1>1, TimeoutAssumption DEF Entry
  <2>2. CalcFreshByTimeout(ts, bms[i].lastRx, InstanceTimeout)
    <3>1. OfflineReason(bms[i], ts) = 0
      BY <1>3, <1>5
    <3>2. QED
      BY <3>1 DEF OfflineReason
  <2>3. QED
    BY <1>1, <1>3, <2>1, <2>2, FreshIsRecent
<1>6. QED
  BY <1>3, <1>4, <1>5 DEF x

\* An entry that exists after a health pass existed before it.
LEMMA SeenBefore ==
  ASSUME TypeOK, NEW i \in Instance, NEW ts \in Nat, UpdateBmsRuntimeHealth(ts)[i].seen
  PROVE  bms[i].seen
  BY DEF UpdateBmsRuntimeHealth

\* Where the PCU gate is open, the signals forbid nothing and no group is stale.
LEMMA NotCriticalFacts ==
  ASSUME NEW x \in Entry, EntryOK(x), ~BmsCriticalForPcu(x)
  PROVE  /\ x.seen /\ x.online
         /\ NothingBlocks(x)
         /\ \A g \in Group : x.last[g] # 0 => x.fresh[g]
<1>1. /\ x.seen /\ x.online /\ ~x.stale /\ ~x.rqOff /\ x.allow
      /\ ~(x.level >= 2) /\ ~(x.tms >= 2)
  BY DEF BmsCriticalForPcu
<1>2. x.level < 2 /\ x.tms < 2
  BY <1>1 DEF Entry
<1>3. ~x.blocks["B2V_Fault1"] /\ ~x.blocks["B2V_Fault2"]
  BY <1>1 DEF EntryOK, HvShouldOpen
<1>4. \A g \in Group : x.last[g] # 0 => x.fresh[g]
  BY <1>1 DEF EntryOK
<1>5. QED
  BY <1>1, <1>2, <1>3, <1>4 DEF NothingBlocks

\* The frames of a tick satisfy the three safety invariants.
LEMMA TickSafe ==
  ASSUME TypeOK, EntryInv, NEW ts \in Stamps(tickTs), OnTick(ts)
  PROVE  PowerOnOnlyIfSafe' /\ PcuEnableOnlyIfSafe' /\ PowerReportFresh'
<1>1. ts \in Nat /\ now <= ts + Lag
  BY DEF Stamps
<1> DEFINE aged == UpdateBmsRuntimeHealth(ts)
           newLatch == EvaluateLatch(latch, io, {aged[i] : i \in Instance}, smoke, gas,
                                     \E p \in Pcu : UpdatePcuRuntimeHealth(ts)[p].estop)
           desired == [i \in Instance |-> TickCmd(cmd[i], aged[i], newLatch)]
           served == {p \in PcuTx : PcuDue(p, ts)}
<1>2. /\ bms' = aged /\ latch' = newLatch /\ now' = now /\ io' = io
      /\ outBms' = {[to |-> i, hv |-> desired[i].hv] :
                      i \in {j \in Instance : TickSends(desired[j], ts)}}
      /\ outCtrl' = {CtrlFrame(p, aged, io) : p \in served}
      /\ outStatus' = {StatusFrame(p, aged) : p \in served}
  BY DEF OnTick
<1>3. \A i \in Instance : aged[i] \in Entry /\ EntryOK(aged[i])
  BY <1>1, HealthPass
<1>4. latch' \in Latch
  BY TickStep DEF TypeOK
<1>5. \A i \in Instance : aged[i].seen =>
        /\ \A g \in Group : aged[i].fresh[g] => HeardLately(aged[i], g)
        /\ aged[i].online => now <= aged[i].lastRx + InstanceTimeout + Lag
  BY <1>1, AgedIsRecent, SeenBefore
<1>6. newLatch \in Latch
  BY <1>2, <1>4
<1> HIDE DEF aged, newLatch
<1>7. PowerOnOnlyIfSafe'
  <2> SUFFICES ASSUME NEW f \in outBms', f.hv = PowerOn
               PROVE  /\ \A g \in Group : HeardLately(aged[f.to], g)
                      /\ NothingBlocks(aged[f.to])
    BY <1>2 DEF PowerOnOnlyIfSafe, HeardLately, NothingBlocks
  <2>1. PICK i \in Instance : TickSends(desired[i], ts) /\ f = [to |-> i, hv |-> desired[i].hv]
    BY <1>2
  <2>2. f.to = i /\ desired[i].hv = PowerOn /\ BmsTx
    BY <2>1 DEF TickSends
  <2>3. cmd[i] \in CmdState /\ aged[i] \in Entry /\ EntryOK(aged[i])
    BY <1>3 DEF TypeOK
  <2>4. SafetyBlockReason(aged[i]) = "AllowClose"
    BY <1>6, <2>2, <2>3, TickCmdFacts
  <2>5. (\A g \in Group : aged[i].last[g] # 0 /\ aged[i].fresh[g]) /\ NothingBlocks(aged[i])
    BY <2>3, <2>4, AllowCloseFacts DEF EntryOK
  <2>6. aged[i].seen
    BY <2>4 DEF SafetyBlockReason
  <2>7. QED
    BY <1>5, <2>2, <2>5, <2>6
<1>8. PcuEnableOnlyIfSafe'
  <2> SUFFICES ASSUME NEW f \in outCtrl', f.enable
               PROVE  /\ ~io.estop
                      /\ \A b \in PcuBatt :
                           /\ NothingBlocks(aged[b])
                           /\ \A g \in Group : aged[b].last[g] # 0 => HeardLately(aged[b], g)
                           /\ aged[b].seen /\ now <= aged[b].lastRx + InstanceTimeout + Lag
    BY <1>2 DEF PcuEnableOnlyIfSafe, HeardLately, NothingBlocks
  <2>1. PICK p \in served : f = CtrlFrame(p, aged, io)
    BY <1>2
  <2>2. ~io.estop /\ \A b \in PcuBatt : ~BmsCriticalForPcu(aged[b])
    BY <2>1 DEF CtrlFrame
  <2>3. ASSUME NEW b \in PcuBatt
        PROVE  /\ NothingBlocks(aged[b])
               /\ \A g \in Group : aged[b].last[g] # 0 => HeardLately(aged[b], g)
               /\ aged[b].seen /\ now <= aged[b].lastRx + InstanceTimeout + Lag
    <3>1. b \in Instance
      BY EngineAssumption
    <3>2. /\ aged[b].seen /\ aged[b].online /\ NothingBlocks(aged[b])
          /\ \A g \in Group : aged[b].last[g] # 0 => aged[b].fresh[g]
      BY <1>3, <2>2, <3>1, NotCriticalFacts
    <3>3. QED
      BY <1>5, <3>1, <3>2
  <2>4. QED
    BY <2>2, <2>3
<1>9. PowerReportFresh'
  <2> SUFFICES ASSUME NEW f \in outStatus', NEW b \in PcuBatt, f.power[b] > 0
               PROVE  HeardLately(aged[b], "B2V_ST2") /\ HeardLately(aged[b], "B2V_CurrentLimit")
    BY <1>2 DEF PowerReportFresh, HeardLately
  <2>1. PICK p \in served : f = StatusFrame(p, aged)
    BY <1>2
  <2>2. CalcPcuDischargePower(aged[b]) > 0
    BY <2>1 DEF StatusFrame
  <2>3. aged[b].online /\ aged[b].fresh["B2V_ST2"] /\ aged[b].fresh["B2V_CurrentLimit"]
    BY <2>2 DEF CalcPcuDischargePower
  <2>4. b \in Instance
    BY EngineAssumption
  <2>5. aged[b].seen
    BY <1>3, <2>3, <2>4 DEF EntryOK
  <2>6. "B2V_ST2" \in Group /\ "B2V_CurrentLimit" \in Group
    BY DEF Group
  <2>7. QED
    BY <1>5, <2>3, <2>4, <2>5, <2>6
<1>10. QED
  BY <1>7, <1>8, <1>9

\* The inductive invariant: the types, the consistency of the entries, and the three
\* statements about what was just sent.
IInv == TypeOK /\ EntryInv /\ PowerOnOnlyIfSafe /\ PcuEnableOnlyIfSafe /\ PowerReportFresh

\* IInv holds of every behaviour.
THEOREM Invariance == Spec => []IInv
<1>1. Init => IInv
  <2> SUFFICES ASSUME Init PROVE IInv
    OBVIOUS
  <2>1. TypeOK /\ EntryInv /\ outBms = {} /\ outCtrl = {}
    BY EngineInit
  <2>2. outStatus = {}
    BY DEF Init
  <2>3. QED
    BY <2>1, <2>2 DEF IInv, PowerOnOnlyIfSafe, PcuEnableOnlyIfSafe, PowerReportFresh
<1>2. IInv /\ [Next]_vars => IInv'
  <2> SUFFICES ASSUME IInv, [Next]_vars PROVE IInv'
    OBVIOUS
  <2>1. TypeOK /\ EntryInv
    BY DEF IInv
  <2>2. TypeOK' /\ EntryInv'
    BY <2>1, InductiveStep
  <2>3. PowerOnOnlyIfSafe' /\ PcuEnableOnlyIfSafe' /\ PowerReportFresh'
    <3>1. CASE UNCHANGED vars
      BY <3>1 DEF IInv, vars, envVars, outVars, PowerOnOnlyIfSafe, PcuEnableOnlyIfSafe,
                  PowerReportFresh, HeardLately, NothingBlocks
    <3>2. CASE outBms' = {} /\ outCtrl' = {} /\ outStatus' = {}
      BY <3>2 DEF PowerOnOnlyIfSafe, PcuEnableOnlyIfSafe, PowerReportFresh
    <3>3. CASE \E ts \in Stamps(tickTs) : OnTick(ts)
      BY <2>1, <3>3, TickSafe
    <3>4. QED
      BY <2>1, <3>1, <3>2, <3>3, QuietStep
  <2>4. QED
    BY <2>2, <2>3 DEF IInv
<1>3. QED
  BY <1>1, <1>2, PTL DEF Spec

\* emitPeriodicCommands never sends PowerOn to a BMS that is silent, stale or
\* forbids it, for any configuration and any interleaving of events.
THEOREM PowerOnSafe == Spec => []PowerOnOnlyIfSafe
<1>1. IInv => PowerOnOnlyIfSafe
  BY DEF IInv
<1>2. QED
  BY <1>1, Invariance, PTL

\* emitPcuPeriodicCommands_ never enables a PCU against an emergency stop or against
\* what a reported battery last said.
THEOREM PcuEnableSafe == Spec => []PcuEnableOnlyIfSafe
<1>1. IInv => PcuEnableOnlyIfSafe
  BY DEF IInv
<1>2. QED
  BY <1>1, Invariance, PTL

\* The status frame never reports power computed from values that timed out.
THEOREM PowerReportIsFresh == Spec => []PowerReportFresh
<1>1. IInv => PowerReportFresh
  BY DEF IInv
<1>2. QED
  BY <1>1, Invariance, PTL

\* The high-voltage gate and the PCU gate, two separate pieces of code, agree on
\* every battery all of whose critical groups have been received.
THEOREM GatesAlwaysAgree == Spec => []GatesAgree
<1>1. IInv => GatesAgree
  <2> SUFFICES ASSUME IInv, NEW i \in Instance, \A g \in Group : bms[i].last[g] # 0
               PROVE  BmsCriticalForPcu(bms[i]) <=> SafetyBlockReason(bms[i]) # "AllowClose"
    BY DEF GatesAgree
  <2>1. bms[i] \in Entry /\ EntryOK(bms[i])
    BY DEF IInv, TypeOK, EntryInv
  <2>2. ~BmsCriticalForPcu(bms[i]) => SafetyBlockReason(bms[i]) = "AllowClose"
    <3> SUFFICES ASSUME ~BmsCriticalForPcu(bms[i])
                 PROVE  SafetyBlockReason(bms[i]) = "AllowClose"
      OBVIOUS
    <3>1. \A g \in Group : ~Absent(bms[i], g)
      BY <2>1, NotCriticalFacts DEF Absent
    <3>2. QED
      BY <3>1 DEF SafetyBlockReason, BmsCriticalForPcu, Group
  <2>3. SafetyBlockReason(bms[i]) = "AllowClose" => ~BmsCriticalForPcu(bms[i])
    BY DEF SafetyBlockReason, BmsCriticalForPcu
  <2>4. QED
    BY <2>2, <2>3
<1>2. QED
  BY <1>1, Invariance, PTL

-----------------------------------------------------------------------------
(* Frozen heartbeats.                                                      *)

\* What the engine remembers of a heartbeat is when its value was first received.
HbInv ==
  \A p \in Pcu :
    /\ pcu[p].hasHb => /\ hbSince[p].since # 0
                       /\ hbSince[p].hb = pcu[p].hb
                       /\ hbSince[p].since = pcu[p].lastHbChange
    /\ ~pcu[p].hasHb => hbSince[p].since = 0

\* A health pass leaves the heartbeat alone.
LEMMA HealthKeepsHb ==
  ASSUME TypeOK, NEW ts \in Nat, NEW p \in Pcu
  PROVE  LET st == UpdatePcuRuntimeHealth(ts)[p]
         IN  /\ st.hasHb = pcu[p].hasHb /\ st.hb = pcu[p].hb
             /\ st.lastHbChange = pcu[p].lastHbChange
<1>1. pcu[p] \in PcuState
  BY DEF TypeOK
<1>2. UpdatePcuRuntimeHealth(ts)[p] = UpdatePcuHealth(pcu[p], ts)
  BY DEF UpdatePcuRuntimeHealth
<1>3. QED
  BY <1>1, <1>2 DEF UpdatePcuHealth, PcuState

\* A PCU frame keeps HbInv.
LEMMA PcuDataHb ==
  ASSUME TypeOK, HbInv, NEW p \in Pcu, NEW m \in PcuInputs,
         NEW ts \in Stamps(pcu[p].lastRx), OnPcuData(p, m, ts)
  PROVE  HbInv'
<1>1. ts \in Nat /\ ts # 0
  BY DEF Stamps, TypeOK
<1>2. /\ pcu \in [Pcu -> PcuState] /\ hbSince \in [Pcu -> [hb : Nat, since : Nat]]
      /\ pcu' = [pcu EXCEPT ![p] = PcuOnDeviceData(pcu[p], m, ts)]
      /\ hbSince' = [hbSince EXCEPT ![p] =
                       IF hbSince[p].since # 0 /\ hbSince[p].hb = m.hb
                       THEN hbSince[p] ELSE [hb |-> m.hb, since |-> ts]]
  BY DEF OnPcuData, TypeOK
<1>3. ASSUME NEW q \in Pcu, q # p
      PROVE  pcu'[q] = pcu[q] /\ hbSince'[q] = hbSince[q]
  BY <1>2, <1>3
<1>4. /\ pcu'[p].hasHb /\ pcu'[p].hb = m.hb
      /\ pcu'[p].lastHbChange = IF ~pcu[p].hasHb \/ pcu[p].hb # m.hb
                                THEN ts ELSE pcu[p].lastHbChange
  BY <1>2 DEF PcuOnDeviceData, PcuState
<1>5. /\ hbSince'[p].since # 0 /\ hbSince'[p].hb = m.hb
      /\ hbSince'[p].since = pcu'[p].lastHbChange
  <2>1. CASE pcu[p].hasHb /\ pcu[p].hb = m.hb
    <3>1. hbSince[p].since # 0 /\ hbSince[p].hb = m.hb
          /\ hbSince[p].since = pcu[p].lastHbChange
      BY <2>1 DEF HbInv
    <3>2. hbSince'[p] = hbSince[p] /\ pcu'[p].lastHbChange = pcu[p].lastHbChange
      BY <1>2, <1>4, <2>1, <3>1
    <3>3. QED
      BY <3>1, <3>2
  <2>2. CASE ~(pcu[p].hasHb /\ pcu[p].hb = m.hb)
    <3>1. ~(hbSince[p].since # 0 /\ hbSince[p].hb = m.hb)
      BY <2>2 DEF HbInv
    <3>2. hbSince'[p] = [hb |-> m.hb, since |-> ts] /\ pcu'[p].lastHbChange = ts
      BY <1>2, <1>4, <2>2, <3>1
    <3>3. QED
      BY <1>1, <3>2
  <2>3. QED
    BY <2>1, <2>2
<1>6. QED
  BY <1>3, <1>4, <1>5 DEF HbInv

\* Every step keeps HbInv.
LEMMA HbStep ==
  ASSUME TypeOK, HbInv, [Next]_vars
  PROVE  HbInv'
<1>1. CASE \E p \in Pcu, m \in PcuInputs : \E ts \in Stamps(pcu[p].lastRx) : OnPcuData(p, m, ts)
  BY <1>1, PcuDataHb
<1>2. ASSUME NEW ts \in Nat, pcu' = UpdatePcuRuntimeHealth(ts), hbSince' = hbSince
      PROVE  HbInv'
  <2>1. ASSUME NEW p \in Pcu
        PROVE  /\ pcu'[p].hasHb = pcu[p].hasHb /\ pcu'[p].hb = pcu[p].hb
               /\ pcu'[p].lastHbChange = pcu[p].lastHbChange
    BY <1>2, HealthKeepsHb
  <2>2. QED
    BY <1>2, <2>1 DEF HbInv
<1>3. CASE \E s \in SnapInputs, ts \in Stamps(1) : OnSnapshot(s, ts)
  BY <1>2, <1>3 DEF OnSnapshot, Stamps
<1>4. CASE \E ts \in Stamps(tickTs) : OnTick(ts)
  BY <1>2, <1>4 DEF OnTick, Stamps
<1>5. CASE UNCHANGED <<pcu, hbSince>>
  BY <1>5 DEF HbInv
<1>6. QED
  BY <1>1, <1>3, <1>4, <1>5
     DEF Next, vars, Advance, OnBmsData, OnSmokeData, OnGasData, OnIoSample

\* What FrozenPcuOffline says of one step.
FrozenStep ==
  \A p \in Pcu : tickTs' # tickTs /\ pcu'[p].online =>
    hbSince[p].since # 0 /\ now <= hbSince[p].since + PcuHbStale + Lag

\* Only a tick moves tickTs, and it finds a PCU online only by a recent change of
\* its heartbeat.
LEMMA FrozenOnTick ==
  ASSUME TypeOK, HbInv, [Next]_vars
  PROVE  FrozenStep
<1> SUFFICES ASSUME NEW p \in Pcu, tickTs' # tickTs, pcu'[p].online
             PROVE  hbSince[p].since # 0 /\ now <= hbSince[p].since + PcuHbStale + Lag
  BY DEF FrozenStep
<1>1. PICK ts \in Stamps(tickTs) : OnTick(ts)
  BY DEF Next, vars, Advance, OnBmsData, OnPcuData, OnSmokeData, OnGasData, OnIoSample,
         OnSnapshot
<1>2. ts \in Nat /\ now <= ts + Lag /\ now \in Nat
  BY DEF Stamps, TypeOK
<1>3. pcu[p] \in PcuState /\ pcu'[p] = UpdatePcuHealth(pcu[p], ts)
  BY <1>1 DEF OnTick, UpdatePcuRuntimeHealth, TypeOK
<1>4. PcuOfflineReason(pcu[p], ts) = 0
  BY <1>3 DEF UpdatePcuHealth, PcuState
<1>5. pcu[p].hasHb /\ PcuFresh(ts, pcu[p].lastHbChange, PcuHbStale)
  BY <1>4 DEF PcuOfflineReason
<1>6. pcu[p].lastHbChange \in Nat /\ PcuHbStale \in Nat /\ Lag \in Nat
  BY <1>3, PcuTimeoutAssumption, EngineAssumption DEF PcuState
<1>7. hbSince[p].since # 0 /\ hbSince[p].since = pcu[p].lastHbChange
  BY <1>5 DEF HbInv
<1>8. now <= pcu[p].lastHbChange + PcuHbStale + Lag
  BY <1>2, <1>5, <1>6 DEF PcuFresh
<1>9. QED
  BY <1>7, <1>8

\* A PCU whose heartbeat stands still is offline after the next tick, for any
\* timeouts, any delay of events and any order between frames and ticks.
THEOREM FrozenPcuIsOffline == Spec => FrozenPcuOffline
<1>1. Init => HbInv
  BY DEF Init, HbInv, InitPcu
<1>2. TypeOK /\ HbInv /\ [Next]_vars => HbInv'
  BY HbStep
<1>3. TypeOK /\ HbInv /\ [Next]_vars => [FrozenStep]_vars
  BY FrozenOnTick
<1>4. [][FrozenStep]_vars => FrozenPcuOffline
  BY PTL DEF FrozenPcuOffline, FrozenStep
<1>5. QED
  BY <1>1, <1>2, <1>3, <1>4, TypeCorrect, PTL DEF Spec

-----------------------------------------------------------------------------
(* Going offline.                                                          *)

\* Frames carry stamps of the past, and an online BMS has been heard.
HeardInv ==
  \A i \in Instance : /\ bms[i].lastRx <= now
                      /\ bms[i].online => bms[i].seen /\ bms[i].lastRx # 0

\* What a step that takes a BMS offline says of the last frame: it is older than
\* the timeout, or stamped after the health pass that judged it.
OverdueOrOvertaken ==
  \A i \in Instance : bms[i].online /\ ~bms'[i].online =>
    \/ now > bms[i].lastRx + InstanceTimeout
    \/ now < bms[i].lastRx + Lag

\* A frame stamps the entry and leaves its online flag to the next health pass.
LEMMA FrameStampsEntry ==
  ASSUME NEW x \in Entry, NEW m \in BmsMsg, NEW ts \in Nat
  PROVE  /\ BmsOnDeviceData(x, m, ts).seen /\ BmsOnDeviceData(x, m, ts).lastRx = ts
         /\ BmsOnDeviceData(x, m, ts).online = x.online
<1> DEFINE a == Arrived(x, m, ts)
           u == UpdateFrom(a, m)
<1>1. a \in Entry /\ u \in Entry
  BY ArrivedType, UpdateFromType
<1>2. a.seen /\ a.lastRx = ts /\ a.online = x.online
  BY DEF Arrived, Entry
<1> HIDE DEF a
<1>3. u.seen = a.seen /\ u.lastRx = a.lastRx /\ u.online = a.online
  BY <1>1 DEF UpdateFrom, UpdateFromSt1, UpdateFromSt2, UpdateFromCurrentLimit,
              UpdateFromFault1, UpdateFromFault2, UpdateFromTm2b, Entry
<1>4. BmsOnDeviceData(x, m, ts) = [u EXCEPT !.allow = ~HvShouldOpen(u)]
  BY DEF BmsOnDeviceData, a
<1> HIDE DEF u
<1>5. QED
  BY <1>1, <1>2, <1>3, <1>4 DEF Entry

\* y is entry x after a health pass at ts.
Judged(x, ts, y) ==
  /\ y.lastRx = x.lastRx /\ y.seen
  /\ y.online = CalcFreshByTimeout(ts, x.lastRx, InstanceTimeout)

\* What a health pass makes of an entry that exists.
LEMMA PassFacts ==
  ASSUME NEW x \in Entry, NEW ts \in Nat, x.seen
  PROVE  Judged(x, ts, UpdateBmsHealth(x, ts))
<1> DEFINE y == UpdateBmsHealth(x, ts)
           f == CalcFreshByTimeout(ts, x.lastRx, InstanceTimeout)
<1>1. y.lastRx = x.lastRx /\ y.seen = x.seen /\ y.online = (OfflineReason(x, ts) = 0)
  BY UpdateBmsHealthFacts
<1>2. f \in BOOLEAN
  BY DEF CalcFreshByTimeout
<1>3. OfflineReason(x, ts) = IF f THEN 0 ELSE 2
  BY <1>2 DEF OfflineReason
<1> HIDE DEF y, f
<1>4. (OfflineReason(x, ts) = 0) = f
  BY <1>2, <1>3
<1>5. y.online = f
  BY <1>1, <1>4
<1>6. QED
  BY <1>1, <1>5 DEF Judged, y, f

\* A health pass at ts finds a heard BMS offline for one of the two reasons only.
LEMMA PassJudges ==
  ASSUME TypeOK, HeardInv, NEW ts \in Nat, ts <= now, now <= ts + Lag,
         bms' = UpdateBmsRuntimeHealth(ts), now' = now
  PROVE  HeardInv' /\ OverdueOrOvertaken
<1> SUFFICES ASSUME NEW i \in Instance
             PROVE  /\ bms'[i].lastRx <= now
                    /\ bms'[i].online => bms'[i].seen /\ bms'[i].lastRx # 0
                    /\ bms[i].online /\ ~bms'[i].online =>
                         now > bms[i].lastRx + InstanceTimeout \/ now < bms[i].lastRx + Lag
  BY DEF HeardInv, OverdueOrOvertaken
<1>1. /\ bms[i] \in Entry /\ bms[i].lastRx \in Nat /\ now \in Nat /\ InstanceTimeout \in Nat
      /\ Lag \in Nat
  BY TimeoutAssumption, EngineAssumption DEF TypeOK, Entry
<1>2. CASE ~bms[i].seen
  <2>1. bms'[i] = bms[i]
    BY <1>2 DEF UpdateBmsRuntimeHealth
  <2>2. QED
    BY <2>1 DEF HeardInv
<1>3. CASE bms[i].seen
  <2>1. bms'[i] = UpdateBmsHealth(bms[i], ts)
    BY <1>3 DEF UpdateBmsRuntimeHealth
  <2>2. Judged(bms[i], ts, bms'[i])
    BY <1>1, <1>3, <2>1, PassFacts
  <2>3. /\ bms'[i].lastRx = bms[i].lastRx /\ bms'[i].seen
        /\ bms'[i].online = CalcFreshByTimeout(ts, bms[i].lastRx, InstanceTimeout)
    BY <2>2 DEF Judged
  <2>4. bms'[i].online => bms[i].lastRx # 0
    BY <2>3 DEF CalcFreshByTimeout
  <2>5. ASSUME bms[i].online, ~bms'[i].online
        PROVE  now > bms[i].lastRx + InstanceTimeout \/ now < bms[i].lastRx + Lag
    <3>1. bms[i].lastRx # 0
      BY <2>5 DEF HeardInv
    <3>2. ~(bms[i].lastRx <= ts) \/ ~(ts - bms[i].lastRx <= InstanceTimeout)
      BY <2>3, <2>5, <3>1 DEF CalcFreshByTimeout
    <3>3. QED
      BY <1>1, <3>2
  <2>6. QED
    BY <2>3, <2>4, <2>5 DEF HeardInv
<1>4. QED
  BY <1>2, <1>3

\* Every step keeps HeardInv and takes a BMS offline for one of the two reasons.
LEMMA OfflineStep ==
  ASSUME TypeOK, HeardInv, [Next]_vars
  PROVE  HeardInv' /\ OverdueOrOvertaken
<1>1. ASSUME NEW i \in Instance, NEW m \in BmsInputs, NEW ts \in Stamps(bmsTs), OnBmsData(i, m, ts)
      PROVE  HeardInv' /\ OverdueOrOvertaken
  <2>1. ts \in Nat /\ ts # 0 /\ ts <= now /\ m \in BmsMsg /\ bms[i] \in Entry /\ now \in Nat
    BY EngineAssumption DEF Stamps, TypeOK
  <2>2. now' = now /\ bms' = [bms EXCEPT ![i] = BmsOnDeviceData(bms[i], m, ts)]
    BY <1>1 DEF OnBmsData
  <2>3. bms'[i].seen /\ bms'[i].lastRx = ts /\ bms'[i].online = bms[i].online
    BY <2>1, <2>2, FrameStampsEntry DEF TypeOK
  <2>4. \A j \in Instance : j # i => bms'[j] = bms[j]
    BY <2>2 DEF TypeOK
  <2>5. HeardInv'
    BY <2>1, <2>2, <2>3, <2>4 DEF HeardInv
  <2>6. OverdueOrOvertaken
    BY <2>3, <2>4 DEF OverdueOrOvertaken
  <2>7. QED
    BY <2>5, <2>6
<1>2. CASE \/ \E s \in SnapInputs, ts \in Stamps(1) : OnSnapshot(s, ts)
           \/ \E ts \in Stamps(tickTs) : OnTick(ts)
  <2>1. PICK ts \in 1..now : now <= ts + Lag /\ bms' = UpdateBmsRuntimeHealth(ts) /\ now' = now
    BY <1>2 DEF OnSnapshot, OnTick, Stamps
  <2>2. ts \in Nat /\ ts <= now
    BY <2>1 DEF TypeOK
  <2>3. QED
    BY <2>1, <2>2, PassJudges
<1>3. CASE bms' = bms /\ (now' = now \/ now' = now + 1)
  <2>1. \A i \in Instance : bms[i].lastRx \in Nat
    BY DEF TypeOK, Entry
  <2>2. now \in Nat
    BY DEF TypeOK
  <2>3. \A i \in Instance : bms[i].lastRx <= now'
    BY <1>3, <2>1, <2>2 DEF HeardInv
  <2>4. QED
    BY <1>3, <2>3 DEF HeardInv, OverdueOrOvertaken
<1>4. QED
  BY <1>1, <1>2, <1>3
     DEF Next, vars, Advance, OnPcuData, OnSmokeData, OnGasData, OnIoSample

\* For any delay of events: a BMS is taken offline only because it was silent for
\* the instance timeout, or because its last frame was stamped after the tick or
\* snapshot that judged it, which is then handled late.
THEOREM OfflineMeansTimeoutAlways == Spec => OfflineMeansTimeout
<1>1. Init => HeardInv
  BY DEF Init, HeardInv, NewEntry
<1>2. TypeOK /\ HeardInv /\ [Next]_vars => HeardInv' /\ [OverdueOrOvertaken]_vars
  BY OfflineStep
<1>3. [][OverdueOrOvertaken]_vars => OfflineMeansTimeout
  BY PTL DEF OfflineMeansTimeout, OverdueOrOvertaken
<1>4. QED
  BY <1>1, <1>2, <1>3, TypeCorrect, PTL DEF Spec

\* The first of the two reasons.
OfflineOnlyOverdue ==
  \A i \in Instance : bms[i].online /\ ~bms'[i].online => now > bms[i].lastRx + InstanceTimeout

\* Where events are handled without delay the second reason does not exist, and
\* offline_reason 2 means what it says.
THEOREM OfflineOnlyOverdueIfPrompt == ASSUME Lag = 0 PROVE Spec => [][OfflineOnlyOverdue]_vars
<1>1. Init => HeardInv
  BY DEF Init, HeardInv, NewEntry
<1>2. TypeOK /\ HeardInv /\ [Next]_vars => HeardInv' /\ [OfflineOnlyOverdue]_vars
  <2> SUFFICES ASSUME TypeOK, HeardInv, [Next]_vars
               PROVE  HeardInv' /\ OfflineOnlyOverdue
    OBVIOUS
  <2>1. HeardInv' /\ OverdueOrOvertaken
    BY OfflineStep
  <2>2. ASSUME NEW i \in Instance PROVE ~(now < bms[i].lastRx + Lag)
    <3>1. bms[i].lastRx \in Nat /\ now \in Nat /\ bms[i].lastRx <= now
      BY DEF TypeOK, Entry, HeardInv
    <3>2. QED
      BY <3>1
  <2>3. QED
    BY <2>1, <2>2 DEF OverdueOrOvertaken, OfflineOnlyOverdue
<1>3. QED
  BY <1>1, <1>2, TypeCorrect, PTL DEF Spec
=============================================================================
