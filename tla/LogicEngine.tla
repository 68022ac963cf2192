----------------------------- MODULE LogicEngine -----------------------------
(***************************************************************************)
(* control::LogicEngine (services/control/logic): the handlers that the    *)
(* control thread runs, one event at a time, on LogicContext, and the CAN  *)
(* commands that a tick puts out.                                          *)
(*                                                                         *)
(* An event carries the time its producer read before posting it, so the   *)
(* handler sees a time up to Lag before the present; events of one         *)
(* producer are stamped in order, events of two producers need not be.     *)
(* out* hold the commands of the event handled last.                       *)
(***************************************************************************)
EXTENDS BmsCommand, PcuRuntime

CONSTANTS
  Instance,      \* the BMSs (1..4)
  Pcu,           \* the PCUs (0..1)
  PcuBatt,       \* the BMSs reported to the PCUs (1 and 2)
  BmsTx,         \* bms_cmd_mgr_inited_ && bms_cmd_tx_enabled_
  PcuTx,         \* PCUs whose transmit configuration is valid and enabled
  PcuPeriod,     \* PcuTxRuntimeCfg::period_ms
  BmsInputs,     \* BMS frames that arrive in this instance
  PcuInputs,     \* PCU frames
  IoInputs,      \* I/O samples
  SmokeInputs,   \* smoke sensor reports: is smoke_alarm set
  GasInputs,     \* gas detector reports: is the high alarm bit set
  SnapInputs,    \* what a snapshot says about the smoke and gas devices
  Lag,           \* longest delay between stamping an event and handling it
  MaxTime        \* bound on the clock

Snapshot == [smokeOnline : BOOLEAN, gasOnline : BOOLEAN, gasHigh : BOOLEAN]

ASSUME EngineAssumption ==
  /\ PcuBatt \subseteq Instance /\ PcuTx \subseteq Pcu
  /\ BmsTx \in BOOLEAN /\ PcuPeriod \in Nat
  /\ BmsInputs \subseteq BmsMsg /\ PcuInputs \subseteq PcuMsg
  /\ IoInputs \subseteq IoSample /\ SnapInputs \subseteq Snapshot
  /\ SmokeInputs \subseteq BOOLEAN /\ GasInputs \subseteq BOOLEAN
  /\ Lag \in Nat /\ MaxTime \in Nat

VARIABLES
  now,        \* steady clock
  tickTs,     \* stamp of the last tick handled
  bmsTs,      \* stamp of the last BMS frame handled
  bms,        \* ctx.bms_cache
  fireAlarm,  \* ghost: what each BMS's last fire message said
  cmd,        \* BmsCommandManager::states_
  latch,      \* BusinessEngine's latches
  io,         \* ctx.di_bits, ctx.ai and logic_faults.system_estop
  smoke,      \* ctx.smoke_faults.smoke_alarm
  gas,        \* ctx.gas_faults.high_alarm
  hbSince,    \* ghost: each PCU's heartbeat value and when it was first received
  pcu,        \* ctx.pcu0_state, ctx.pcu1_state
  pcuTx,      \* pcu_tx_cfg_: next_due_ms and heartbeat
  outBms,     \* V2B_CMD frames
  outCtrl,    \* EMU control frames to the PCUs
  outStatus   \* EMU status frames to the PCUs

outVars == <<outBms, outCtrl, outStatus>>
envVars == <<latch, io, smoke, gas>>
vars == <<now, tickTs, bmsTs, bms, fireAlarm, cmd, envVars, hbSince, pcu, pcuTx, outVars>>

Init ==
  /\ now = 1 /\ tickTs = 0 /\ bmsTs = 0
  /\ bms = [i \in Instance |-> NewEntry]
  /\ fireAlarm = [i \in Instance |-> FALSE]
  /\ cmd = [i \in Instance |-> InitCmd]
  /\ latch = [on |-> FALSE, off |-> FALSE]
  /\ io = [estop |-> FALSE, plugs |-> "none", adc |-> "neither"]
  /\ smoke = FALSE /\ gas = FALSE
  /\ pcu = [p \in Pcu |-> InitPcu]
  /\ hbSince = [p \in Pcu |-> [hb |-> 0, since |-> 0]]
  /\ pcuTx = [p \in Pcu |-> [due |-> 0, hb |-> 0]]
  /\ outBms = {} /\ outCtrl = {} /\ outStatus = {}

\* The stamps an event handled now may carry, no earlier than `first'.
Stamps(first) == {t \in 1..now : first <= t /\ now <= t + Lag}

NoCommands == outBms' = {} /\ outCtrl' = {} /\ outStatus' = {}

Advance ==
  /\ now < MaxTime
  /\ now' = now + 1
  /\ NoCommands
  /\ UNCHANGED <<tickTs, bmsTs, bms, fireAlarm, cmd, envVars, hbSince, pcu, pcuTx>>

-----------------------------------------------------------------------------
(* onDeviceData_                                                           *)

OnBmsData(i, m, ts) ==
  /\ bmsTs' = ts
  /\ bms' = [bms EXCEPT ![i] = BmsOnDeviceData(@, m, ts)]
  /\ fireAlarm' = [fireAlarm EXCEPT ![i] = IF m.msg = "Fire2B_state" THEN m.alarm ELSE @]
  /\ NoCommands
  /\ UNCHANGED <<now, tickTs, cmd, envVars, hbSince, pcu, pcuTx>>

OnPcuData(p, m, ts) ==
  /\ pcu' = [pcu EXCEPT ![p] = PcuOnDeviceData(@, m, ts)]
  /\ hbSince' = [hbSince EXCEPT ![p] =
                   IF @.since # 0 /\ @.hb = m.hb THEN @ ELSE [hb |-> m.hb, since |-> ts]]
  /\ NoCommands
  /\ UNCHANGED <<now, tickTs, bmsTs, bms, fireAlarm, cmd, envVars, pcuTx>>

\* The smoke report replaces the alarm.
OnSmokeData(alarm) ==
  /\ smoke' = alarm
  /\ NoCommands
  /\ UNCHANGED <<now, tickTs, bmsTs, bms, fireAlarm, cmd, latch, io, gas, hbSince, pcu,
                 pcuTx>>

\* A gas report speaks of one gas only: alarms are or-ed until a snapshot recomputes.
OnGasData(high) ==
  /\ gas' = (gas \/ high)
  /\ NoCommands
  /\ UNCHANGED <<now, tickTs, bmsTs, bms, fireAlarm, cmd, latch, io, smoke, hbSince, pcu,
                 pcuTx>>

-----------------------------------------------------------------------------
(* onIoSample_                                                             *)

OnIoSample(s) ==
  /\ io' = s
  /\ NoCommands
  /\ UNCHANGED <<now, tickTs, bmsTs, bms, fireAlarm, cmd, latch, smoke, gas, hbSince, pcu,
                 pcuTx>>

-----------------------------------------------------------------------------
(* Health passes.                                                          *)

\* updateBmsRuntimeHealth_: the entries that exist.
UpdateBmsRuntimeHealth(ts) ==
  [i \in Instance |-> IF bms[i].seen THEN UpdateBmsHealth(bms[i], ts) ELSE bms[i]]

UpdatePcuRuntimeHealth(ts) == [p \in Pcu |-> UpdatePcuHealth(pcu[p], ts)]

-----------------------------------------------------------------------------
(* onSnapshot_: a health pass at the snapshot's stamp, and the discrete    *)
(* devices; a device that is absent or offline has its payload cleared.    *)

OnSnapshot(s, ts) ==
  /\ bms' = UpdateBmsRuntimeHealth(ts)
  /\ pcu' = UpdatePcuRuntimeHealth(ts)
  /\ smoke' = (s.smokeOnline /\ smoke)
  /\ gas' = (s.gasOnline /\ s.gasHigh)
  /\ NoCommands
  /\ UNCHANGED <<now, tickTs, bmsTs, fireAlarm, cmd, latch, io, hbSince, pcuTx>>

-----------------------------------------------------------------------------
(* onTick_                                                                 *)

\* Steps B, C and D of onTick_ for one instance: rebuild, business, clamp.
\* Without BMS transmission only the business assignment is made.
TickCmd(c, x, l) ==
  IF BmsTx
  THEN EnforceSafety(BusinessDesired(RebuildDesired(c, x), l), x)
  ELSE BusinessDesired(c, l)

\* Step E1: which instances are sent a frame.
TickSends(c, ts) == BmsTx /\ EmitDue(c, ts)

\* emitPcuPeriodicCommands_
PcuPlugState(s) == s.plugs # "none" \/ s.adc = "someLow"

\* Mutant: the emergency stop does not count.
CtrlFrame_NoEstop(p, entries, s) ==
  LET critical == [b \in PcuBatt |-> BmsCriticalForPcu(entries[b])]
  IN  [pcu |-> p, plug |-> PcuPlugState(s), estop |-> s.estop, battEstop |-> critical,
       enable |-> \A b \in PcuBatt : ~critical[b]]

CtrlFrame(p, entries, s) ==
  LET critical == [b \in PcuBatt |-> BmsCriticalForPcu(entries[b])]
  IN  [pcu |-> p, plug |-> PcuPlugState(s), estop |-> s.estop, battEstop |-> critical,
       enable |-> ~s.estop /\ \A b \in PcuBatt : ~critical[b]]

StatusFrame(p, entries) ==
  [pcu |-> p, power |-> [b \in PcuBatt |-> CalcPcuDischargePower(entries[b])]]

PcuDue(p, ts) == pcuTx[p].due <= ts

OnTick(ts) ==
  LET aged == UpdateBmsRuntimeHealth(ts)
      agedPcu == UpdatePcuRuntimeHealth(ts)
      newLatch == EvaluateLatch(latch, io, {aged[i] : i \in Instance}, smoke, gas,
                                \E p \in Pcu : agedPcu[p].estop)
      desired == [i \in Instance |-> TickCmd(cmd[i], aged[i], newLatch)]
      served == {p \in PcuTx : PcuDue(p, ts)}
  IN  /\ tickTs' = ts
      /\ bms' = aged
      /\ pcu' = agedPcu
      /\ latch' = newLatch
      /\ cmd' = [i \in Instance |->
                   IF TickSends(desired[i], ts) THEN Emitted(desired[i], ts) ELSE desired[i]]
      /\ outBms' = {[to |-> i, hv |-> desired[i].hv] :
                      i \in {j \in Instance : TickSends(desired[j], ts)}}
      /\ pcuTx' = [p \in Pcu |->
                     IF p \in served
                     THEN [due |-> ts + PcuPeriod, hb |-> (pcuTx[p].hb + 1) % LifeMod]
                     ELSE pcuTx[p]]
      /\ outCtrl' = {CtrlFrame(p, aged, io) : p \in served}
      /\ outStatus' = {StatusFrame(p, aged) : p \in served}
      /\ UNCHANGED <<now, bmsTs, fireAlarm, io, smoke, gas, hbSince>>

Next ==
  \/ Advance
  \/ \E i \in Instance, m \in BmsInputs, ts \in Stamps(bmsTs) : OnBmsData(i, m, ts)
  \/ \E p \in Pcu, m \in PcuInputs : \E ts \in Stamps(pcu[p].lastRx) : OnPcuData(p, m, ts)
  \/ \E alarm \in SmokeInputs : OnSmokeData(alarm)
  \/ \E high \in GasInputs : OnGasData(high)
  \/ \E s \in IoInputs : OnIoSample(s)
  \/ \E s \in SnapInputs, ts \in Stamps(1) : OnSnapshot(s, ts)
  \/ \E ts \in Stamps(tickTs) : OnTick(ts)

Spec == Init /\ [][Next]_vars

-----------------------------------------------------------------------------
(* Properties.                                                             *)

\* The engine's context, the command states and the frames it puts out keep their
\* types; hv_onoff is one of the two values the protocol knows.
TypeOK ==
  /\ now \in Nat /\ tickTs \in Nat /\ bmsTs \in Nat
  /\ bms \in [Instance -> Entry]
  /\ fireAlarm \in [Instance -> BOOLEAN]
  /\ cmd \in [Instance -> CmdState]
  /\ latch \in Latch /\ io \in IoSample
  /\ smoke \in BOOLEAN /\ gas \in BOOLEAN
  /\ pcu \in [Pcu -> PcuState]
  /\ hbSince \in [Pcu -> [hb : Nat, since : Nat]]
  /\ pcuTx \in [Pcu -> [due : Nat, hb : Nat]]
  /\ outBms \subseteq [to : Instance, hv : {PowerOn, PowerOff}]
  /\ outCtrl \subseteq [pcu : Pcu, plug : BOOLEAN, estop : BOOLEAN,
                        battEstop : [PcuBatt -> BOOLEAN], enable : BOOLEAN]
  /\ outStatus \subseteq [pcu : Pcu, power : [PcuBatt -> Nat]]

\* What the BMS itself last said does not forbid high voltage.
NothingBlocks(x) ==
  /\ ~x.rqOff /\ x.level < 2 /\ x.tms < 2
  /\ ~x.blocks["B2V_Fault1"] /\ ~x.blocks["B2V_Fault2"]

\* Group g arrived, and not longer ago than its timeout and the handling delay.
HeardLately(x, g) == x.last[g] # 0 /\ now <= x.last[g] + GroupTimeout[g] + Lag

\* A PowerOn frame goes only to a BMS of which all four critical groups were
\* received within their timeouts and whose last ST2, Fault1, Fault2 and TMS
\* contents forbid nothing, whatever BusinessEngine wrote into the command.
PowerOnOnlyIfSafe ==
  \A f \in outBms : f.hv = PowerOn =>
    /\ \A g \in Group : HeardLately(bms[f.to], g)
    /\ NothingBlocks(bms[f.to])

\* The PCUs are enabled only while no emergency stop is pressed and for each
\* reported battery nothing heard forbids it, no critical group once heard has
\* gone silent, and the battery itself was heard within the instance timeout.
PcuEnableOnlyIfSafe ==
  \A f \in outCtrl : f.enable =>
    /\ ~io.estop
    /\ \A b \in PcuBatt :
         /\ NothingBlocks(bms[b])
         /\ \A g \in Group : bms[b].last[g] # 0 => HeardLately(bms[b], g)
         /\ bms[b].seen /\ now <= bms[b].lastRx + InstanceTimeout + Lag

\* The two gates, written separately, agree on every battery all of whose critical
\* groups have been received: the PCU is told to stop for exactly the batteries
\* that would be sent PowerOff by the safety clamp.
GatesAgree ==
  \A i \in Instance : (\A g \in Group : bms[i].last[g] # 0) =>
    (BmsCriticalForPcu(bms[i]) <=> SafetyBlockReason(bms[i]) # "AllowClose")

\* Discharge power is reported to a PCU only from a voltage and a current limit
\* received within their timeouts.
PowerReportFresh ==
  \A f \in outStatus, b \in PcuBatt : f.power[b] > 0 =>
    HeardLately(bms[b], "B2V_ST2") /\ HeardLately(bms[b], "B2V_CurrentLimit")

\* A BMS goes from online to offline, which counts as a disconnect, only when
\* nothing was received from it for the instance timeout ("2=RxTimeout"), or
\* when its last frame was stamped after the tick or snapshot that judges it,
\* which is then less than Lag old: a stamp from the future counts as stale
\* (calcFreshByTimeout_), and only for as long as an event may be late.
OfflineMeansTimeout ==
  [][\A i \in Instance : bms[i].online /\ ~bms'[i].online =>
       \/ now > bms[i].lastRx + InstanceTimeout
       \/ now < bms[i].lastRx + Lag]_vars

\* A PCU whose heartbeat has stood still for longer than PCU_HB_STALE_MS is not
\* online after the next tick, even though its frames keep arriving.
FrozenPcuOffline ==
  [][\A p \in Pcu : tickTs' # tickTs /\ pcu'[p].online =>
       hbSince[p].since # 0 /\ now <= hbSince[p].since + PcuHbStale + Lag]_vars

-----------------------------------------------------------------------------
(* What comments in the code say of it, and the code does not do.          *)

\* "Fault power-down": once an emergency stop, a smoke or gas alarm or a PCU
\* emergency stop has tripped the shutdown, no BMS is sent PowerOn.
NoPowerOnAfterShutdown == latch.off => \A f \in outBms : f.hv # PowerOn

\* PowerOn requires that the fire fault level does not block: no PowerOn goes to a
\* BMS whose last fire message reports an alarm.
NoPowerOnUnderFire == \A f \in outBms : fireAlarm[f.to] => f.hv # PowerOn

\* runtime_fault_stale covers critical groups that are stale or missing: no PCU is
\* enabled while a critical group of a reported battery has never been received.
PcuEnableNeedsAllGroups ==
  \A f \in outCtrl : f.enable => \A b \in PcuBatt, g \in Group : bms[b].last[g] # 0
=============================================================================
