----------------------------- MODULE BmsCommand -----------------------------
(***************************************************************************)
(* The V2B_CMD frame of each BMS: BmsCommandManager                        *)
(* (control/bms/bms_command_manager.cpp) and BusinessEngine::evaluate      *)
(* (control/business/business_engine.cpp), as functions on one instance's  *)
(* command state and on the business latches.                              *)
(***************************************************************************)
EXTENDS BmsRuntime

CONSTANTS CmdPeriod,   \* bms_cmd_period_ms_
          LifeMod      \* 256: life_signal and heartbeat are uint8_t

ASSUME CommandAssumption == CmdPeriod \in Nat /\ LifeMod \in Nat \ {0}

PowerOn == 1    \* V2B_CMD_HV_OnOff
PowerOff == 2

\* BmsCommandState
CmdState == [hv : {PowerOn, PowerOff}, reason : CmdReason, life : Nat, lastSend : Nat]

\* ensureState_
InitCmd == [hv |-> PowerOff, reason |-> "Init", life |-> 0, lastSend |-> 0]

\* One instance of rebuildDesiredFromCache; an absent entry gives NoData.
RebuildDesired(c, x) ==
  [c EXCEPT !.hv = IF SafetyBlockReason(x) = "AllowClose" THEN PowerOn ELSE PowerOff,
            !.reason = SafetyBlockReason(x)]

\* Mutant: the reason is updated, the command is not.
EnforceSafety_NoClamp(c, x) == [c EXCEPT !.reason = SafetyBlockReason(x)]

\* One instance of enforceSafetyFromCache.
EnforceSafety(c, x) ==
  IF SafetyBlockReason(x) # "AllowClose"
  THEN [c EXCEPT !.hv = PowerOff, !.reason = SafetyBlockReason(x)]
  ELSE [c EXCEPT !.reason = IF c.hv = PowerOn THEN "AllowClose" ELSE "FallbackPowerOff"]

\* emitPeriodicCommands: the throttle, an unsigned difference, and what a sent
\* frame leaves behind.
EmitDue(c, ts) == c.lastSend = 0 \/ ts < c.lastSend \/ ts - c.lastSend >= CmdPeriod
Emitted(c, ts) == [c EXCEPT !.lastSend = ts, !.life = (c.life + 1) % LifeMod]

-----------------------------------------------------------------------------
(* BusinessEngine::evaluate.                                               *)

\* A sample of the digital and analogue inputs: the emergency stop DI1, the six
\* plug inputs DI13..DI18, and the two plug voltages against 8 V.
IoSample == [estop : BOOLEAN, plugs : {"all", "some", "none"},
             adc : {"bothHigh", "someLow", "neither"}]

\* The function-local statics out_hv_on and out_hv_off; nothing resets them.
Latch == [on : BOOLEAN, off : BOOLEAN]

GunStateAllOk(io) == io.plugs = "all" /\ io.adc = "bothHigh"

EvaluateLatch(l, io, entries, smokeAlarm, gasHigh, pcuEstop) ==
  [off |-> l.off \/ pcuEstop \/ io.estop \/ smokeAlarm \/ gasHigh,
   on  |-> \/ l.on
           \/ /\ GunStateAllOk(io) /\ ~io.estop
              /\ \A x \in entries : x.hvOn
              /\ \A x \in entries : ~x.charging]

FinalHvState(l) == l.on /\ ~l.off

\* Mutant: the state is written without the offset.
BusinessHvOnOff_Raw(l) == IF FinalHvState(l) THEN 1 ELSE 0

\* cmd->hv_onoff = final_hv_state + 1
BusinessHvOnOff(l) == (IF FinalHvState(l) THEN 1 ELSE 0) + 1

\* mutableDesired and the assignment, for one instance.
BusinessDesired(c, l) == [c EXCEPT !.hv = BusinessHvOnOff(l)]
=============================================================================
