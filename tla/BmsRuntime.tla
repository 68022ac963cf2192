----------------------------- MODULE BmsRuntime -----------------------------
(***************************************************************************)
(* The control-side view of one battery management system: what a received *)
(* frame writes (control/bms/bms_logic_adapter.cpp), how a health pass ages *)
(* it (updateBmsRuntimeHealth_ in control/logic/logic_tick.cpp), and the   *)
(* two gates computed from it: the high-voltage gate of BmsCommandManager  *)
(* and the enable gate of the PCU control frame.                           *)
(*                                                                         *)
(* Signal values are reduced to what the gates distinguish; the fields     *)
(* that are only displayed are left out.                                   *)
(***************************************************************************)
EXTENDS Naturals

CONSTANTS InstanceTimeout,   \* BMS_INSTANCE_TIMEOUT_MS
          GroupTimeout,      \* group -> BMS_<group>_TIMEOUT_MS
          MaxPower           \* the status frame's largest discharge power

\* The message groups whose presence and age decide about high voltage.
Group == {"B2V_ST2", "B2V_CurrentLimit", "B2V_Fault1", "B2V_Fault2"}

ASSUME TimeoutAssumption ==
  InstanceTimeout \in Nat /\ GroupTimeout \in [Group -> Nat] /\ MaxPower \in Nat

\* Decoded frames.  Fault frames carry one bit, `blocks': some signal that
\* hv_should_open looks at is set (HVIL, overcharge, insulation; self-protection,
\* pre-charge, charging insulation).  A pack voltage that is invalid and a pack
\* current that is invalid or not positive are 0.  "Other" stands for ST3..ST7 and
\* ElecEnergy.
St1Msg == [msg : {"B2V_ST1"}, hvOn : BOOLEAN, charging : BOOLEAN]
St2Msg == [msg : {"B2V_ST2"}, level : Nat, rqOff : BOOLEAN, packV : Nat, packI : Nat]
LimitMsg == [msg : {"B2V_CurrentLimit"}, limit : Nat, valid : BOOLEAN]
FaultMsg == [msg : {"B2V_Fault1", "B2V_Fault2"}, blocks : BOOLEAN]
TmsMsg == [msg : {"TM2B_Info"}, level : Nat]
FireMsg == [msg : {"Fire2B_state"}, alarm : BOOLEAN]
OtherMsg == [msg : {"Other"}]
BmsMsg == St1Msg \cup St2Msg \cup LimitMsg \cup FaultMsg \cup TmsMsg \cup FireMsg \cup OtherMsg

\* BmsPerInstanceCache.  An entry exists in BmsLogicCache.items iff `seen'.
Entry == [seen : BOOLEAN, lastRx : Nat, last : [Group -> Nat], fresh : [Group -> BOOLEAN],
          stale : BOOLEAN, online : BOOLEAN, reason : 0..2,
          rqOff : BOOLEAN, level : Nat, tms : Nat, fire : Nat,
          blocks : [{"B2V_Fault1", "B2V_Fault2"} -> BOOLEAN], allow : BOOLEAN,
          hvOn : BOOLEAN, charging : BOOLEAN, packV : Nat, packI : Nat, limit : Nat,
          limitValid : BOOLEAN]

NewEntry ==
  [seen |-> FALSE, lastRx |-> 0, last |-> [g \in Group |-> 0],
   fresh |-> [g \in Group |-> FALSE],
   stale |-> FALSE, online |-> FALSE, reason |-> 0,
   rqOff |-> FALSE, level |-> 0, tms |-> 0, fire |-> 0,
   blocks |-> [f \in {"B2V_Fault1", "B2V_Fault2"} |-> FALSE], allow |-> TRUE,
   hvOn |-> FALSE, charging |-> FALSE, packV |-> 0, packI |-> 0, limit |-> 0,
   limitValid |-> FALSE]

-----------------------------------------------------------------------------
(* BmsLogicAdapter::onDeviceData.                                          *)

\* Every frame: seen_once, last_rx_ms, the group's online flag and time.
Arrived(x, m, ts) ==
  [x EXCEPT !.seen = TRUE,
            !.lastRx = ts,
            !.last = IF m.msg \in Group THEN [@ EXCEPT ![m.msg] = ts] ELSE @,
            !.fresh = IF m.msg \in Group THEN [@ EXCEPT ![m.msg] = TRUE] ELSE @,
            !.reason = IF @ = 1 THEN 0 ELSE @]

UpdateFromSt1(x, m) == [x EXCEPT !.hvOn = m.hvOn, !.charging = m.charging]
UpdateFromSt2(x, m) == [x EXCEPT !.level = m.level, !.rqOff = m.rqOff,
                                 !.packV = m.packV, !.packI = m.packI]
UpdateFromCurrentLimit(x, m) == [x EXCEPT !.limit = m.limit, !.limitValid = m.valid]
UpdateFromFault1(x, m) == [x EXCEPT !.blocks["B2V_Fault1"] = m.blocks]
UpdateFromFault2(x, m) == [x EXCEPT !.blocks["B2V_Fault2"] = m.blocks]
UpdateFromTm2b(x, m) == [x EXCEPT !.tms = m.level]

\* The dispatch on the message name.  The fire message reaches the adapter under
\* its table name, Fire2B_state; the adapter's branch is for Fire2B_Info.
UpdateFrom(x, m) ==
  CASE m.msg = "B2V_ST1" -> UpdateFromSt1(x, m)
    [] m.msg = "B2V_ST2" -> UpdateFromSt2(x, m)
    [] m.msg = "B2V_CurrentLimit" -> UpdateFromCurrentLimit(x, m)
    [] m.msg = "B2V_Fault1" -> UpdateFromFault1(x, m)
    [] m.msg = "B2V_Fault2" -> UpdateFromFault2(x, m)
    [] m.msg = "TM2B_Info" -> UpdateFromTm2b(x, m)
    [] OTHER -> x

HvShouldOpen(x) ==
  \/ x.rqOff
  \/ x.level >= 2
  \/ x.fire >= 2
  \/ x.blocks["B2V_Fault1"]
  \/ x.blocks["B2V_Fault2"]

BmsOnDeviceData(x, m, ts) ==
  LET y == UpdateFrom(Arrived(x, m, ts), m)
  IN  [y EXCEPT !.allow = ~HvShouldOpen(y)]

-----------------------------------------------------------------------------
(* Health.                                                                 *)

\* Mutant: strict comparison with the timeout.
CalcFreshByTimeout_Strict(now, last, timeout) ==
  last # 0 /\ last <= now /\ now - last < timeout

\* A time stamp from the future is not fresh.
CalcFreshByTimeout(now, last, timeout) ==
  last # 0 /\ last <= now /\ now - last <= timeout

GroupFresh(x, now) == [g \in Group |-> CalcFreshByTimeout(now, x.last[g], GroupTimeout[g])]

OfflineReason(x, now) ==
  IF ~x.seen THEN 1
  ELSE IF ~CalcFreshByTimeout(now, x.lastRx, InstanceTimeout) THEN 2
  ELSE 0

\* One entry of updateBmsRuntimeHealth_.
UpdateBmsHealth(x, now) ==
  [x EXCEPT !.fresh = GroupFresh(x, now),
            !.stale = \E g \in Group : x.last[g] > 0 /\ ~GroupFresh(x, now)[g],
            !.online = OfflineReason(x, now) = 0,
            !.reason = OfflineReason(x, now)]

-----------------------------------------------------------------------------
(* The gates.                                                              *)

CmdReason == {"Init", "NoData", "Offline", "RuntimeStale", "St2Stale", "Fault1Stale",
              "Fault2Stale", "CurrentLimitStale", "RqHvPowerOff", "FireFaultBlock",
              "FaultLevelBlock", "TmsFaultBlock", "FallbackPowerOff", "AllowClose"}

Absent(x, g) == x.last[g] = 0 \/ ~x.fresh[g]

\* BmsCommandManager::safetyBlockReason_, first reason that applies.
SafetyBlockReason(x) ==
  IF ~x.seen THEN "NoData"
  ELSE IF ~x.online THEN "Offline"
  ELSE IF x.stale THEN "RuntimeStale"
  ELSE IF Absent(x, "B2V_ST2") THEN "St2Stale"
  ELSE IF Absent(x, "B2V_Fault1") THEN "Fault1Stale"
  ELSE IF Absent(x, "B2V_Fault2") THEN "Fault2Stale"
  ELSE IF Absent(x, "B2V_CurrentLimit") THEN "CurrentLimitStale"
  ELSE IF x.rqOff THEN "RqHvPowerOff"
  ELSE IF x.fire >= 2 THEN "FireFaultBlock"
  ELSE IF x.level >= 2 THEN "FaultLevelBlock"
  ELSE IF x.tms >= 2 THEN "TmsFaultBlock"
  ELSE IF ~x.allow THEN "FallbackPowerOff"
  ELSE "AllowClose"

\* Mutants: a term of the disjunction is missing.
BmsCriticalForPcu_NoStale(x) ==
  \/ ~x.seen \/ ~x.online
  \/ x.rqOff
  \/ x.level >= 2 \/ x.fire >= 2 \/ x.tms >= 2
  \/ ~x.allow

BmsCriticalForPcu_NoTms(x) ==
  \/ ~x.seen \/ ~x.online
  \/ x.stale \/ x.rqOff
  \/ x.level >= 2 \/ x.fire >= 2
  \/ ~x.allow

\* bmsCriticalForPcu_: the battery emergency-stop bit of the PCU control frame.
BmsCriticalForPcu(x) ==
  \/ ~x.seen \/ ~x.online
  \/ x.stale \/ x.rqOff
  \/ x.level >= 2 \/ x.fire >= 2 \/ x.tms >= 2
  \/ ~x.allow

\* Mutants: one of the two freshness tests is missing.
CalcPcuDischargePower_OldLimit(x) ==
  IF x.online /\ x.fresh["B2V_ST2"] /\ x.limitValid
  THEN IF x.packV * x.packI > MaxPower THEN MaxPower ELSE x.packV * x.packI
  ELSE 0

\* calcPcuDischargePowerKwX10_, in units of one pack volt times one ampere.
CalcPcuDischargePower(x) ==
  IF x.online /\ x.fresh["B2V_ST2"] /\ x.fresh["B2V_CurrentLimit"] /\ x.limitValid
  THEN IF x.packV * x.packI > MaxPower THEN MaxPower ELSE x.packV * x.packI
  ELSE 0
=============================================================================
