----------------------------- MODULE FaultRules -----------------------------
(***************************************************************************)
(* The stateless half of the fault subsystem: which condition each fault   *)
(* code stands for, which debounced signal it is read from, and how a      *)
(* debounce timer moves.                                                   *)
(*                                                                         *)
(* A reading `in' is what the fault thread finds in LogicContext:          *)
(*   in.pcu[0], in.pcu[1]  the two PCUs: online, estop                     *)
(*   in.dev[d]             an RS-485/232 device: online, the set of its    *)
(*                         fault and alarm bits                            *)
(*   in.bms[i]             a battery: seen, online, its level-type faults  *)
(*                         (level 0 where a group is absent), the set of   *)
(*                         its single fault bits                           *)
(*   in.logic              the LogicFaults that are set                    *)
(* Signal names are tokens, already trimmed and in lower case.  Times are  *)
(* in units of the 100 ms period of the fault thread.                      *)
(***************************************************************************)
EXTENDS Integers, Sequences, SequencesExt

CONSTANTS
  CommDelay,   \* 3000 ms: a fault must hold this long ...
  ClearDelay,  \* 1000 ms: ... and be gone this long
  EstopDelay   \* 300 ms: emergency stop of a PCU

ASSUME DelayAssumption ==
  /\ CommDelay \in Nat /\ ClearDelay \in Nat /\ EstopDelay \in Nat

AnyDelay == CommDelay - ClearDelay   \* 2000 ms for the two summary signals

-----------------------------------------------------------------------------
(***************************************************************************)
(* Names.                                                                  *)
(***************************************************************************)

NormalizeSource(t) ==
  CASE t \in {"pcu", "pcu1", "pcu2"} -> "pcu"
    [] t \in {"ups", "ups232", "ups_ascii", "rs232_ups"} -> "ups"
    [] t \in {"smoke", "smokesensor", "smoke_sensor", "tss", "tss_smoke", "tss_sensor"} -> "smoke"
    [] t \in {"gas", "gasdetector", "gas_detector", "cgs", "cgs_sensor"} -> "gas"
    [] t \in {"air", "aircon", "air_conditioner", "airconditioner", "ac"} -> "air"
    [] t \in {"logic", "vcu", "system", "hmi", "screen", "display", "remote", "remoteio",
              "remote_io", "sd", "sdcard", "tf", "tfcard"} -> "logic"
    [] OTHER -> t

NormalizeSignal(t) ==
  CASE t \in {"offline", "runtime_offline"} -> "offline"
    [] t \in {"online", "runtime_online"} -> "online"
    [] t \in {"pcu1_comm_fault", "pcu_1_comm_fault"} -> "pcu0_offline"
    [] t \in {"pcu2_comm_fault", "pcu_2_comm_fault"} -> "pcu1_offline"
    [] t \in {"ups_comm_fault", "ups_offline", "ups_runtime_offline"} -> "ups_offline"
    [] t \in {"tss_offline", "tss_comm_fault", "smoke_offline", "smoke_comm_fault",
              "smokesensor_comm_fault", "smoke_sensor_comm_fault"} -> "tss_offline"
    [] t \in {"gas_offline", "gas_comm_fault", "cgs_comm_fault",
              "gasdetector_comm_fault", "gas_detector_comm_fault"} -> "gas_offline"
    [] t \in {"air_offline", "air_comm_fault", "aircon_comm_fault",
              "airconditioner_comm_fault", "air_conditioner_comm_fault"} -> "air_offline"
    [] t \in {"hmi_comm_fault", "screen_comm_fault", "display_comm_fault"} -> "hmi_comm_fault"
    [] t \in {"remote_comm_fault", "remoteio_comm_fault", "remote_io_comm_fault"} -> "remote_comm_fault"
    [] t \in {"sdcard_fault", "sd_fault", "tfcard_fault", "tf_fault"} -> "sdcard_fault"
    [] t \in {"alarm_any", "env_alarm_any", "ups_alarm_any", "air_alarm_any", "aircon_alarm_any"} -> "alarm_any"
    [] t \in {"fault_any", "ups_fault_any", "air_fault_any", "aircon_fault_any"} -> "fault_any"
    [] t = "logic_any_fault" -> "any_fault"
    [] t \in {"system_estop", "estop"} -> "system_estop"
    [] t = "ups_battery_low" -> "battery_low"
    [] t \in {"ups_bypass", "ups_bypass_active"} -> "bypass_active"
    [] t = "ups_fault_code_nonzero" -> "fault_code_nonzero"
    [] t \in {"tss_spollution_alarm", "tss_pollution_alarm", "tss_s_pollution_alarm"} -> "tss_spollution_alarm"
    [] OTHER -> t

\* 0 where the signal names no instance.
InstanceFromSignal(t) ==
  CASE t \in {"pcu1commfault", "pcu_1_comm_fault", "pcu0offline", "pcu_0_offline"} -> 1
    [] t \in {"pcu2commfault", "pcu_2_comm_fault", "pcu1offline", "pcu_1_offline",
              "pcu2offline", "pcu_2_offline"} -> 2
    [] OTHER -> 0

(***************************************************************************)
(* fault_map.jsonl, one row of each kind: the rows left out differ from    *)
(* one that is here in their signal's name only.  The batteries' rows are  *)
(* in BmsSignals below; here they only have their classification.          *)
(***************************************************************************)
Row(code, source, signal, instance, cls) ==
  [code |-> code, source |-> source, signal |-> signal, instance |-> instance, cls |-> cls]

FaultMap ==
  { Row(\h1000, "vcu", "hmi_comm_fault", 0, "B1"),
    Row(\h1001, "vcu", "bms1_comm_fault", 0, "B1"),
    Row(\h1005, "vcu", "pcu1_comm_fault", 1, "B1"),
    Row(\h1006, "vcu", "pcu2_comm_fault", 2, "B1"),
    Row(\h1007, "air", "air_offline", 0, "B1"),
    Row(\h1008, "ups", "ups_offline", 0, "B1"),
    Row(\h1009, "vcu", "remote_comm_fault", 0, "C1"),
    Row(\h100A, "tss", "tss_offline", 0, "B1"),
    Row(\h100B, "gas", "gas_offline", 0, "B1"),
    Row(\h1018, "gas", "gas_high_alarm", 0, "B1"),
    Row(\h101E, "smoke", "tss_smoke_alarm", 0, "B1"),
    Row(\h1036, "air", "compressor_fault", 0, "B1"),
    Row(\h1054, "ups", "epo_active", 0, "B1"),
    Row(\h10B9, "vcu", "sd_card_not_inserted", 0, "B2"),
    Row(\h10BA, "pcu", "pcu1_emergency_stop", 1, "B1"),
    Row(\h10BB, "pcu", "pcu2_emergency_stop", 2, "B1"),
    Row(\h2000, "bms1", "bms1_cell_overvoltage_lvl1", 1, "C1"),
    Row(\h2002, "bms1", "bms1_cell_overvoltage_lvl3", 1, "A1"),
    Row(\h201E, "bms1", "bms1_soc_jump_alarm", 1, "C2"),
    Row(\h2102, "bms2", "bms2_cell_overvoltage_lvl3", 2, "A1") }

Code == {r.code : r \in FaultMap}
RowOf(code) == CHOOSE r \in FaultMap : r.code = code

\* FaultCatalog: what the classification lets the screen show.
ShowInCurrent(code) == RowOf(code).cls \in {"A1", "B1"}
\* No row of the map says record_db = false.
ShouldRecordToDb(code) == code \in Code

\* Only a PCU's rule without an instance takes it from the name of the signal.
Rule(r) ==
  [code |-> r.code, source |-> NormalizeSource(r.source), signal |-> NormalizeSignal(r.signal),
   instance |-> IF NormalizeSource(r.source) = "pcu" /\ r.instance = 0
                THEN InstanceFromSignal(NormalizeSignal(r.signal)) ELSE r.instance]

\* loadJsonl: rows of the batteries are left to BmsFaultMapper.
Rules(loaded) ==
  {Rule(r) : r \in {x \in FaultMap : /\ x.code \in loaded
                                     /\ NormalizeSource(x.source) \in
                                          {"pcu", "ups", "smoke", "gas", "air", "logic"}}}

-----------------------------------------------------------------------------
(***************************************************************************)
(* The devices polled by the program: their faults are read directly.      *)
(***************************************************************************)

OfflineNames(d) ==
  CASE d = "ups" -> {"offline", "runtime_offline", "ups_offline", "ups_comm_fault"}
    [] d = "air" -> {"offline", "runtime_offline", "air_offline", "aircon_comm_fault", "air_comm_fault"}
    [] d = "smoke" -> {"tss_offline", "smoke_offline", "tss_comm_fault", "smoke_comm_fault"}
    [] d = "gas" -> {"gas_offline", "cgs_comm_fault", "gas_comm_fault"}

OnlineNames(d) ==
  CASE d = "ups" -> {"online", "runtime_online", "ups_online"}
    [] d = "air" -> {"online", "runtime_online", "air_online"}
    [] d = "gas" -> {"gas_online"}
    [] d = "smoke" -> {}

\* What an offline device last said about itself does not count.
EvalDevice(d, x, s, bits) ==
  CASE s \in OfflineNames(d) -> ~x.online
    [] s \in OnlineNames(d) -> x.online
    [] OTHER -> x.online /\ bits \cap x.bits # {}

UpsBits(s) ==
  CASE s = "battery_low" -> {"battery_low_state", "battery_low_warning"}
    [] s \in {"bypass_active", "bypass"} -> {"bypass_mode", "bypass_abnormal"}
    [] s = "fault_code_nonzero" -> {"fault_bits"}
    [] OTHER -> {s}

SmokeBits(s) ==
  CASE s = "tss_smoke_alarm" -> {"smoke_alarm"}
    [] s = "tss_temp_alarm" -> {"temp_alarm"}
    [] s = "tss_ss_alarm" -> {"smoke_sensor_fault"}
    [] s = "tss_spollution_alarm" -> {"smoke_pollution_fault"}
    [] s = "tss_temp_fault" -> {"temp_sensor_fault"}
    [] OTHER -> {s}

GasBits(s) ==
  CASE s \in {"gas_alarm", "gas_alarm_any", "alarm_any"} -> {"alarm_any"}
    [] s \in {"gas_sensor_fault", "gas_fault_any", "fault_any"} -> {"sensor_fault", "fault_any"}
    [] s = "gas_status_nonzero" -> {"status_code"}
    [] s = "gas_low_alarm" -> {"low_alarm"}
    [] s = "gas_high_alarm" -> {"high_alarm"}
    [] OTHER -> {}

AirBits(s) == {s}

BitsOf(d, s) ==
  CASE d = "ups" -> UpsBits(s)
    [] d = "smoke" -> SmokeBits(s)
    [] d = "gas" -> GasBits(s)
    [] d = "air" -> AirBits(s)

IsRuntimeDebounceSource(source) == source \in {"ups", "air", "smoke", "gas"}
Policy(rule) ==
  [trigger |-> CommDelay,
   clear   |-> IF rule.signal \in OfflineNames(rule.source) THEN 0 ELSE ClearDelay]

(***************************************************************************)
(* FaultRuntimeMapper::debounceRule_, at the time now_ms.                  *)
(***************************************************************************)
NoDebounce == [initialized |-> FALSE, last |-> FALSE, since |-> 0, out |-> FALSE]

DebounceRule_NoReset(rule, st, raw) ==   \* (mutant) a change of the signal does not restart the time
  LET need == IF raw THEN Policy(rule).trigger ELSE Policy(rule).clear
  IN  IF ~st.initialized
      THEN [initialized |-> TRUE, last |-> raw, since |-> 0, out |-> FALSE]
      ELSE [st EXCEPT !.last = raw, !.out = IF raw # st.out /\ st.since >= need THEN raw ELSE st.out]

DebounceRule(rule, st, raw) ==
  LET since == IF st.last # raw THEN 0 ELSE st.since
      need == IF raw THEN Policy(rule).trigger ELSE Policy(rule).clear
  IN  IF ~st.initialized
      THEN [initialized |-> TRUE, last |-> raw, since |-> 0, out |-> raw /\ Policy(rule).trigger = 0]
      ELSE [st EXCEPT !.last = raw, !.since = since,
                      !.out = IF raw # st.out /\ since >= need THEN raw ELSE st.out]

-----------------------------------------------------------------------------
(***************************************************************************)
(* PCUs, links and the system: FaultLogicEvaluator confirms a signal by    *)
(* the condition engine, which keeps one timer per key.                    *)
(***************************************************************************)

\* A condition's state: confirmed_on, and the time for which the opposite
\* has been seen (raw_on_since_ms or raw_clear_since_ms), NotTimed if not.
NotTimed == -1
NoCondition == [on |-> FALSE, held |-> NotTimed]

UpdateWithClear(st, assert_now, clear_now, assert_delay, clear_delay) ==
  LET opposite == IF st.on THEN clear_now ELSE assert_now
      delay == IF st.on THEN clear_delay ELSE assert_delay
      held == IF st.held = NotTimed THEN 0 ELSE st.held
  IN  IF ~opposite THEN [st EXCEPT !.held = NotTimed]
      ELSE IF held >= delay THEN [on |-> ~st.on, held |-> NotTimed]
      ELSE [st EXCEPT !.held = held]

RawPcuOffline(in, p) == ~in.pcu[p].online
RawPcuEmergencyStop(in, p) == in.pcu[p].online /\ in.pcu[p].estop

Eval(key, raw, trigger, clear) == [key |-> key, raw |-> raw, trigger |-> trigger, clear |-> clear]

EvaluatePcu(in) ==
  << Eval("pcu0_offline", RawPcuOffline(in, 0), CommDelay, 0),
     Eval("pcu1_offline", RawPcuOffline(in, 1), CommDelay, 0),
     Eval("pcu1_comm_fault", RawPcuOffline(in, 0), CommDelay, 0),
     Eval("pcu2_comm_fault", RawPcuOffline(in, 1), CommDelay, 0),
     Eval("pcu0_emergency_stop", RawPcuEmergencyStop(in, 0), EstopDelay, 0),
     Eval("pcu1_emergency_stop", RawPcuEmergencyStop(in, 1), EstopDelay, 0),
     Eval("pcu1_emergency_stop", RawPcuEmergencyStop(in, 0), EstopDelay, 0),
     Eval("pcu2_emergency_stop", RawPcuEmergencyStop(in, 1), EstopDelay, 0) >>

Device == {"ups", "smoke", "gas", "air"}

\* The faults of the system that LogicFaultState has a field for; it has none
\* for the signal of code \h10B9, "sd_card_not_inserted".
LogicFaults == {"system_estop", "hmi_comm_fault", "remote_comm_fault", "sdcard_fault"}

RawEnvAnyAlarm(in) == \E d \in Device : "alarm_any" \in in.dev[d].bits
RawAnyFault(in) ==
  \/ in.logic # {}
  \/ \E d \in Device : "fault_any" \in in.dev[d].bits \/ ~in.dev[d].online
  \/ \E p \in 0..1 : RawPcuOffline(in, p)
  \/ \E i \in 1..4 : ~in.bms[i].online

\* A battery that was never seen counts as offline.
RawBmsOffline(in, i) == ~(in.bms[i].seen /\ in.bms[i].online)

EvaluateLogic(in) ==
  << Eval("env_any_alarm", RawEnvAnyAlarm(in), AnyDelay, ClearDelay),
     Eval("any_fault", RawAnyFault(in), AnyDelay, ClearDelay),
     Eval("hmi_comm_fault", "hmi_comm_fault" \in in.logic, CommDelay, ClearDelay),
     Eval("remote_comm_fault", "remote_comm_fault" \in in.logic, CommDelay, ClearDelay),
     Eval("aircon_comm_fault", ~in.dev["air"].online, CommDelay, ClearDelay),
     Eval("ups_comm_fault", ~in.dev["ups"].online, CommDelay, ClearDelay),
     Eval("tss_comm_fault", ~in.dev["smoke"].online, CommDelay, ClearDelay),
     Eval("cgs_comm_fault", ~in.dev["gas"].online, CommDelay, ClearDelay),
     Eval("pcu1_comm_fault", RawPcuOffline(in, 0), CommDelay, ClearDelay),
     Eval("pcu2_comm_fault", RawPcuOffline(in, 1), CommDelay, ClearDelay),
     Eval("bms1_comm_fault", RawBmsOffline(in, 1), CommDelay, ClearDelay),
     Eval("bms2_comm_fault", RawBmsOffline(in, 2), CommDelay, ClearDelay),
     Eval("bms3_comm_fault", RawBmsOffline(in, 3), CommDelay, ClearDelay),
     Eval("bms4_comm_fault", RawBmsOffline(in, 4), CommDelay, ClearDelay),
     Eval("remote_comm_fault", "remote_comm_fault" \in in.logic, CommDelay, ClearDelay),
     Eval("sdcard_fault", "sdcard_fault" \in in.logic, CommDelay, ClearDelay) >>

Evaluations(in) == EvaluatePcu(in) \o EvaluateLogic(in)
EvaluationsPerPass == 24

Key == {e.key : e \in Range(EvaluatePcu([pcu |-> [p \in 0..1 |-> [online |-> TRUE, estop |-> FALSE]]]))}
         \cup {"env_any_alarm", "any_fault", "hmi_comm_fault", "remote_comm_fault",
               "aircon_comm_fault", "ups_comm_fault", "tss_comm_fault", "cgs_comm_fault",
               "bms1_comm_fault", "bms2_comm_fault", "bms3_comm_fault", "bms4_comm_fault",
               "sdcard_fault"}

\* The keys a rule is looked up by; the first that was evaluated counts.
ConfirmedKeys(rule) ==
  LET s == rule.signal IN
  CASE rule.source = "pcu" /\ rule.instance = 1 ->
         (IF s \in {"pcu1_comm_fault", "offline"} THEN <<"pcu1_comm_fault", "pcu0_offline">> ELSE <<>>) \o
         (IF s \in {"pcu1_emergency_stop", "emergency_stop", "fault_estop"}
          THEN <<"pcu1_emergency_stop", "pcu0_emergency_stop">> ELSE <<>>)
    [] rule.source = "pcu" /\ rule.instance = 2 ->
         (IF s \in {"pcu2_comm_fault", "offline"} THEN <<"pcu2_comm_fault", "pcu1_offline">> ELSE <<>>) \o
         (IF s \in {"pcu2_emergency_stop", "emergency_stop", "fault_estop"}
          THEN <<"pcu2_emergency_stop", "pcu1_emergency_stop">> ELSE <<>>)
    [] rule.source = "logic" ->
         <<s>> \o (IF s = "pcu1_offline" THEN <<"pcu0_offline", "pcu1_comm_fault">> ELSE <<>>)
               \o (IF s = "pcu2_offline" THEN <<"pcu1_offline", "pcu2_comm_fault">> ELSE <<>>)
               \o (IF s = "ups_offline" THEN <<"ups_comm_fault">> ELSE <<>>)
               \o (IF s = "tss_offline" THEN <<"tss_comm_fault">> ELSE <<>>)
    [] OTHER -> <<>>

KeyOf(rule) ==
  LET keys == ConfirmedKeys(rule)
      known == {i \in DOMAIN keys : keys[i] \in Key}
  IN  IF known = {} THEN "none" ELSE keys[CHOOSE i \in known : \A j \in known : i <= j]

\* The fallback, for a signal that no key is known for.
EvalPcuSignal(x, s) ==
  CASE s \in {"offline", "comm_fault", "pcu_comm_fault"} -> ~x.online
    [] s = "online" -> x.online
    [] s = "pcu_emergency_stop" -> x.online /\ x.estop
    [] OTHER -> FALSE

\* A name it does not know is never active; "tss_offline" is one, for
\* normalizeSignal_ has rewritten the names that evalLogicSignal_ expects.
EvalLogicSignal(in, s) ==
  CASE s = "any_fault" -> RawAnyFault(in)
    [] s = "env_any_alarm" -> RawEnvAnyAlarm(in)
    [] s \in {"pcu_any_offline", "pcu0_offline", "pcu1_offline", "pcu2_offline"} ->
         \E p \in 0..1 : RawPcuOffline(in, p)
    [] s = "bms_any_offline" -> \E i \in 1..4 : ~in.bms[i].online
    [] s = "ups_offline" -> ~in.dev["ups"].online
    [] s = "gas_offline" -> ~in.dev["gas"].online
    [] s = "air_offline" -> ~in.dev["air"].online
    [] s \in LogicFaults -> s \in in.logic
    [] OTHER -> FALSE

EvalFallback(rule, in) ==
  CASE rule.source = "pcu" -> rule.instance \in 1..2 /\ EvalPcuSignal(in.pcu[rule.instance - 1], rule.signal)
    [] rule.source = "logic" -> EvalLogicSignal(in, rule.signal)

-----------------------------------------------------------------------------
(***************************************************************************)
(* Batteries: no debounce; a level-type fault has one code per level.      *)
(***************************************************************************)

BmsLevel3 ==
  {"cell_overvoltage", "cell_undervoltage", "total_voltage_overvoltage", "total_voltage_undervoltage",
   "cell_overtemp", "temp_diff_over", "soc_low", "driving_insulation_low",
   "pulse_discharge_current_overflow", "pulse_charge_current_overflow"}
BmsLevel2 == {"charge_connector_overtemp"}

LevelOf(x, group) == IF group \in DOMAIN x.level THEN x.level[group] ELSE 0
Levels(group) == IF group \in BmsLevel2 THEN 1..2 ELSE 1..3

\* FaultCode holds for 3000 ms after the frame that showed it (in.bms[i].tms
\* is the set of sub-faults seen that recently).
TmsCodeLatched(x, sub) == sub \in x.tms

DirectBits(signal) ==
  CASE signal = "fire_alarm" -> {"fire_value_alarm_level", "fire_by_start_sts", "fire_sensor_error_sts",
                                 "fire_hw_error_sts"}
    [] signal = "tms_unit_fault" -> {"tms_fault_code", "tms_fault_level", "f2_tms_err"}
    [] signal = "internal_hv_circuit_open_fault" -> {}
    [] OTHER -> {signal}

\* A signal is <<group, level>>, or <<name, 0>>.
BmsConfirmed(x, signal) ==
  /\ x.seen /\ x.online
  /\ CASE signal[1] \in BmsLevel3 -> LevelOf(x, signal[1]) = signal[2]
       [] signal[1] \in BmsLevel2 -> IF signal[2] = 1 THEN LevelOf(x, signal[1]) = 1
                                                     ELSE LevelOf(x, signal[1]) >= 2
       [] signal[1] \in {"tms_panel_aircon_fault", "tms_ats_water_pump_fault"} -> TmsCodeLatched(x, signal[1])
       [] OTHER -> DirectBits(signal[1]) \cap x.bits # {}

\* The signals of codes \h2000, \h2001, ... of the first battery, in order.
BmsSignals ==
  LET l3(g) == << <<g, 1>>, <<g, 2>>, <<g, 3>> >>
      one(n) == << <<n, 0>> >>
  IN  l3("cell_overvoltage") \o l3("cell_undervoltage") \o one("cell_overdischarge_fault")
      \o l3("total_voltage_overvoltage") \o l3("total_voltage_undervoltage") \o l3("cell_overtemp")
      \o one("cell_lowtemp_alarm") \o l3("temp_diff_over") \o one("fire_alarm")
      \o l3("pulse_discharge_current_overflow") \o l3("pulse_charge_current_overflow")
      \o one("current_sensor_fault") \o one("low_voltage_supply_alarm") \o one("soc_imbalance_alarm")
      \o one("soc_jump_alarm") \o l3("soc_low") \o one("tms_unit_fault")
      \o one("battery_self_protect_fault") \o one("precharge_fault") \o l3("driving_insulation_low")
      \o one("charge_insulation_low_alarm") \o one("acan_comm_fault") \o one("internal_comm_fault")
      \o one("branch_circuit_open_fault") \o one("hvil_alarm")
      \o one("heat_relay_open_fault") \o one("heat_relay_weld_fault")
      \o one("main_pos_relay_open_fault") \o one("main_pos_relay_weld_fault")
      \o one("main_neg_relay_open_fault") \o one("main_neg_relay_weld_fault")
      \o one("dc_chrg_pos1_relay_open_fault") \o one("dc_chrg_pos1_relay_weld_fault")
      \o one("dc_chrg_neg1_relay_open_fault") \o one("dc_chrg_neg1_relay_weld_fault")
      \o one("dc_chrg_pos2_relay_open_fault") \o one("dc_chrg_pos2_relay_weld_fault")
      \o one("dc_chrg_neg2_relay_open_fault") \o one("dc_chrg_neg2_relay_weld_fault")
      \o one("charge_gun_connection_abnormal") \o one("storage_mismatch_alarm")
      \o one("charge_discharge_current_overflow") \o one("charge_current_overflow_alarm")
      \o one("charge_connector_ntc_fault") \o << <<"charge_connector_overtemp", 1>> >>
      \o << <<"charge_connector_overtemp", 2>> >> \o one("cell_consistency_poor_alarm")
      \o one("soc_high_alarm") \o one("internal_hv_circuit_open_fault")

IsBmsCode(code) == code \in \h2000..\h23FF
BmsInstance(code) == (code - \h2000) \div \h100 + 1
CodeByInst(inst, bms1_code) == bms1_code + (inst - 1) * \h100

BmsSignal(code) ==
  LET n == code - CodeByInst(BmsInstance(code), \h2000)
  IN  CASE n = \h82 -> <<"tms_panel_aircon_fault", 0>>
        [] n = \h8B -> <<"tms_ats_water_pump_fault", 0>>
        [] OTHER -> BmsSignals[n + 1]
=============================================================================
