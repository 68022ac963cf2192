----------------------------- MODULE PcuRuntime -----------------------------
(***************************************************************************)
(* The control side's view of one PCU: updatePcuOnlineState_               *)
(* (control/logic/logic_device_data.cpp) and updateOnePcuRuntimeHealth_    *)
(* (control/logic/logic_tick.cpp).  Heartbeat diagnostics (repeat and jump *)
(* counters) are left out: nothing depends on them.                        *)
(***************************************************************************)
EXTENDS Naturals

CONSTANTS PcuRxTimeout,   \* PCU_RX_TIMEOUT_MS
          PcuHbStale      \* PCU_HB_STALE_MS

ASSUME PcuTimeoutAssumption == PcuRxTimeout \in Nat /\ PcuHbStale \in Nat

\* PcuOnlineState
PcuState == [seen : BOOLEAN, lastRx : Nat, hasHb : BOOLEAN, hb : Nat, lastHbChange : Nat,
             online : BOOLEAN, reason : 0..3, estop : BOOLEAN]

InitPcu == [seen |-> FALSE, lastRx |-> 0, hasHb |-> FALSE, hb |-> 0, lastHbChange |-> 0,
            online |-> FALSE, reason |-> 0, estop |-> FALSE]

\* A decoded PCU frame with a heartbeat; one without changes nothing.
PcuMsg == [hb : Nat, estop : BOOLEAN]

\* Mutant: every frame counts as a heartbeat change.
PcuOnDeviceData_AnyFrame(st, m, ts) ==
  [st EXCEPT !.seen = TRUE, !.lastRx = ts, !.estop = m.estop,
             !.hasHb = TRUE, !.hb = m.hb, !.lastHbChange = ts]

PcuOnDeviceData(st, m, ts) ==
  [st EXCEPT !.seen = TRUE, !.lastRx = ts, !.estop = m.estop,
             !.hasHb = TRUE, !.hb = m.hb,
             !.lastHbChange = IF ~st.hasHb \/ st.hb # m.hb THEN ts ELSE @]

PcuFresh(now, last, timeout) == last # 0 /\ last <= now /\ now - last <= timeout

PcuOfflineReason(st, now) ==
  IF ~st.seen THEN 1
  ELSE IF ~PcuFresh(now, st.lastRx, PcuRxTimeout) THEN 2
  ELSE IF ~(st.hasHb /\ PcuFresh(now, st.lastHbChange, PcuHbStale)) THEN 3
  ELSE 0

UpdatePcuHealth(st, now) ==
  [st EXCEPT !.online = PcuOfflineReason(st, now) = 0,
             !.reason = PcuOfflineReason(st, now)]
=============================================================================
