--------------------------- MODULE MCLogicEngine ---------------------------
(* Small inputs for LogicEngine.  Times are in units of about two seconds. *)
EXTENDS LogicEngine

MCGroupTimeout == [g \in Group |-> IF g \in {"B2V_ST2", "B2V_CurrentLimit"} THEN 1 ELSE 2]

St2(level, rq, i) ==
  [msg |-> "B2V_ST2", level |-> level, rqOff |-> rq, packV |-> 1, packI |-> i]
Limit(a) == [msg |-> "B2V_CurrentLimit", limit |-> a, valid |-> TRUE]
Fault(f, b) == [msg |-> f, blocks |-> b]
Tms(l) == [msg |-> "TM2B_Info", level |-> l]
Fire(a) == [msg |-> "Fire2B_state", alarm |-> a]
Healthy == {St2(0, FALSE, 1), Limit(1), Fault("B2V_Fault1", FALSE), Fault("B2V_Fault2", FALSE)}

\* Every critical group, healthy and blocking, and the thermal system.
GateInputs == Healthy \cup {St2(2, FALSE, 1), St2(0, TRUE, 1), Fault("B2V_Fault1", TRUE),
                            Fault("B2V_Fault2", TRUE), Tms(0), Tms(2)}
\* The plant run is about the other inputs: one group suffices to enable a PCU.
PlantInputs == {St2(0, FALSE, 1)}
FireInputs == Healthy \cup {Fire(TRUE)}

NoInputs == {}
PcuPlant == {[hb |-> 0, estop |-> FALSE], [hb |-> 1, estop |-> TRUE]}
Io(e, pl, a) == [estop |-> e, plugs |-> pl, adc |-> a]
IoFrames == {Io(FALSE, "all", "bothHigh"), Io(TRUE, "some", "someLow"),
             Io(FALSE, "none", "neither")}
IoEstop == {Io(TRUE, "none", "neither"), Io(FALSE, "none", "neither")}
SnapFrames == {[smokeOnline |-> TRUE, gasOnline |-> TRUE, gasHigh |-> TRUE],
               [smokeOnline |-> FALSE, gasOnline |-> FALSE, gasHigh |-> FALSE]}
=============================================================================
