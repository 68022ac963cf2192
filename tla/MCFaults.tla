------------------------------ MODULE MCFaults ------------------------------
(* Readings for TLC: only what a loaded code looks at varies.              *)
EXTENDS Faults

PcuQuiet == [online |-> TRUE, estop |-> FALSE]
PcuWatched(p) == \E c \in Loaded : ~IsBmsCode(c) /\ RowOf(c).instance = p + 1
PcuReadings ==
  {f \in [0..1 -> [online : BOOLEAN, estop : BOOLEAN]] :
     \A p \in 0..1 : f[p] # PcuQuiet => PcuWatched(p)}

WatchedBits(d) == UNION {BitsOf(d, r.signal) : r \in RulesOf(d)}
DevReadings ==
  {f \in [Device -> [online : BOOLEAN, bits : SUBSET UNION {WatchedBits(d) : d \in Device}]] :
     \A d \in Device : IF RulesOf(d) = {} THEN f[d] = [online |-> TRUE, bits |-> {}]
                                          ELSE f[d].bits \subseteq WatchedBits(d)}

BmsReading(online, level, bits) ==
  [seen |-> TRUE, online |-> online, level |-> level, bits |-> bits, tms |-> {}]
BmsWatched(i) ==
  {c \in Loaded : IF IsBmsCode(c) THEN BmsInstance(c) = i ELSE RowOf(c).signal = "bms1_comm_fault" /\ i = 1}
BmsShows(c, online) ==
  IF ~IsBmsCode(c) THEN {BmsReading(online, <<>>, {})}
  ELSE LET name == BmsSignal(c)[1]
           level == BmsSignal(c)[2]
       IN  IF level = 0 THEN {BmsReading(online, <<>>, bits) : bits \in {{}, DirectBits(name)}}
                        ELSE {BmsReading(online, [g \in {name} |-> l], {}) : l \in {0, level}}
BmsMay(i) ==
  IF BmsWatched(i) = {} THEN {BmsReading(TRUE, <<>>, {})}
  ELSE UNION {BmsShows(c, o) : c \in BmsWatched(i), o \in BOOLEAN}
BmsReadings ==
  {f \in [1..4 -> UNION {BmsMay(i) : i \in 1..4}] : \A i \in 1..4 : f[i] \in BmsMay(i)}

MCReadings ==
  [pcu : PcuReadings, dev : DevReadings, bms : BmsReadings,
   logic : SUBSET ({r.signal : r \in RulesOf("logic")} \cap LogicFaults)]
=============================================================================
