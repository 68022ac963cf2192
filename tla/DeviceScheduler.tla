--------------------------- MODULE DeviceScheduler ---------------------------
(***************************************************************************)
(* DeviceScheduler (app/scheduler): which serial device is polled when,    *)
(* and which device counts as online.  Two threads share poll_ctx_ and     *)
(* tasks_ under one mutex: the timer thread runs pollTick, the parser      *)
(* thread runs AppManager::onParsed for every decoded frame.  Both copy    *)
(* the health of a device into the aggregator, reading it in one critical  *)
(* section and writing it in another.                                      *)
(*                                                                         *)
(* An action is one critical section, or one step between two of them.     *)
(***************************************************************************)
EXTENDS Naturals

CONSTANTS
  Device,       \* device names
  Task,         \* the devices with an enabled poll task
  Window,       \* device -> disconnect_window_ms
  Period,       \* task -> period_ms
  TickLatency,  \* bound on the time between the starts of two pollTicks
  ParserStall,  \* bound on the time onParsed takes to its last merge, the health
                \* callback's writes to the snapshot sinks included
  MaxTime       \* bound on the clock

ASSUME SchedulerAssumption ==
  /\ Task \subseteq Device
  /\ Window \in [Device -> Nat] /\ Period \in [Task -> Nat \ {0}]
  /\ TickLatency \in Nat /\ ParserStall \in Nat /\ MaxTime \in Nat

None == "none"

ASSUME NoneAssumption == None \notin Device

VARIABLES
  now,        \* steady clock
  ctx,        \* poll_ctx_
  due,        \* tasks_[].next_due_ms
  agg,        \* SystemSnapshot items[].online in the aggregator
  timer,      \* where pollTick is and its locals
  parser,     \* where onParsed is and its locals
  tickAt,     \* when the last pollTick began
  running,    \* DeviceScheduler::running_
  timerOn,    \* the timer thread has not been told to stop
  driverUp,   \* the serial driver threads run
  stopper     \* where AppManager::stop is

healthVars == <<ctx, due, agg>>
stopVars == <<running, timerOn, driverUp, stopper>>
vars == <<now, healthVars, timer, parser, tickAt, stopVars>>

\* DevicePollCtx; an entry exists iff `known'.
PollCtx == [known : BOOLEAN, online : BOOLEAN, lastOk : Nat, lastSend : Nat]

IdleTimer == [at |-> "idle", now |-> 0, polls |-> {}, changed |-> {}, dev |-> None,
              online |-> FALSE]
IdleParser == [at |-> "idle", dev |-> None, merges |-> 0, online |-> FALSE, since |-> 0]

\* start() has created the tasks and their contexts, all offline, and the timer.
Init ==
  /\ now = 1
  /\ ctx = [d \in Device |->
              [known |-> d \in Task, online |-> FALSE, lastOk |-> 0, lastSend |-> 0]]
  /\ due = [d \in Task |-> 0]
  /\ agg = [d \in Device |-> FALSE]
  /\ timer = IdleTimer /\ parser = IdleParser /\ tickAt = 1
  /\ running = TRUE /\ timerOn = TRUE /\ driverUp = TRUE /\ stopper = "up"

-----------------------------------------------------------------------------
(* The timer thread: pollTick.                                             *)

\* now = nowMs(), before the lock.
TickBegin ==
  /\ timer.at = "idle" /\ timerOn
  /\ timer' = [timer EXCEPT !.at = "lock", !.now = now]
  /\ tickAt' = now
  /\ UNCHANGED <<now, healthVars, parser, stopVars>>

\* Section A: a stamp later than the tick's own time counts as not recent.
Recent(c, d, t) == c.lastOk # 0 /\ c.lastOk <= t /\ t - c.lastOk <= Window[d]

\* Mutant: the first due time is not initialised.
IsDue_NoFirst(d, t) == due[d] # 0 /\ due[d] <= t

\* Section B.
IsDue(d, t) == due[d] = 0 \/ due[d] <= t

\* Mutant: only devices that come online are reported as changed.
TickLocked_OnlyOnline ==
  LET t == timer.now
      aged == [d \in Device |-> [ctx[d] EXCEPT !.online = ctx[d].known /\ Recent(ctx[d], d, t)]]
      polls == {d \in Task : IsDue(d, t)}
  IN  /\ timer.at = "lock"
      /\ ctx' = [d \in Device |->
                   IF d \in polls THEN [aged[d] EXCEPT !.lastSend = t] ELSE aged[d]]
      /\ due' = [d \in Task |-> IF d \in polls THEN t + Period[d] ELSE due[d]]
      /\ timer' = [timer EXCEPT !.at = "send", !.polls = polls,
                     !.changed = {d \in Device : aged[d].online /\ ~ctx[d].online}]
      /\ UNCHANGED <<now, agg, parser, tickAt, stopVars>>

\* Sections A and B, one critical section.
TickLocked ==
  LET t == timer.now
      aged == [d \in Device |-> [ctx[d] EXCEPT !.online = ctx[d].known /\ Recent(ctx[d], d, t)]]
      polls == {d \in Task : IsDue(d, t)}
  IN  /\ timer.at = "lock"
      /\ ctx' = [d \in Device |->
                   IF d \in polls THEN [aged[d] EXCEPT !.lastSend = t] ELSE aged[d]]
      /\ due' = [d \in Task |-> IF d \in polls THEN t + Period[d] ELSE due[d]]
      /\ timer' = [timer EXCEPT !.at = "send", !.polls = polls,
                     !.changed = {d \in Device : aged[d].online # ctx[d].online}]
      /\ UNCHANGED <<now, agg, parser, tickAt, stopVars>>

\* Section C: parser_ptr->sendPoll, one request for each due task.
TickSend(d) ==
  /\ timer.at = "send" /\ d \in timer.polls
  /\ timer' = [timer EXCEPT !.polls = @ \ {d}]
  /\ UNCHANGED <<now, healthVars, parser, tickAt, stopVars>>

\* Section D for one changed device: mergeSchedulerHealthToAggregator reads ...
TickReadHealth(d) ==
  /\ timer.at = "send" /\ timer.polls = {} /\ d \in timer.changed
  /\ timer' = [timer EXCEPT !.at = "merge", !.dev = d, !.online = ctx[d].online,
                            !.changed = @ \ {d}]
  /\ UNCHANGED <<now, healthVars, parser, tickAt, stopVars>>

\* ... and writes.
TickWriteHealth ==
  /\ timer.at = "merge"
  /\ agg' = [agg EXCEPT ![timer.dev] = timer.online]
  /\ timer' = [timer EXCEPT !.at = "send", !.dev = None]
  /\ UNCHANGED <<now, ctx, due, parser, tickAt, stopVars>>

TickEnd ==
  /\ timer.at = "send" /\ timer.polls = {} /\ timer.changed = {}
  /\ timer' = IdleTimer
  /\ UNCHANGED <<now, healthVars, parser, tickAt, stopVars>>

-----------------------------------------------------------------------------
(* The parser thread: AppManager::onParsed with a frame of device d.       *)

\* Mutants: an answer makes the task due at once; any device gets a task.
OnDeviceData_PollNow(d) ==
  /\ parser.at = "idle" /\ stopper \in {"up", "scheduler"}
  /\ ctx' = [ctx EXCEPT ![d].known = TRUE, ![d].online = TRUE, ![d].lastOk = now]
  /\ due' = IF d \in Task THEN [due EXCEPT ![d] = now] ELSE due
  /\ parser' = [at |-> "aggregate", dev |-> d, merges |-> IF ctx[d].online THEN 1 ELSE 2,
                online |-> FALSE, since |-> now]
  /\ UNCHANGED <<now, agg, timer, tickAt, stopVars>>

OnDeviceData_NewTask(d) ==
  /\ parser.at = "idle" /\ stopper \in {"up", "scheduler"}
  /\ ctx' = [ctx EXCEPT ![d].known = TRUE, ![d].online = TRUE, ![d].lastOk = now]
  /\ due' = [e \in DOMAIN due \cup {d} |-> IF e = d THEN now ELSE due[e]]
  /\ parser' = [at |-> "aggregate", dev |-> d, merges |-> IF ctx[d].online THEN 1 ELSE 2,
                online |-> FALSE, since |-> now]
  /\ UNCHANGED <<now, agg, timer, tickAt, stopVars>>

\* scheduler_->onDeviceData: the section under mtx_, which reads the clock itself.
\* A device that comes online has its health merged once more than usual.
OnDeviceData(d) ==
  /\ parser.at = "idle" /\ stopper \in {"up", "scheduler"}
  /\ ctx' = [ctx EXCEPT ![d].known = TRUE, ![d].online = TRUE, ![d].lastOk = now]
  /\ due' = IF d \in Task THEN [due EXCEPT ![d] = now + Period[d]] ELSE due
  /\ parser' = [at |-> "aggregate", dev |-> d, merges |-> IF ctx[d].online THEN 1 ELSE 2,
                online |-> FALSE, since |-> now]
  /\ UNCHANGED <<now, agg, timer, tickAt, stopVars>>

\* on_data_: aggregator_->onDeviceData
AggregatorOnDeviceData ==
  /\ parser.at = "aggregate"
  /\ agg' = [agg EXCEPT ![parser.dev] = TRUE]
  /\ parser' = [parser EXCEPT !.at = "read"]
  /\ UNCHANGED <<now, ctx, due, timer, tickAt, stopVars>>

\* mergeSchedulerHealthToAggregator, from the health callback and from onParsed.
ReadHealth ==
  /\ parser.at = "read"
  /\ parser' = [parser EXCEPT !.at = "merge", !.online = ctx[parser.dev].online]
  /\ UNCHANGED <<now, healthVars, timer, tickAt, stopVars>>

WriteHealth ==
  /\ parser.at = "merge"
  /\ agg' = [agg EXCEPT ![parser.dev] = parser.online]
  /\ parser' = IF parser.merges > 1
               THEN [parser EXCEPT !.at = "read", !.merges = @ - 1]
               ELSE IdleParser
  /\ UNCHANGED <<now, ctx, due, timer, tickAt, stopVars>>

-----------------------------------------------------------------------------
(* AppManager::stop.                                                       *)

\* DeviceScheduler::stop: the exchange has cleared running_ by the time the locked
\* section tests it, so timer_.stop() is reached only if that test sees it set.
SchedulerStop ==
  /\ stopper = "up" /\ running
  /\ running' = FALSE
  /\ timerOn' = IF running' THEN FALSE ELSE timerOn
  /\ stopper' = "scheduler"
  /\ UNCHANGED <<now, healthVars, timer, parser, tickAt, driverUp>>

\* parser_->stop joins the parser thread.
ParserStop ==
  /\ stopper = "scheduler" /\ parser.at = "idle"
  /\ stopper' = "parser"
  /\ UNCHANGED <<now, healthVars, timer, parser, tickAt, running, timerOn, driverUp>>

DriverStop ==
  /\ stopper = "parser"
  /\ driverUp' = FALSE
  /\ stopper' = "driver"
  /\ UNCHANGED <<now, healthVars, timer, parser, tickAt, running, timerOn>>

-----------------------------------------------------------------------------

\* Time passes while neither thread is late.
Advance ==
  /\ now < MaxTime
  /\ timerOn => now < tickAt + TickLatency
  /\ parser.at # "idle" => now < parser.since + ParserStall
  /\ now' = now + 1
  /\ UNCHANGED <<healthVars, timer, parser, tickAt, stopVars>>

Next ==
  \/ Advance
  \/ TickBegin \/ TickLocked \/ TickWriteHealth \/ TickEnd
  \/ \E d \in Device : TickSend(d) \/ TickReadHealth(d) \/ OnDeviceData(d)
  \/ AggregatorOnDeviceData \/ ReadHealth \/ WriteHealth
  \/ SchedulerStop \/ ParserStop \/ DriverStop

Spec == Init /\ [][Next]_vars

-----------------------------------------------------------------------------
(* Properties.                                                             *)

\* The poll contexts, the aggregator's flags and the locals of the timer and parser
\* threads keep their types; only configured tasks are ever due.
TypeOK ==
  /\ now \in Nat /\ tickAt \in Nat
  /\ ctx \in [Device -> PollCtx] /\ due \in [Task -> Nat] /\ agg \in [Device -> BOOLEAN]
  /\ timer \in [at : {"idle", "lock", "send", "merge"}, now : Nat, polls : SUBSET Task,
                changed : SUBSET Device, dev : Device \cup {None}, online : BOOLEAN]
  /\ parser \in [at : {"idle", "aggregate", "read", "merge"}, dev : Device \cup {None},
                 merges : 0..2, online : BOOLEAN, since : Nat]
  /\ running \in BOOLEAN /\ timerOn \in BOOLEAN /\ driverUp \in BOOLEAN
  /\ stopper \in {"up", "scheduler", "parser", "driver"}

\* A task is not polled again before its period is over, although the parser thread
\* moves its due time whenever an answer arrives.
PollSpacing ==
  [][\A d \in Task : ctx'[d].lastSend # ctx[d].lastSend /\ ctx[d].lastSend # 0 =>
       ctx'[d].lastSend >= ctx[d].lastSend + Period[d]]_vars

\* No task is forgotten: a device that neither was polled nor answered for its period
\* is polled by the next tick.
KeepsPolling ==
  \A d \in Task : \/ now <= ctx[d].lastSend + Period[d] + 2 * TickLatency
                  \/ now <= ctx[d].lastOk + Period[d] + 2 * TickLatency

\* A device that has been silent for its window and two ticks is offline in the
\* snapshots the control thread is given, whatever copies of its health were in
\* flight between the two threads when it fell silent.
SilentIsReported ==
  \A d \in Device : ctx[d].known /\ now > ctx[d].lastOk + Window[d] + 2 * TickLatency => ~agg[d]

\* A device is judged offline by its disconnect window.
OfflineMeansSilence ==
  [][\A d \in Device : ctx[d].online /\ ~ctx'[d].online =>
       now > ctx[d].lastOk + Window[d]]_vars

\* Nothing is sent once the layer below is closed.
NoPollAfterDriverStop == [][\A d \in Device : TickSend(d) => driverUp]_vars
=============================================================================
