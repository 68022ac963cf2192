# TLA+ model of the energy-storage controller

The program (C++, `src/`) is the controller of a mobile energy store. It polls
serial devices (gas and smoke sensors, air conditioner, UPS), receives CAN frames
of up to four battery management systems (BMS) and two power conversion units
(PCU), reads digital and analogue inputs, and sends the BMSs their high-voltage
command and the PCUs their enable and power-limit frames. A touch screen (HMI)
reads and writes registers; snapshots and faults go to files and SQLite.

The models follow a frame from the CAN socket through the codec and the threads
to the commands that switch high voltage, and from there to the archive, the
fault log and the fault pages of the screen. Everything is translated from the
code; file and line ranges are in `PROJECT.json` under `map`.

## 1. Inventory

| Component | State | Operations | Interaction | What is hard, and what makes it correct |
|---|---|---|---|---|
| `app/app_manager` | the parts, the application event queue, the state machine | `init`, `start`, `stop`, `pumpOnce`, `onParsed`, health-sync and fault-refresh threads | owns and wires all others; stamps events with the time before it posts them | order of shutdown; two threads writing one device's health; an event's stamp is older than its handling |
| `app/scheduler` | `poll_ctx_`, `tasks_` under one mutex, the timer thread | `pollTick`, `onDeviceData`, `start`, `stop` | timer thread calls the parser to send; parser thread reports data; both call the health callback | a device is polled on time and not early; a silent device becomes offline in the snapshots, a live one does not |
| `driver/can` | socket, eventfd, transmit queue, `epollout_enabled_`, reconnect back-off | `send`, `threadMain`, `handleWrite`, `tryReconnect`, `stop` | control thread sends, the CAN thread owns the socket | frames once and in order through partial writes and reconnections; a wake-up is served; `stop` ends a wait without timeout |
| `services/parser` | CAN and serial receive queues, frame assemblers, request contexts | `pushCan`, `pushSerial`, `sendPoll`, thread loop | from drivers, to `AppManager::onParsed` and to `BmsQueue` | split and glued frames; answers matched to requests; CAN first, serial starved |
| BMS protocol (`protocol/can/bms`) | generated signal table | identifier routing, bit extraction, scaling, packing of the command | parser thread, BMS worker, control thread | the adapter reads what the battery meant, of the battery that sent it |
| `bms_thread` | `BmsQueue` (latest frame per id), `BmsWorker` | `push`, `popAll`, parse, throttled dispatch | parser thread to BMS worker to aggregator and control | frames overwritten but never repeated or reordered; the newest arrives |
| `services/aggregator` | `SystemSnapshot`, `BmsSnapshot` | `onDeviceData`, `updateHealthFromScheduler`, `updateBmsRuntimeHealth`, `snapshot` | written by four threads | health of an older read overwriting a newer one |
| `control/control_loop` | two event queues, latest-only snapshot buffer, control thread | `post`, `postSnapshotLatest_`, `takeLatestSnapshot_`, `threadMain_`, `stop` | producers: parser, timer, BMS worker, I/O thread, main loop; a refresh thread enters the same engine | a pending snapshot is neither lost nor duplicated; stop returns; one thread in the engine |
| `control/logic` | `LogicContext` | one handler per event type, health passes, PCU frames | runs in the control thread | commands only from fresh and harmless data, for any order and delay of events |
| `control/bms` | `BmsLogicCache`, `BmsCommandManager::states_` | adapter per message group, rebuild, clamp, emit | inside the engine | a stale or blocking group forbids PowerOn, whatever the business code wrote |
| `control/business` | two static latches | `evaluate` | inside the tick, between rebuild and clamp | a shutdown stays a shutdown |
| `control/fault` | conditions with debounce, centre, pages, history cache, fault database | evaluate, confirm, clear, page, restore | fault thread and control thread, without a common lock | a code is raised when its rule says; one right row per fault; the page shown is the page asked for |
| HMI (`logic_hmi_*`, `protocol/rs485/hmi`, `normal`) | address table, button states, page numbers | register reads and writes, button edges | parser thread and control thread | edges lost or doubled; table shared by threads |
| snapshot sinks | change caches, files, SQLite databases | dispatch, change detection, transaction, rotate | called from parser, timer, BMS worker and sync threads | a snapshot whole or absent; no reading passed over; a slow sink delays its caller |
| `control/maintain` | maintenance records, file | save, load | not called at present | - |
| serial and I/O threads | transmit queue, samples | start, stop, send | callbacks to parser and app | send after stop |
| view builder, other codecs, configuration, logging | none of their own | pure functions and I/O | - | left out |

## 2. Modules

| Module | Models | State and actions |
|---|---|---|
| `LatestSnapshot` | what the snapshot buffer promises | one slot: `Put`, `Get`, `Close` |
| `ControlLoop` | `control_loop.cpp`, and how `AppManager` captures and posts snapshots | queues, buffer and flags; one action per critical section or step between two: `Post`, `Capture`, `PostSnapshotLatest` (under `snapshot_mtx_`), `PushMarker` (after it is released), the loop (`LoopTest`, `PopHigh`, `PopNormal`, `TakeLatestSnapshot`, `HandleDone`), the four stages of `stop`, the refresh thread (`RefreshEnter`, `RefreshLeave`) |
| `BmsRuntime` | adapter and ageing of one BMS, the two gates | pure operators on one cache entry |
| `BmsCommand` | `BmsCommandManager`, `BusinessEngine` | pure operators on one command state and the latches |
| `PcuRuntime` | `updatePcuOnlineState_`, PCU health | pure operators on one PCU state |
| `LogicEngine` | the handlers of the control thread, composed of the three modules above | one action per event type; `OnTick` is the whole of `onTick_`: both health passes, rebuild, business, clamp, BMS emission, PCU frames |
| `DeviceScheduler` | scheduler, its timer, the health merges of `AppManager`, `stop` | timer thread: `TickBegin` (clock read), `TickLocked` (ageing and due list), `TickSend`, `TickReadHealth`/`TickWriteHealth`, `TickEnd`; parser thread: `OnDeviceData`, `AggregatorOnDeviceData`, `ReadHealth`, `WriteHealth`; `SchedulerStop`, `ParserStop`, `DriverStop` |
| `CanThread` | `driver/can`: one port | control thread: `Send`, the test, `epoll_ctl` and write of `epollout_enabled_` as three steps, `Wakeup`, `StopCall`, `StopJoin`; CAN thread: the ways `epoll_wait` returns, `EventFdWrite`, `WriteFrame`, `tryReconnect` (`ReopenWorks`, which succeeds on an interface that is still down too, `Recovered`, `ReopenFails`); kernel (external): link, send buffer, time |
| `BmsTable` | the generated table | every message with every signal: start, length, factor, offset, named values |
| `BmsCodec` | `BmsTx`, `BmsFrameRouter`, `BmsProto`, `ProtoBmsTableRuntime`, and which signals the adapter reads | what a message may carry is a parameter; `CommandSend`, `BatterySend` (external peer), `StraySend`, `Receive`; `PackBits`, `ExtractBits`, `RawToPhys`, `ReadSignals` are pure |
| `BmsReceive` | parser's CAN branch, `BmsQueue`, `BmsWorker`, BMS part of the aggregator, health-sync thread, BMS file and SQLite sinks, `AppManager::stop` | CAN thread `PushCan`, `PushStray`; parser `ParseCan`; worker `WorkerTake` .. `WorkerDispatch`; control thread `ControlFrame`, `ControlTimeout`; sync thread `SyncRead` .. `SyncDispatch`; five stages of stop |
| `Archive` | `SnapshotDispatcher`, the file sink, the flat SQLite sink, and the aggregation and dispatch of `onParsed` and of the health callback | `Answer`, `Aggregate`, `Mirror`, `GoesOffline`, `ReadHealth`, `Merge` (two critical sections), `TakeSnapshot`, `FileOnSnapshot`, then the transaction statement by statement (`Begin`, `InsertMain`, `InsertHealth`, `InsertDevice`, `Commit`), any of which SQLite may refuse; `Crash` |
| `SnapshotLog` | what the snapshot database promises | a log and the snapshot handed in: `HandIn`, then `Store` or `Drop` |
| `FaultRules` | fault map, condition keys, debounce, BMS levels and codes | pure operators |
| `Faults` | fault thread, `FaultCenter`, `FaultHistoryCache`, fault database, fault pages and their buttons | what a pass may read is a parameter; fault thread `Evaluate`, `SetActiveOn`/`SetActiveOff` (one edge each), `RefreshHead`, `FaultRefreshWindow`, `Flush`; control thread `Click...` (the history buttons also enter the history view), `TurnPage`, `ShowHistoryPage`, `ButtonLoad`, `ButtonFlush`; `Restart` |
| `MC*` | instances for TLC | inputs and small sets: `MCBmsCodec` the payloads, `MCFaults` the readings, of which only what a loaded code looks at varies |
| `*_proofs` | theorems | see section 5 |

The models meet at the queues. `CanThread` is the transmit side of a port;
`BmsReceive` starts where the CAN callback queues a frame and numbers the frames
whose content `BmsCodec` treats; its control thread only counts frames, and
`LogicEngine` says what the engine does with each. `DeviceScheduler` decides when a
device is offline, and `Archive` takes that as an event and stores it. `Faults`
reads what `LogicEngine` keeps as arbitrary readings.

In `LogicEngine` and `DeviceScheduler` time is a counter `now`. An event carries the
stamp its producer read; `Lag` bounds how long it waits in a queue, and stamps of
one producer do not decrease, stamps of two producers are in any order. That is how
the code can see a frame "from the future".

What the models leave out or reduce:

- signals that are only displayed, ages, `disconnect_count`, `last_offline_ms` and
  the PCU heartbeat diagnostics; `life_signal` and heartbeats count modulo
  `LifeMod` (256 in the code);
- a fault frame carries one bit in `LogicEngine` (some signal `hv_should_open`
  tests is set); pack voltage and current that are invalid or not positive are 0;
- building a CAN frame is taken to succeed, the PCU transmit configuration to have
  both frames switched on;
- UPS, air conditioner, HMI and relay output in `LogicEngine`;
- the scheduler's tasks are constants (the configuration), devices whose health
  changed are visited in any order, and the parser is set before the first tick;
- `CanThread`: `epoll_wait` returns one event at a time, reception (which changes
  nothing modelled) and failures of `epoll_ctl` are left out;
- `BmsCodec`: initial values, limits, units and texts of the table, which no code
  reads; a frame is the set of its one bits, so no value is too wide for TLC. All
  frames are extended ones of eight bytes (`CanDispatcher::handle` drops others), and
  `u8_overrides_`, which no caller sets, is left out;
- `BmsReceive`: the throttles of 200 ms, 500 ms and 1 s are a choice between due
  and not yet; a battery that falls silent is timed out at some moment;
- `Archive`: the content of a row is the number of the reading; the rolling of
  history files, the uplink and the local BMS sinks;
- `Faults`: numbers, names and times of a row, and `FaultCenter`'s own history,
  which feeds pages that are no longer written. Two activations are taken to have
  different millisecond stamps. A load of the history cache changes rows, start and
  end in one step: the code changes them unlocked from two threads, and a reader
  between two of these writes is not modelled (`EngineExclusive`, section 4). The
  loads at start-up (`bindFaultDb`, `restoreFaultHistory`, `loadHmiMapFile`), which
  nothing separates, are one.

Ghost variables (`cleared`, `fireAlarm`, `hbSince` in the control models, `lost` in
the archives, `obs`, `dead`, `rowless`, `missed`, `calm` in `Faults`) record history
for properties and are read by no action's guard.

## 3. Runs

| Run | Instance | Shows |
|---|---|---|
| `ControlLoop_threads` | 2 producers, 4 snapshots, HMI and tick events, queues to 1 at a post | no stranded snapshot, one marker, nothing old after stop, refinement of `LatestSnapshot`, a pending snapshot is handled, `stop` returns |
| `LogicEngine_gate` | 1 battery, 10 different frames, time to 4, no delay | both gates safe and in agreement, power report fresh |
| `LogicEngine_plant` | 1 battery, 1 PCU, I/O, smoke, gas, snapshots, delay 1, time to 4 | no PCU enabled unsafely under late and reordered events, a frozen PCU goes offline, a battery goes offline only after its timeout or when a frame was overtaken by a late event |
| `LogicEngine_fault_shutdown` | healthy battery and emergency stop | **violated**: PowerOn after the power-down latch |
| `DeviceScheduler_health` | 1 polled, 1 silent-capable device, window 2, period 2, ticks 2 apart, parser stall 1, time to 9 | polling is neither early nor forgotten; silence is reported |
| `CanThread` | queue of 2, frames modulo 4, back-off 1 to 2 | frames once and in order, a wake-up is served, a broken socket comes back, `stop` returns |
| `BmsCodec` | batteries 1, 2 and 4, three stray identifiers, each signal of each message in turn at its edge values with the others all zero or all one | frames go to the battery and message that sent them, a command is read as built, the adapter reads what was sent |
| `BmsCodec_hot` | the same | **violated**: a temperature from 88 degrees on is read far below zero |
| `BmsReceive` | 1 battery, 1 group, 2 frames, queue of 2, 1 failed transaction | frames once and in order, the newest arrives, a loss reaches `latest.json`, the rows catch up |
| `Archive` | a gas detector and a PCU, 2 readings, 1 offline edge, 1 refused statement, 1 crash, `gas_poll_event` existing | a stored snapshot is whole; no reading is passed over; refinement of `SnapshotLog` |
| `Faults` | UPS fault 0x1054, PCU 2 emergency stop 0x10BB, cell overvoltage 0x2002; 3 old rows, pages of 1 row, window of 2 pages, 2 events out of failures, clicks and restarts | rows and active faults agree, codes follow their rules, the screen shows the pages asked for |
| `Faults_estop` | PCU 1 emergency stop 0x10BA | **violated**: the emergency stop lasts and is not raised |

The violated properties state what a comment or the table's source says of the
code; `findings` in `PROJECT.json` quotes each one.

**Bounds.** In `ControlLoop_threads` a snapshot can be overwritten in the buffer,
taken, posted again while the marker is under way, and posted around `stop`: four
snapshots and two producers give every overlap of these. Timeouts in `LogicEngine`
are one or two units and the clock runs past two of the longest, so each group can
go stale while another is fresh and come back. In `DeviceScheduler_health`
`MaxTime` exceeds window plus two tick latencies plus the time of a first answer,
so `SilentIsReported` is tested with up to three units of history before the
silence. `CanThread` needs no bound on time or sends: frame numbers wrap, and four
of them tell apart a queue of two, the frame on its way and the next. `BmsCodec`
enumerates the table; edge values are no bit, the lowest or the top bit alone, all
bits, and all but the lowest or the top one, against a background of zeros and of
ones, so a field that reads a neighbour's bit is seen. In `BmsReceive` one identifier suffices for
overwriting and reordering (identifiers do not interact but through the batch,
whose order is any), and two frames for a newer one that overtakes; `OnceInOrder`
is proved for any number of each. `Archive` lets one reading be aggregated while the other thread's
snapshot is under way, with a refused statement before or after a crash. Two
devices can change at once, so a statement can fail after the other device's rows
went in. In
`Faults` each of the three sources has a code of its own kind (debounced device
bit, keyed condition, direct battery level), three old rows make two windows of
pages, and two events let a failure meet a click or a restart. `CHECK_DEADLOCK
FALSE` is set where a bound on time, frames or readings ends a behaviour, or the
system stops.

**Assumptions that matter.** `SilentIsReported` needs the parser thread to finish
`onParsed` within a device's window (`ParserStall` <= `Window`). With
`ParserStall = 4` and window 2, TLC finds a device that stays online in the
aggregator for good: the timer thread reports it offline between the parser's read
and its write. `ParserStall` is a conservative bound: it covers all
of `onParsed` up to its last merge. The sinks of the health callback, with a SQLite
busy timeout of 3000 ms against windows of 1500 to 2000 ms, run in that time, but
after the callback's own merge and before the last one, not between the read and the
write of one merge. `OfflineMeansTimeout` is checked with a delay of one
unit: a tick stamped before a frame and handled after it finds a reception time in
its future and takes the battery offline. The property allows that for less than
`Lag` after the frame and for no other reason besides the timeout. `RowsCatchUp` and
`ReadingsStored` exempt rows whose transaction was rolled back: both sinks update
their change cache first and do not write such a row again before its value changes.
`PagesCatchUp` exempts a refresh whose read failed, which the code does not repeat
before the next change. These lost writes are real and named as hazards; no property
claims the code recovers from them.

**Fairness.** `ControlLoop`: weak fairness for each step of the control thread, of
`stop` and of a producer between its two critical sections: the threads are plain
`std::thread`s that the system schedules. Strong fairness for taking from the normal
queue: `popEvent_` prefers the high-priority queue, so a normal event waits for a
moment when that queue is empty, which an HMI that sends every few milliseconds
leaves again and again; `PendingIsHandled` states this condition as its hypothesis.
`CanThread`: weak fairness for both threads' own steps, for time and for the
timeout of `epoll_wait`; strong fairness for returning with the eventfd or with
EPOLLOUT, because `epoll_wait` returns every event that is ready, so none is passed
over for ever. `BmsReceive`: weak fairness for each thread and for the timeout of a
silent battery; strong fairness for the worker's 200 ms tick and the file sink's
500 ms throttle, which come due as time passes. None assumes that a frame is sent,
that a link comes up or that `stop` is called.

## 4. Findings

With a run that shows them:

1. `business_engine.cpp:197` writes `final_hv_state+1`; 1 is PowerOn, so the
   shutdown latch asks for PowerOn and the "on" latch for PowerOff. What goes out is
   kept safe for the battery by the clamp, but a shutdown by emergency stop, smoke
   or gas does not open high voltage (`LogicEngine_fault_shutdown`).
2. `proto_bms_table_runtime.cpp:94` sign-extends every signal with a negative
   offset. An 8-bit temperature with offset -40 from 88 degrees on is decoded to
   -168 .. -41 (`BmsCodec_hot`).
3. `fault_logic_evaluator.cpp:213` and `:216` evaluate one condition key with the
   emergency stop of PCU 2 and of PCU 1; the first call resets the timer the second
   one needs, and 0x10BA is never confirmed (`Faults_estop`).

Claims of comments that the modules state as properties and that fail; they are not
among the runs. Naming one in the cfg given shows its counterexample:

| Property | cfg | Code and claim |
|---|---|---|
| `EngineExclusive` | `ControlLoop_threads` | `refreshFaultPagesOnly` (`control_loop.cpp:454`) enters the engine beside the control thread, without a common lock (`control_loop.h:3`) |
| `LatestNeverOlder` | `ControlLoop_threads` | a snapshot captured earlier can replace one captured later (`control_loop.cpp:526`, `control_loop.h:78`) |
| `NoPowerOnUnderFire` | `LogicEngine_gate`, `BmsInputs <- FireInputs` | the message is decoded as `Fire2B_state` and dispatched as `Fire2B_Info`: `fire_fault_level` stays 0 and no gate sees a fire (`bms_logic_adapter.cpp:1744`, `:1766`) |
| `PcuEnableNeedsAllGroups` | `LogicEngine_gate`, `BmsInputs <- Healthy` | `runtime_fault_stale` ignores groups never received: a PCU is enabled by a BMS that has sent only ST2 (`logic_tick.cpp:715`, `bms_logic_types.h:40`) |
| `OfflineMeansSilence` | `DeviceScheduler_health` | `pollTick` reads the clock before the lock and takes a fresher answer for none (`device_scheduler.cpp:281`) |
| `NoPollAfterDriverStop` | `DeviceScheduler_health` | `DeviceScheduler::stop` returns before it stops its timer (`device_scheduler.cpp:206`, `app_manager.cpp:516`) |
| `HealthEverySnapshot` | `Archive`, `Preexisting = {}`, only this property | the schema indexes `gas_poll_event`, a table it never creates; in a fresh database the script stops there, the state tables are missing, and every snapshot with a changed device is rolled back (`sqlite_snapshot_flat_sink.cpp:309`, against `:1418`) |

Noted while modelling, without a property of their own:

- `BmsProto` ignores the byte order of a message, so `B2T_BMS_HVVolt_A`/`R1` and
  `TM2B_RQPower_A`/`FaultCode` share bits; the router looks only at the low twelve
  bits of an identifier.
- The race on `epollout_enabled_` can leave a frame queued with EPOLLOUT not
  registered until the next `send()` (`WakeupServes` therefore starts from a
  wake-up); errors of `recv` never ask for a reconnection.
- The file sink's pending snapshot is written only by a later snapshot.
  `insertInstanceHealth_` binds ten values to seven parameters.
- Code 0x10B9 is never raised: no field of `LogicFaultState` stands for it and
  `evalLogicSignal_` does not know its name; the charge-relay signals of the AC and
  pantograph sides map to no code; of the detail codes 0x2080 to 0x20A3 only 0x2082
  and 0x208B are ever set; the history page shows codes the catalogue hides.
- Numbering of faults restarts at 1 when no history row could be loaded; a fault
  that persists over a restart leaves its old row open (`fault_center.cpp:75`).
- `DriverManager` compacts `serialThreads_`, but `sendSerial` indexes it by the
  index of the configuration.

## 5. Proofs

TLAPS proves the following for all values of the constants (any producers,
batteries, PCUs, devices, groups, codes, page sizes, timeouts, periods, delays, and
any number of failures, crashes and restarts). The assumptions are the named
`ASSUME`s of the modules: types of the constants; that the reported batteries and
transmitting PCUs are among the existing ones; that a poll period is not 0, the
numbers of frames outlast a CAN queue, the loaded fault map is finite, and a stray
identifier is not a message's own and does not name a battery and a message in its
low twelve bits (`StrayIdsAssumption`); that a raw value is as wide as its signal
(`PayloadsAssumption`) and a reading has the types of the code's structures, with
only those logic faults set that `LogicFaultState` has a field for
(`ReadingsAssumption`). Three theorems have a hypothesis of their own, named below.

- `ControlLoop_proofs`: `TypeCorrect`, `PendingHasMarkerAlways`,
  `SingleMarkerAlways`, `NoOldSnapshot`, `Refinement`. The properties are not
  inductive: the marker flag, the markers in the queue, the producers about to push
  and the control thread about to take must be related (the flag is set exactly
  while one of them holds a marker, until `stop` clears it), and for
  `NoOldSnapshot` the buffer holds, after the clearing section, only versions
  posted after it.
- `LogicEngine_proofs`: `TypeCorrect`, `EntriesConsistent`, `PowerOnSafe`,
  `PcuEnableSafe`, `PowerReportIsFresh`, `GatesAlwaysAgree`, `FrozenPcuIsOffline`.
  The strengthening `EntryInv` relates, in each cache entry, `hv_allow_close` to
  the fault signals it was computed from, and the flags of a group to its reception
  time; `HbInv` relates the heartbeat a PCU entry remembers to the time that value
  was first received. The outputs of a tick are then safe because every tick ages
  the cache itself before it decides, with its own stamp, at most `Lag` old.
  `OfflineMeansTimeoutAlways` says for any delay when a battery goes offline: after
  its timeout, or when a tick or snapshot finds a frame stamped after itself, which
  happens only less than `Lag` after that frame. With the hypothesis `Lag = 0` the
  second case disappears (`OfflineOnlyOverdueIfPrompt`).
- `DeviceScheduler_proofs`: `TypeCorrect`, `PollsAreSpaced`, `KeepsPollingAlways`,
  `SilentIsReportedAlways`. `Spacing` says a due time lies a period after the poll
  it follows and polls lie in the past: an answer moves the due time to a period
  after now, so never before it. `Polled` adds that a due time follows a poll or an
  answer and that the tick that locked last polled what was due; the slack is one
  latency while another tick waits for the lock. `Reported` says why the aggregator
  shows a device online: the scheduler says so, the tick that locks next will, or
  the timer thread still has to copy its health; each of these ends in time. It
  needs the hypothesis `Timely` (a tick and `onParsed` take no longer than a
  window): without it the counterexample of section 3 exists.
- `BmsCodec_proofs`: `ExtractPacked`, what is packed into a field is extracted
  again, for every start, length and value; `PackedElsewhere`, packing leaves every
  disjoint field alone. `RoutedToSenderAlways`: the identifier made for a message and a battery leads back
  to both. The router's twelve bits are computed once for the base identifier and
  the battery's field; that no other message has them is a fact of the table.
  `CommandAsBuiltAlways` and `ReadsWhatWasSentAlways` are the run's properties for every
  payload, not the edge values only; `TypeCorrect` bounds identifier and bits of a frame. The invariant is `Exchange`
  (which frame is under way, for whom) with `Carried` (its bits are those the peer lays
  out for the values sent, and what the adapter took is parsed from them). Then the
  table decides: its rows are taken in groups of windows that follow one another, each
  signal under a name of its own, and a window no other row touches is read back as it
  was written. `BmsTx` packs by a recursive function and a raw value is a sum over
  bits; that both exist and what they give is shown by the smallest argument for which
  they would not, with the well-founded orders of the library.
- `BmsReceive_proofs`: `TypeCorrect`, `OnceInOrderAlways`. The order at the control
  queue is not inductive: `Chain` orders the numbers of one identifier along the
  whole way, from the last frame handled through the control queue, the worker's
  batch, `latest_` and the parser's queue to the last frame sent, so that each
  stage holds only frames newer than all those downstream of it.
- `CanThread_proofs`: `TypeCorrect`, `InOrderAlways`. With the types `InOrder` is
  inductive: the queue is the stretch of numbers from the next one the bus will see
  to the next one queued. What takes work is the wrapping of numbers.
- `Archive_proofs`: `TypeCorrect`, `SnapshotCompleteAlways`, `ReadingsStoredAlways`,
  `Refinement`.
  For whole snapshots, `Committed` and `Transaction`: the main rows number the
  snapshots, and the open transaction holds, statement by statement, the rows of
  the next number only. For readings, `Brought`: a reading that is not archived is
  in flight with the parser thread, and a second one cannot start before it has
  arrived; `Remembered`: what the change cache remembers is archived or about to be
  written, so "unchanged" means archived also when the other thread's snapshot
  carried the reading first; `Copies`: the gas channels a snapshot holds besides the
  one just read, which the sink does not write, were archived before it was taken.
  `Refinement` shows that the archive implements `SnapshotLog`, with the committed rows
  as the log: `Numbered` says that the numbers taken are 1 up to the last, and `Held`
  gives the rows of the open transaction exactly, so a commit stores the snapshot
  handed in, whole and under the next number, while a refused statement, a refused begin
  and a crash are a `Drop`, and all other steps change neither.
- `Faults_proofs`: `TypeCorrect`, `LogIsTruthfulAlways`, `PagesCatchUpAlways`,
  `DebouncedAlways`. For
  the log, `Rows`: a remembered row id names a row of the same code, and the open
  rows of a code without a row are ones a restart or a failed update left behind. For
  the pages, `Steady`: the count a page was checked against never exceeds the
  cleared rows, which only grow, so a count made by either thread leaves page and
  window within the pages; `Fresh` and `Undisturbed`: unless a change is still
  marked dirty or a read failed, count and window are those of the table, and in a
  pass without a click the page asked for is in the window.
  `DebounceIsExact` and `ConditionIsExact` are about the two timers, for any delays
  and any sequence of readings: a pass moves them as a stopwatch that is reset when
  the signal changes, and the output follows it exactly. They also show that the cap
  on the timers of the model loses nothing. `DebouncedAlways` carries that over to the
  whole pass, for every fault map without code 0x10BA (its hypothesis: for that code the
  property is false, finding 3) and for any readings. `TimesInv` says that the timer or
  condition of each loaded code agrees with what was observed of it (`Tracked`), that
  the codes wanted are those whose output is on, and that during a pass every edge still
  to be applied is due. A pass evaluates some keys more than once; where the evaluations
  agree, the second one changes nothing.

Checked by TLC only: the liveness properties (`PendingIsHandled`, `StopReturns`,
`WakeupServes`, `Reconnects`, `NewestArrives`, `OfflineReachesFile`, `RowsCatchUp`),
which are out of the prover's reach.

Every invariant, action property and refinement that a passing run checks is a theorem.

## 6. Not modelled, and what is left

Left out for good: the other codecs (Modbus RTU, UPS ASCII and the register maps of
the devices: layouts without state), the view builder (a projection to displayed
values), configuration, logging and the command dispatcher (stateless), the J1939
wrapper (a vendored stack), GPIO and ADC access (pure I/O) and the maintenance
service, whose call is commented out.

Left for later, in this order:

1. `ParserLink`: frame assemblers over split and glued serial input, request
   context.
2. `Hmi`: the address table shared with the Modbus slave, parameter writes.
3. Composition of `DeviceScheduler` and `LogicEngine`: a smoke alarm is seen by a
   tick before an offline snapshot clears it.
4. The serial thread, which has the CAN thread's queue without its reconnection,
   and the phases of `AppManager`.
