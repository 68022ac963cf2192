------------------------------- MODULE Archive -------------------------------
(***************************************************************************)
(* The archive of the devices other than the batteries.  The parser thread *)
(* updates the aggregator with every answer of a device and gives a copy   *)
(* of the system snapshot to the sinks; the timer thread does the same     *)
(* when a device falls silent; the control thread mirrors what it sends to *)
(* a PCU into the aggregator and leaves the writing to the others.  Sinks  *)
(* run one snapshot at a time: FileSink keeps latest.json and the history, *)
(* SqliteSnapshotFlatSink writes one transaction per snapshot.             *)
(*                                                                         *)
(* A reading is the number of the frame that brought it: frames are        *)
(* numbered as they come, and the number stands for the values and for the *)
(* time stamps taken from them.  The summary fields of a snapshot (alarms, *)
(* temperatures) are not modelled.                                         *)
(***************************************************************************)
EXTENDS Naturals, Sequences, FiniteSets

CONSTANTS
  Device,       \* devices, by the names the sinks know them by
  Preexisting,  \* tables the database file holds before the program first runs
  MaxFrame,     \* bound on frames received and mirrored
  MaxOffline,   \* bound on the times the first device to reach it falls silent
  MaxFail,      \* bound on the statements the database refuses
  MaxCrash      \* bound on crashes

ASSUME ArchiveAssumption ==
  /\ Device \subseteq {"GasDetector", "SmokeSensor", "UPS", "AirConditioner", "PCU_0", "PCU_1"}
  /\ MaxFrame \in Nat /\ MaxOffline \in Nat /\ MaxFail \in Nat /\ MaxCrash \in Nat

VARIABLES
  frame,    \* number of the last frame
  sched,    \* DeviceScheduler::poll_ctx_: the health of each device
  item,     \* DataAggregator::snap_.items
  thread,   \* where onParsed and the health callback are, and their locals
  sink,     \* the dispatch that holds dispatch_mtx_ and its locals
  file,     \* FileSink
  cache,    \* SqliteSnapshotFlatSink: what deviceChanged_ and healthChanged_ remember
  tx,       \* rows of the open transaction
  db,       \* committed rows
  lost,     \* rows whose transaction was rolled back
  fails,    \* statements refused
  crashes

vars == <<frame, sched, item, thread, sink, file, cache, tx, db, lost, fails, crashes>>

Pcu == {"PCU_0", "PCU_1"}

\* What the frames of a device bring, one group to a frame; two gas channels of six.
Groups(d) ==
  CASE d = "GasDetector"    -> {"CO", "O2"}
    [] d = "SmokeSensor"    -> {"data"}
    [] d = "UPS"            -> {"Q1", "Q6", "WA"}
    [] d = "AirConditioner" -> {"version", "run", "sensor", "alarm", "param"}
    [] d \in Pcu            -> {"state", "ctrl"}

\* `ctrl' is no answer but the mirror of a frame sent; an answer of the gas detector may
\* also bring nothing to keep (a channel marked invalid).
Nothing == "nothing"
Answers(d) == (Groups(d) \ {"ctrl"}) \cup (IF d = "GasDetector" THEN {Nothing} ELSE {})

Health == [online : BOOLEAN, ok : 0 .. MaxFrame, off : 0 .. MaxOffline]
NoHealth == [online |-> FALSE, ok |-> 0, off |-> 0]

NoItem(d) == [grp |-> [g \in Groups(d) |-> 0], last |-> Nothing, ts |-> 0, health |-> NoHealth]

\* The items of a snapshot: a device's health may make one before its first frame does.
Known(snap) == {d \in Device : snap[d].ts # 0 \/ snap[d].health.ok # 0}

Thread == {"parser", "timer"}
NoSnap == [d \in Device |-> NoItem(d)]
IdleThread == [at |-> "idle", dev |-> "none", grp |-> Nothing, merges |-> 0, ctx |-> NoHealth,
               snap |-> NoSnap]
IdleSink == [at |-> "idle", by |-> "none", changed |-> {}, todo |-> {}, id |-> 0]

\* A key no item has: the caches are empty.
NoKey == {<<"none", 0>>}
NoCache == [state |-> [d \in Device |-> NoKey], health |-> [d \in Device |-> NoHealth]]
NoFile == [cache |-> NoCache, pending |-> FALSE, history |-> 0]

Init ==
  /\ sched = [d \in Device |-> NoHealth] /\ item = NoSnap
  /\ thread = [t \in Thread |-> IdleThread] /\ sink = IdleSink
  /\ cache = NoCache /\ tx = {}
  /\ file = NoFile /\ db = {} /\ lost = {}
  /\ frame = 0 /\ fails = 0 /\ crashes = 0

-----------------------------------------------------------------------------
(* The aggregator and its callers.                                         *)

\* DeviceScheduler::onDeviceData: a device that comes online is dispatched twice,
\* once by the health callback and once by onParsed.
Answer(d, g) ==
  /\ thread["parser"].at = "idle" /\ frame < MaxFrame
  /\ frame' = frame + 1
  /\ sched' = [sched EXCEPT ![d].online = TRUE, ![d].ok = frame']
  /\ thread' = [thread EXCEPT !["parser"] =
       [at |-> "aggregate", dev |-> d, grp |-> g, merges |-> IF sched[d].online THEN 1 ELSE 2,
        ctx |-> NoHealth, snap |-> NoSnap]]
  /\ UNCHANGED <<item, sink, file, cache, tx, db, lost, fails, crashes>>

\* One group of an item is replaced; the item itself is as old as its last frame.
WithReading(it, g) ==
  [it EXCEPT !.ts = frame, !.last = g,
             !.grp = IF g = Nothing THEN @ ELSE [@ EXCEPT ![g] = frame]]

\* DataAggregator::onDeviceData, for an answer.
Aggregate ==
  LET p == thread["parser"]
  IN  /\ p.at = "aggregate"
      /\ item' = [item EXCEPT ![p.dev] =
                    [WithReading(@, p.grp) EXCEPT !.health.online = TRUE, !.health.ok = frame]]
      /\ thread' = [thread EXCEPT !["parser"].at = "merge"]
      /\ UNCHANGED <<frame, sched, sink, file, cache, tx, db, lost, fails, crashes>>

\* ... and for the mirror of a command to a PCU, which says nothing of its health.  The
\* item's last frame stays; it is a mirror only where there is no other.
Mirror(d) ==
  /\ frame < MaxFrame
  /\ frame' = frame + 1
  /\ item' = [item EXCEPT ![d].grp["ctrl"] = frame', ![d].ts = frame']
  /\ UNCHANGED <<sched, thread, sink, file, cache, tx, db, lost, fails, crashes>>

\* pollTick finds that a device has been silent for its window.
GoesOffline(d) ==
  /\ thread["timer"].at = "idle" /\ sched[d].online
  /\ \A e \in Device : sched[e].off < MaxOffline
  /\ sched' = [sched EXCEPT ![d].online = FALSE, ![d].off = @ + 1]
  /\ thread' = [thread EXCEPT !["timer"].at = "merge", !["timer"].dev = d, !["timer"].merges = 1]
  /\ UNCHANGED <<frame, item, sink, file, cache, tx, db, lost, fails, crashes>>

\* mergeSchedulerHealthToAggregator copies a device's health under the scheduler's lock ...
ReadHealth(t) ==
  /\ thread[t].at = "merge"
  /\ thread' = [thread EXCEPT ![t].at = "health", ![t].ctx = sched[thread[t].dev]]
  /\ UNCHANGED <<frame, sched, item, sink, file, cache, tx, db, lost, fails, crashes>>

\* ... and updateHealthFromScheduler writes the copy under the aggregator's.
Merge(t) ==
  /\ thread[t].at = "health"
  /\ item' = [item EXCEPT ![thread[t].dev].health = thread[t].ctx]
  /\ thread' = [thread EXCEPT ![t].at = "snapshot", ![t].ctx = NoHealth]
  /\ UNCHANGED <<frame, sched, sink, file, cache, tx, db, lost, fails, crashes>>

\* aggregator_->snapshot(): a copy, taken before the dispatch has its turn.
TakeSnapshot(t) ==
  /\ thread[t].at = "snapshot"
  /\ thread' = [thread EXCEPT ![t].at = "dispatch", ![t].snap = item]
  /\ UNCHANGED <<frame, sched, item, sink, file, cache, tx, db, lost, fails, crashes>>

-----------------------------------------------------------------------------
(* SnapshotDispatcher::dispatch and FileSink.                              *)

snap == thread[sink.by].snap

Readings(it, gs) == {<<g, it.grp[g]>> : g \in {h \in gs : it.grp[h] # 0}}

\* deviceChanged_ of FileSink: all groups of a UPS or a PCU, of the others the last
\* frame; of the air conditioner's frames three kinds bring what is compared.
FileKey(d, it) ==
  IF d \in Pcu \cup {"UPS"} THEN Readings(it, Groups(d))
  ELSE IF d = "AirConditioner" THEN Readings(it, {it.last} \cap {"run", "sensor", "alarm"})
  ELSE {<<it.last, it.ts>>}

\* deviceStateJson_ of the database sink.
StateKey(d, it) == Readings(it, Groups(d))

\* Both sinks: `deviceChanged_ || healthChanged_' for each item.  A device whose state
\* changed has its health neither compared nor remembered.
Changed(c, key, s) ==
  {d \in Known(s) : key[d] # c.state[d] \/ s[d].health # c.health[d]}

Remember(c, key, s) ==
  [state |-> [d \in Device |-> IF d \in Known(s) THEN key[d] ELSE c.state[d]],
   health |-> [d \in Device |-> IF d \in Known(s) /\ key[d] = c.state[d]
                                THEN s[d].health ELSE c.health[d]]]

\* airconStable_ asks of one frame what three frames bring.
AllowHistory(s) ==
  "AirConditioner" \in Known(s) =>
    {"run", "sensor", "alarm"} \subseteq {s["AirConditioner"].last}

\* A snapshot in the history is known by the newest frame in it.
Newest(s) == CHOOSE n \in {s[d].ts : d \in Device} : \A d \in Device : s[d].ts <= n

\* Mutant: dispatch without its mutex.
FileOnSnapshot_NoLock(t, due) ==
  LET s == thread[t].snap
      key == [d \in Device |-> FileKey(d, s[d])]
  IN  /\ thread[t].at = "dispatch"
      /\ sink' = [IdleSink EXCEPT !.at = "collect", !.by = t]
      /\ thread' = [thread EXCEPT ![t].at = "sinks"]
      /\ file' = [file EXCEPT !.cache = Remember(file.cache, key, s)]
      /\ UNCHANGED <<frame, sched, item, cache, tx, db, lost, fails, crashes>>

\* dispatch_mtx_ is taken, FileSink::onSnapshot runs.  `due': 100 ms have passed since
\* latest.json was written, and it is written now; otherwise the change stays pending.
FileOnSnapshot(t, due) ==
  LET s == thread[t].snap
      key == [d \in Device |-> FileKey(d, s[d])]
  IN  /\ sink.at = "idle" /\ thread[t].at = "dispatch"
      /\ sink' = [IdleSink EXCEPT !.at = "collect", !.by = t]
      /\ thread' = [thread EXCEPT ![t].at = "sinks"]
      /\ file' = IF Changed(file.cache, key, s) = {} THEN file
                 ELSE [cache |-> Remember(file.cache, key, s),
                       pending |-> ~due,
                       history |-> IF AllowHistory(s) THEN Newest(s) ELSE file.history]
      /\ UNCHANGED <<frame, sched, item, cache, tx, db, lost, fails, crashes>>

-----------------------------------------------------------------------------
(* SqliteSnapshotFlatSink.                                                 *)

Create(t) == [kind |-> "table", table |-> t]
Index(t) == [kind |-> "index", table |-> t]

\* The script of initSchema_, which sqlite3_exec runs up to the first error.
Schema ==
  << Create("snapshot_main"), Index("snapshot_main"),
     Create("device_health"), Index("device_health"),
     Index("gas_poll_event"),
     Create("gas_channel_state"), Index("gas_channel_state"),
     Create("smoke_state"), Index("smoke_state"),
     Create("ups_q1_state"), Index("ups_q1_state"),
     Create("ups_q6_state"), Index("ups_q6_state"),
     Create("pcu_state"), Index("pcu_state"),
     Create("pcu_tx_state"), Index("pcu_tx_state"),
     Create("aircon_state"), Index("aircon_state") >>

TablesAfter(n) == Preexisting \cup {Schema[i].table : i \in {j \in 1 .. n : Schema[j].kind = "table"}}
Runs(i) == Schema[i].kind = "table" \/ Schema[i].table \in TablesAfter(i - 1)

\* The constructor goes on when initSchema_ has failed.
Tables == UNION {TablesAfter(n) : n \in {m \in 0 .. Len(Schema) : \A i \in 1 .. m : Runs(i)}}

Row(table, d, g, n) == [table |-> table, dev |-> d, grp |-> g, ver |-> n]

\* insertSnapshotMain_, insertDeviceHealth_.  The main row's number is that of its devices.
MainRow(s) == Row("snapshot_main", "all", "main", Cardinality(Known(s)))
HealthRows(s) ==
  {Row("device_health", d, IF s[d].health.online THEN "online" ELSE "offline", s[d].health.ok) : d \in Known(s)}

\* Mutant: a gas channel is fresh if it is as old as the device's last answer.
Written_ByLastOk(d, it) ==
  CASE d = "GasDetector" -> {g \in Groups(d) : it.grp[g] # 0 /\ it.grp[g] = it.health.ok}
    [] d = "UPS" -> {g \in {"Q1", "Q6"} : it.grp[g] # 0}
    [] d \in Pcu -> {g \in Groups(d) : it.ts # 0 /\ (g = "ctrl" => it.grp[g] # 0)}
    [] OTHER -> Groups(d)

\* The groups the insert functions of a device write: of the gas channels the one the
\* item's last frame updated, for a PCU a state row even if it never answered but was sent
\* a command; an air conditioner or PCU known by its health alone has no rows.
Written(d, it) ==
  CASE d = "GasDetector" -> {g \in Groups(d) : it.grp[g] # 0 /\ it.grp[g] = it.ts}
    [] d = "SmokeSensor" -> Groups(d)
    [] d = "UPS" -> {g \in {"Q1", "Q6"} : it.grp[g] # 0}
    [] d = "AirConditioner" -> {g \in Groups(d) : it.ts # 0}
    [] d \in Pcu -> {g \in Groups(d) : it.ts # 0 /\ (g = "ctrl" => it.grp[g] # 0)}

TableOf(d, g) ==
  CASE d = "GasDetector" -> "gas_channel_state"
    [] d = "SmokeSensor" -> "smoke_state"
    [] d = "UPS" -> IF g = "Q1" THEN "ups_q1_state" ELSE "ups_q6_state"
    [] d = "AirConditioner" -> "aircon_state"
    [] d \in Pcu -> IF g = "ctrl" THEN "pcu_tx_state" ELSE "pcu_state"

StateRows(d, it) == {Row(TableOf(d, g), d, g, it.grp[g]) : g \in Written(d, it)}

\* The end of onSnapshot, and of the dispatch: UplinkSink does nothing.
Return ==
  LET t == sink.by
  IN  /\ sink' = IdleSink
      /\ thread' = [thread EXCEPT ![t] =
                      IF thread[t].merges > 1
                      THEN [thread[t] EXCEPT !.at = "merge", !.merges = thread[t].merges - 1,
                                             !.snap = NoSnap]
                      ELSE IdleThread]

Rows(s, ds) == HealthRows(s) \cup UNION {StateRows(d, s[d]) : d \in ds}

\* Mutant: the transaction stays open, and the next one goes on with it.
Rollback_StaysOpen(ds) ==
  /\ tx' = tx
  /\ lost' = lost \cup Rows(snap, ds)
  /\ Return

Rollback(ds) ==
  /\ tx' = {}
  /\ lost' = lost \cup Rows(snap, ds)
  /\ Return

\* collectChangedDevices_ updates its caches, then the transaction begins, or not.
Begin(refused) ==
  LET key == [d \in Device |-> StateKey(d, snap[d])]
      changed == Changed(cache, key, snap)
  IN  /\ sink.at = "collect"
      /\ cache' = Remember(cache, key, snap)
      /\ refused => fails < MaxFail
      /\ fails' = IF refused THEN fails + 1 ELSE fails
      /\ \/ refused /\ Rollback(changed)
         \/ /\ ~refused
            /\ sink' = [sink EXCEPT !.at = "main", !.changed = changed, !.todo = changed]
            /\ UNCHANGED <<tx, lost, thread>>
      /\ UNCHANGED <<frame, sched, item, file, db, crashes>>

\* A statement that writes rows R: it fails if a table is missing or the database
\* refuses it, and then the transaction is rolled back.
Insert(R, refused, next) ==
  LET missing == {r.table : r \in R} \ Tables # {}
  IN  /\ refused => fails < MaxFail
      /\ fails' = IF refused THEN fails + 1 ELSE fails
      /\ \/ (refused \/ missing) /\ Rollback(sink.changed)
         \/ /\ ~refused /\ ~missing
            /\ tx' = tx \cup {[snap |-> next.id, row |-> r] : r \in R}
            /\ sink' = next
            /\ UNCHANGED <<thread, lost>>
      /\ UNCHANGED <<frame, sched, item, file, cache, db, crashes>>

\* The id is the rowid: one more than the last committed one.
NextId == 1 + Cardinality({r \in db : r.row.table = "snapshot_main"})

InsertMain(refused) ==
  /\ sink.at = "main"
  /\ Insert({MainRow(snap)}, refused, [sink EXCEPT !.at = "health", !.id = NextId])

\* Mutant: a health row that could not be written is passed over.
InsertHealth_Unchecked(refused) ==
  /\ sink.at = "health"
  /\ refused => fails < MaxFail
  /\ fails' = IF refused THEN fails + 1 ELSE fails
  /\ sink' = [sink EXCEPT !.at = "devices"]
  /\ tx' = IF refused THEN tx ELSE tx \cup {[snap |-> sink.id, row |-> r] : r \in HealthRows(snap)}
  /\ UNCHANGED <<frame, sched, item, thread, file, cache, db, lost, crashes>>

InsertHealth(refused) ==
  /\ sink.at = "health"
  /\ Insert(HealthRows(snap), refused, [sink EXCEPT !.at = "devices"])

InsertDevice(d, refused) ==
  /\ sink.at = "devices" /\ d \in sink.todo
  /\ Insert(StateRows(d, snap[d]), refused, [sink EXCEPT !.todo = @ \ {d}])

Commit(refused) ==
  /\ sink.at = "devices" /\ sink.todo = {}
  /\ refused => fails < MaxFail
  /\ fails' = IF refused THEN fails + 1 ELSE fails
  /\ \/ refused /\ Rollback(sink.changed) /\ UNCHANGED db
     \/ ~refused /\ db' = db \cup tx /\ tx' = {} /\ Return /\ UNCHANGED lost
  /\ UNCHANGED <<frame, sched, item, file, cache, crashes>>

-----------------------------------------------------------------------------

\* Power fails: the database drops the open transaction, the program starts again.
Crash ==
  /\ crashes < MaxCrash
  /\ crashes' = crashes + 1
  /\ sched' = [d \in Device |-> NoHealth] /\ item' = NoSnap
  /\ thread' = [t \in Thread |-> IdleThread] /\ sink' = IdleSink
  /\ cache' = NoCache /\ tx' = {}
  /\ file' = [NoFile EXCEPT !.history = file.history]
  /\ UNCHANGED <<frame, db, lost, fails>>

Next ==
  \/ \E d \in Device : \/ \E g \in Answers(d) : Answer(d, g)
                       \/ d \in Pcu /\ Mirror(d)
                       \/ GoesOffline(d)
                       \/ \E refused \in BOOLEAN : InsertDevice(d, refused)
  \/ Aggregate
  \/ \E t \in Thread : \/ ReadHealth(t) \/ Merge(t) \/ TakeSnapshot(t)
                       \/ \E due \in BOOLEAN : FileOnSnapshot(t, due)
  \/ \E refused \in BOOLEAN : \/ Begin(refused) \/ InsertMain(refused)
                              \/ InsertHealth(refused) \/ Commit(refused)
  \/ Crash

Spec == Init /\ [][Next]_vars

-----------------------------------------------------------------------------
(* Properties.                                                             *)

ItemType(d) == [grp : [Groups(d) -> 0 .. MaxFrame], last : Groups(d) \cup {Nothing},
                ts : 0 .. MaxFrame, health : Health]
ItemTypes == [d \in Device |-> ItemType(d)]
SnapshotOK(s) == DOMAIN s = Device /\ \A d \in Device : s[d] \in ItemTypes[d]

\* The aggregated items, the threads' copies and the sinks keep their types, and
\* SnapshotDispatcher::dispatch_mtx_ admits one thread at a time: the sinks work
\* exactly for the thread that is inside them.
TypeOK ==
  /\ frame \in 0 .. MaxFrame /\ sched \in [Device -> Health] /\ SnapshotOK(item)
  /\ \A t \in Thread : /\ thread[t].at \in {"idle", "aggregate", "merge", "health", "snapshot",
                                           "dispatch", "sinks"}
                       /\ thread[t].dev \in Device \cup {"none"} /\ thread[t].merges \in 0 .. 2
                       /\ thread[t].ctx \in Health
                       /\ SnapshotOK(thread[t].snap)
  /\ sink.at \in {"idle", "collect", "main", "health", "devices"}
  /\ sink.by \in Thread \cup {"none"} /\ sink.todo \subseteq sink.changed /\ sink.changed \subseteq Device
  /\ {t \in Thread : thread[t].at = "sinks"} = (IF sink.at = "idle" THEN {} ELSE {sink.by})
  /\ file.history \in 0 .. MaxFrame /\ file.pending \in BOOLEAN
  /\ fails \in 0 .. MaxFail /\ crashes \in 0 .. MaxCrash

\* A snapshot is in the database as a whole or not at all, whatever statement failed
\* and whenever the power did: it has its main row, and a health row for each device
\* it knew.
SnapshotComplete ==
  \A n \in {r.snap : r \in db} :
    \E m \in db : /\ m.snap = n /\ m.row.table = "snapshot_main"
                  /\ Cardinality({h \in db : h.snap = m.snap /\ h.row.table = "device_health"})
                       = m.row.ver

\* Once onParsed has returned, the reading it brought has a row in its table, unless a
\* transaction was rolled back that would have written it: no other thread's snapshot,
\* taken earlier and written later, makes the change detection pass over a reading.
Stored(d) == CASE d = "UPS" -> {"Q1", "Q6"} [] OTHER -> Groups(d) \ {"ctrl"}
ReadingsStored ==
  thread["parser"].at = "idle" =>
    \A d \in Device : \A g \in Stored(d) :
      item[d].grp[g] # 0 =>
        LET r == Row(TableOf(d, g), d, g, item[d].grp[g])
        IN  r \in lost \/ \E s \in db : s.row = r

\* "One health row is written for every snapshot": once onParsed has returned, the
\* device that answered has a row with its last answer, if the database took every
\* statement it was given.
HealthEverySnapshot ==
  thread["parser"].at = "idle" /\ fails = 0 =>
    \A d \in Known(item) :
      item[d].health.ok # 0 =>
        \E r \in db : r.row.table = "device_health" /\ r.row.dev = d /\ r.row.ver = item[d].health.ok

\* The snapshot the sinks are working on, and its rows.
HandedIn == IF sink.at = "idle" THEN NoSnap ELSE snap
AlwaysRows(s) == {MainRow(s)} \cup HealthRows(s)
DeviceRows(s, d) == StateRows(d, s[d])

Log == INSTANCE SnapshotLog WITH log <- db, busy <- sink.at # "idle", offer <- HandedIn,
                                 Always <- AlwaysRows, Of <- DeviceRows

\* Threads, mutex, transactions, refused statements and crashes together implement a
\* log of whole snapshots: a commit appends, under the next number, the main row and
\* the health rows of the snapshot the dispatcher was given, with all or none of the
\* state rows of each device, and no row of another snapshot; nothing else changes the
\* database (SqliteSnapshotFlatSink).
ImplementsLog == Log!Spec
=============================================================================
