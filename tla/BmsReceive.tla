----------------------------- MODULE BmsReceive -----------------------------
(***************************************************************************)
(* The way of a battery's frames from the CAN thread to the control thread *)
(* and to the archive, and of the control thread's verdict on a battery    *)
(* back into the archive.  Five threads take part:                         *)
(*   - the CAN thread queues every frame for the parser thread;            *)
(*   - the parser thread hands battery frames to BmsQueue, which keeps one *)
(*     frame per CAN id;                                                   *)
(*   - BmsWorker empties the queue, updates the aggregator, posts an event *)
(*     to the control thread for each frame and, every 200 ms, writes the  *)
(*     battery snapshot out;                                               *)
(*   - the control thread keeps the batteries' health and caches a copy;   *)
(*   - the health-sync thread copies that into the aggregator and writes a *)
(*     snapshot, at most once a second, when something changed.            *)
(*                                                                         *)
(* Frames are numbered per CAN id.  The throttles (200 ms, 500 ms, 1 s)    *)
(* appear as a choice between `due' and `not yet'.                         *)
(***************************************************************************)
EXTENDS Naturals, Sequences

CONSTANTS
  Instance,    \* batteries
  Group,       \* message groups of a battery
  MaxFrame,    \* bound on the frames of one CAN id
  MaxQueue,    \* bound on the frames waiting for the parser thread
  MaxFail      \* bound on the archive transactions that fail

ASSUME ReceiveAssumption ==
  MaxFrame \in Nat /\ MaxQueue \in Nat /\ MaxFail \in Nat

VARIABLES
  sent,     \* number of the last frame of each id that the CAN thread queued
  can_q,    \* ProtocolParserThread::can_q_
  latest,   \* BmsQueue::latest_, 0 where there is none
  poison,   \* the empty frame stop() pushes is in BmsQueue
  running,  \* BmsWorker::running_
  worker,   \* where threadMain_ is and its locals
  agg,      \* DataAggregator: bms_snap_
  ctl_q,    \* events posted to the control thread
  seen,     \* number of the last frame of each id that the engine handled
  online,   \* the engine's verdict on each battery it knows
  cached,   \* ControlLoop::latest_bms_health_
  sync,     \* where bmsHealthSyncThreadMain_ is and its locals
  file,     \* BmsFileSink: latest.json
  db,       \* SqliteBmsFlatSink: last row of each group, and the change cache
  fails,    \* transactions that have failed
  stopper   \* where AppManager::stop is

inVars == <<sent, can_q, latest, poison>>
ctlVars == <<ctl_q, seen, online, cached>>
outVars == <<file, db, fails>>
vars == <<inVars, running, worker, agg, ctlVars, sync, outVars, stopper>>

Key == Instance \X Group
Number == 0 .. MaxFrame
Frame == [key : Key, n : 1 .. MaxFrame]

\* A frame that is no extended frame, or is shorter than eight bytes, has number 0.
Stray == [key : Key, n : {0}]

None == "none"
Verdict == {"none", "on", "off"}

\* BmsSnapshot: per group the last frame and whether it counts as online, and
\* the health of each battery.
Snapshot == [n : [Key -> Number], up : [Key -> BOOLEAN], health : [Instance -> Verdict]]
NoSnapshot == [n |-> [k \in Key |-> 0], up |-> [k \in Key |-> FALSE],
               health |-> [i \in Instance |-> None]]
SyncIdle == [at |-> "sleep", upd |-> [i \in Instance |-> None], snap |-> NoSnapshot]

Init ==
  /\ sent = [k \in Key |-> 0] /\ can_q = <<>>
  /\ latest = [k \in Key |-> 0] /\ poison = FALSE
  /\ running = TRUE
  /\ worker = [at |-> "wait", batch |-> [k \in Key |-> 0], snap |-> NoSnapshot]
  /\ agg = NoSnapshot
  /\ ctl_q = <<>> /\ seen = [k \in Key |-> 0]
  /\ online = [i \in Instance |-> None] /\ cached = [i \in Instance |-> None]
  /\ sync = SyncIdle
  /\ file = NoSnapshot
  /\ db = [row |-> [k \in Key |-> 0], cache |-> [k \in Key |-> <<0, FALSE>>], lost |-> {}]
  /\ fails = 0 /\ stopper = "up"

-----------------------------------------------------------------------------
(* CAN thread and parser thread.                                           *)

\* CanThread::handleRead, the receive callback and pushCan.
PushCan(k) ==
  /\ Len(can_q) < MaxQueue /\ sent[k] < MaxFrame
  /\ sent' = [sent EXCEPT ![k] = @ + 1]
  /\ can_q' = Append(can_q, [key |-> k, n |-> sent'[k]])
  /\ UNCHANGED <<latest, poison, running, worker, agg, ctlVars, sync, outVars, stopper>>

PushStray(k) ==
  /\ Len(can_q) < MaxQueue
  /\ can_q' = Append(can_q, [key |-> k, n |-> 0])
  /\ UNCHANGED <<sent, latest, poison, running, worker, agg, ctlVars, sync, outVars, stopper>>

\* Mutant: a frame waiting for the worker is kept instead of the new one.
QueuePush_KeepsOld(q, f) == IF q[f.key] # 0 THEN q ELSE [q EXCEPT ![f.key] = f.n]

\* BmsQueue::push: the newest frame of an id replaces the one before.
QueuePush(q, f) == [q EXCEPT ![f.key] = f.n]

\* threadLoop's CAN branch: CanDispatcher::handle drops strays and queues the rest.
ParseCan ==
  /\ can_q # <<>> /\ stopper # "done"
  /\ latest' = IF Head(can_q).n = 0 THEN latest ELSE QueuePush(latest, Head(can_q))
  /\ can_q' = Tail(can_q)
  /\ UNCHANGED <<sent, poison, running, worker, agg, ctlVars, sync, outVars, stopper>>

-----------------------------------------------------------------------------
(* BmsWorker::threadMain_.                                                 *)

\* Mutant: the frames taken stay in the queue.
PopAll_NoClear ==
  /\ latest' = latest /\ poison' = FALSE
  /\ worker' = [worker EXCEPT !.at = "test", !.batch = latest]

\* popAll: all frames at once, in the order of an unordered_map.
PopAll ==
  /\ latest' = [k \in Key |-> 0] /\ poison' = FALSE
  /\ worker' = [worker EXCEPT !.at = "test", !.batch = latest]

\* waitForData returns, with data or after 10 ms without.
WorkerTake ==
  /\ worker.at = "wait" /\ PopAll
  /\ UNCHANGED <<sent, can_q, running, agg, ctlVars, sync, outVars, stopper>>

\* After stop() the frames just taken are dropped; otherwise all of them are handled:
\* max_frames_per_round is 0, no limit.
WorkerTest ==
  /\ worker.at = "test"
  /\ worker' = [worker EXCEPT !.at = IF running THEN "frames" ELSE "done",
                               !.batch = IF running THEN @ ELSE [k \in Key |-> 0]]
  /\ UNCHANGED <<inVars, running, agg, ctlVars, sync, outVars, stopper>>

\* DataAggregator::onBmsDeviceData_
AggregateFrame(a, k, n) ==
  [a EXCEPT !.n[k] = n, !.up[k] = TRUE, !.health[k[1]] = "on"]

\* Mutant: the empty frame of stop() is not filtered out.
WorkerFrame_Unfiltered(k) ==
  /\ worker.at = "frames" /\ (worker.batch[k] # 0 \/ poison)
  /\ agg' = AggregateFrame(agg, k, worker.batch[k])
  /\ ctl_q' = Append(ctl_q, [key |-> k, n |-> worker.batch[k]])
  /\ worker' = [worker EXCEPT !.batch[k] = 0]
  /\ UNCHANGED <<inVars, running, seen, online, cached, sync, outVars, stopper>>

\* One frame of the batch: parse and the callback set in AppManager::start, which
\* updates the aggregator and posts to the control loop.
WorkerFrame(k) ==
  /\ worker.at = "frames" /\ worker.batch[k] # 0
  /\ agg' = AggregateFrame(agg, k, worker.batch[k])
  /\ ctl_q' = Append(ctl_q, [key |-> k, n |-> worker.batch[k]])
  /\ worker' = [worker EXCEPT !.batch[k] = 0]
  /\ UNCHANGED <<inVars, running, seen, online, cached, sync, outVars, stopper>>

\* The end of a round without on_tick_.
WorkerNoTick ==
  /\ worker.at = "frames" /\ \A k \in Key : worker.batch[k] = 0
  /\ worker' = [worker EXCEPT !.at = IF running THEN "wait" ELSE "done"]
  /\ UNCHANGED <<inVars, running, agg, ctlVars, sync, outVars, stopper>>

\* Mutant: on_tick_ is called only in a round that had frames.
WorkerTick_IfData ==
  /\ worker.at = "frames" /\ \A k \in Key : worker.batch[k] = 0
  /\ file.n # agg.n
  /\ worker' = [worker EXCEPT !.at = "dispatch", !.snap = agg]
  /\ UNCHANGED <<inVars, running, agg, ctlVars, sync, outVars, stopper>>

\* on_tick_, due every 200 ms: the argument of dispatchBms is copied first ...
WorkerTick ==
  /\ worker.at = "frames" /\ \A k \in Key : worker.batch[k] = 0
  /\ worker' = [worker EXCEPT !.at = "dispatch", !.snap = agg]
  /\ UNCHANGED <<inVars, running, agg, ctlVars, sync, outVars, stopper>>

-----------------------------------------------------------------------------
(* SnapshotDispatcher::dispatchBms: one caller at a time.                  *)

\* BmsFileSink: latest.json is replaced if a second has passed.
WriteFile(snap) == file' = snap
KeepFile == file' = file

\* SqliteBmsFlatSink::groupChanged_ compares the group with its cached text.
ChangedGroups(snap) == {k \in Key : db.cache[k] # <<snap.n[k], snap.up[k]>>}
GroupCache(snap) == [k \in Key |-> <<snap.n[k], snap.up[k]>>]

\* Mutant: the rows of the groups that changed are not written.
CommitRows_OnlyNew(snap) ==
  db' = [row |-> [k \in Key |-> IF k \in ChangedGroups(snap) /\ db.row[k] = 0
                                THEN snap.n[k] ELSE db.row[k]],
         cache |-> GroupCache(snap), lost |-> db.lost \ ChangedGroups(snap)]

\* The transaction is committed: a row for each changed group.
CommitRows(snap) ==
  db' = [row |-> [k \in Key |-> IF k \in ChangedGroups(snap) THEN snap.n[k] ELSE db.row[k]],
         cache |-> GroupCache(snap), lost |-> db.lost \ ChangedGroups(snap)]

\* The transaction fails: no row, but the cache already has the new text.
\* `lost' records the groups whose change is then in no row.
RollbackRows(snap) ==
  db' = [db EXCEPT !.cache = GroupCache(snap), !.lost = @ \cup ChangedGroups(snap)]

Archive(snap) ==
  \/ CommitRows(snap) /\ fails' = fails
  \/ fails < MaxFail /\ RollbackRows(snap) /\ fails' = fails + 1

\* ... and then the sinks run under bms_dispatch_mtx_.
WorkerDispatch(write) ==
  /\ worker.at = "dispatch"
  /\ IF write THEN WriteFile(worker.snap) ELSE KeepFile
  /\ Archive(worker.snap)
  /\ worker' = [worker EXCEPT !.at = IF running THEN "wait" ELSE "done", !.snap = NoSnapshot]
  /\ UNCHANGED <<inVars, running, agg, ctlVars, sync, stopper>>

-----------------------------------------------------------------------------
(* Control thread.                                                         *)

ControlUp == stopper \in {"up", "sync"}

\* A DeviceData event: the battery is online; refreshCachedBmsRuntimeHealth_.
ControlFrame ==
  LET f == Head(ctl_q) IN
  /\ ControlUp /\ ctl_q # <<>>
  /\ ctl_q' = Tail(ctl_q)
  /\ seen' = [seen EXCEPT ![f.key] = f.n]
  /\ online' = [online EXCEPT ![f.key[1]] = "on"]
  /\ cached' = online'
  /\ UNCHANGED <<inVars, running, worker, agg, sync, outVars, stopper>>

\* A tick that finds a battery silent for too long.
ControlTimeout(i) ==
  /\ ControlUp /\ online[i] = "on"
  /\ online' = [online EXCEPT ![i] = "off"]
  /\ cached' = online'
  /\ UNCHANGED <<inVars, running, worker, agg, ctl_q, seen, sync, outVars, stopper>>

-----------------------------------------------------------------------------
(* Health-sync thread: bmsHealthSyncThreadMain_.                           *)

\* latestBmsRuntimeHealth, unless no battery is known.
SyncRead ==
  /\ sync.at = "sleep" /\ stopper = "up" /\ \E i \in Instance : cached[i] # None
  /\ sync' = [sync EXCEPT !.at = "write", !.upd = cached]
  /\ UNCHANGED <<inVars, running, worker, agg, ctlVars, outVars, stopper>>

\* DataAggregator::updateBmsRuntimeHealth
UpdateRuntimeHealth(a, upd) ==
  [a EXCEPT !.health = [i \in Instance |-> IF upd[i] # None THEN upd[i] ELSE a.health[i]],
            !.up = [k \in Key |-> upd[k[1]] # "off" /\ a.up[k]]]

\* It reports a change of health, of a group, or of a time stamp, and the snapshot
\* is dispatched if a second has passed since the last time.
SyncWrite(dispatch) ==
  /\ sync.at = "write"
  /\ agg' = UpdateRuntimeHealth(agg, sync.upd)
  /\ sync' = IF dispatch THEN [SyncIdle EXCEPT !.at = "copy"] ELSE SyncIdle
  /\ UNCHANGED <<inVars, running, worker, ctlVars, outVars, stopper>>

SyncCopy ==
  /\ sync.at = "copy"
  /\ sync' = [sync EXCEPT !.at = "dispatch", !.snap = agg]
  /\ UNCHANGED <<inVars, running, worker, agg, ctlVars, outVars, stopper>>

SyncDispatch(write) ==
  /\ sync.at = "dispatch"
  /\ IF write THEN WriteFile(sync.snap) ELSE KeepFile
  /\ Archive(sync.snap)
  /\ sync' = SyncIdle
  /\ UNCHANGED <<inVars, running, worker, agg, ctlVars, stopper>>

-----------------------------------------------------------------------------
(* AppManager::stop.                                                       *)

StopSync ==
  /\ stopper = "up" /\ stopper' = "sync"
  /\ UNCHANGED <<inVars, running, worker, agg, ctlVars, sync, outVars>>

\* The sync thread is joined, then the control loop stopped.
StopControl ==
  /\ stopper = "sync" /\ sync.at = "sleep" /\ stopper' = "control"
  /\ UNCHANGED <<inVars, running, worker, agg, ctlVars, sync, outVars>>

\* BmsWorker::stop: running_, and an empty frame to end the wait.
StopWorker ==
  /\ stopper = "control" /\ stopper' = "join"
  /\ running' = FALSE /\ poison' = TRUE
  /\ UNCHANGED <<sent, can_q, latest, worker, agg, ctlVars, sync, outVars>>

\* The worker is joined and bms_queue_ cleared; the parser thread stops after that.
StopJoin ==
  /\ stopper = "join" /\ worker.at = "done" /\ stopper' = "clear"
  /\ latest' = [k \in Key |-> 0] /\ poison' = FALSE
  /\ UNCHANGED <<sent, can_q, running, worker, agg, ctlVars, sync, outVars>>

StopParser ==
  /\ stopper = "clear" /\ stopper' = "done"
  /\ UNCHANGED <<inVars, running, worker, agg, ctlVars, sync, outVars>>

-----------------------------------------------------------------------------
Worker == WorkerTake \/ WorkerTest \/ WorkerNoTick \/ WorkerTick
            \/ (\E k \in Key : WorkerFrame(k)) \/ (\E w \in BOOLEAN : WorkerDispatch(w))
Control == ControlFrame \/ \E i \in Instance : ControlTimeout(i)
Sync == SyncRead \/ SyncCopy \/ \E b \in BOOLEAN : SyncWrite(b) \/ SyncDispatch(b)
Stop == StopSync \/ StopControl \/ StopWorker \/ StopJoin \/ StopParser

Next == ParseCan \/ Worker \/ Control \/ Sync \/ Stop
          \/ \E k \in Key : PushCan(k) \/ PushStray(k)

Spec == Init /\ [][Next]_vars

\* Every thread runs; the throttles of the worker and of the file sink come due.
Fairness ==
  /\ WF_vars(ParseCan) /\ WF_vars(Worker) /\ WF_vars(Sync) /\ WF_vars(ControlFrame)
  /\ WF_vars(\E i \in Instance : ControlTimeout(i))
  /\ SF_vars(WorkerTick) /\ SF_vars(WorkerDispatch(TRUE))
  /\ WF_vars(StopControl \/ StopWorker \/ StopJoin \/ StopParser)

FairSpec == Spec /\ Fairness

-----------------------------------------------------------------------------
\* The queues, locals and snapshots keep their types.
TypeOK ==
  /\ sent \in [Key -> Number] /\ can_q \in Seq(Frame \cup Stray)
  /\ latest \in [Key -> Number] /\ poison \in BOOLEAN /\ running \in BOOLEAN
  /\ worker \in [at : {"wait", "test", "frames", "dispatch", "done"},
                 batch : [Key -> Number], snap : Snapshot]
  /\ agg \in Snapshot /\ file \in Snapshot
  /\ ctl_q \in Seq(Frame) /\ seen \in [Key -> Number]
  /\ online \in [Instance -> Verdict] /\ cached \in [Instance -> Verdict]
  /\ sync \in [at : {"sleep", "write", "copy", "dispatch"}, upd : [Instance -> Verdict],
               snap : Snapshot]
  /\ db \in [row : [Key -> Number], cache : [Key -> Number \X BOOLEAN], lost : SUBSET Key]
  /\ fails \in 0 .. MaxFail
  /\ stopper \in {"up", "sync", "control", "join", "clear", "done"}

\* Whatever the queue drops and in whatever order a batch is worked off, the
\* frames of an id reach the engine once each and in the order received: one that
\* waits for it is newer than the last it handled, and than those waiting before
\* (BmsQueue, threadMain_).
OnceInOrder ==
  \A i \in DOMAIN ctl_q :
    /\ ctl_q[i].n > seen[ctl_q[i].key]
    /\ \A j \in 1 .. i - 1 : ctl_q[j].key = ctl_q[i].key => ctl_q[j].n < ctl_q[i].n

\* The newest frame of an id reaches the engine and the aggregator, however many
\* frames before it were overwritten, unless the system is stopped.
NewestArrives ==
  <>[](stopper # "up" \/ \A k \in Key : seen[k] = sent[k] /\ agg.n[k] = sent[k])

\* A battery that falls silent is offline in latest.json, and so are its groups,
\* although health and frames are merged by two threads, a change within a second
\* of the last dispatch is not dispatched, and snapshots may be written late.
OfflineReachesFile ==
  <>[](stopper # "up" \/ \A k \in Key :
         sent[k] > 0 => file.n[k] = sent[k] /\ ~file.up[k] /\ file.health[k[1]] = "off")

\* The last row of a group shows its newest frame, unless the transaction that
\* should have stored it failed (the change cache is updated before the transaction).
RowsCatchUp ==
  <>[](stopper # "up" \/ \A k \in Key : db.row[k] = sent[k] \/ k \in db.lost)
=============================================================================
