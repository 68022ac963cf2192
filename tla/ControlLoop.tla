----------------------------- MODULE ControlLoop -----------------------------
(***************************************************************************)
(* control::ControlLoop (services/control/control_loop.cpp): the event     *)
(* queues between the producer threads and the single control thread, the  *)
(* latest-only snapshot buffer with its queue marker, stop(), and the      *)
(* fault-refresh thread that enters the same LogicEngine.                  *)
(*                                                                         *)
(* An action is one critical section or one step between two of them.      *)
(* What the engine does with an event is LogicEngine's subject.            *)
(***************************************************************************)
EXTENDS Naturals, Sequences

CONSTANTS Producers,    \* threads that post snapshots (parser thread, scheduler timer)
          PostedTypes,  \* event types, other than Snapshot and Stop, posted in this instance
          MaxSnapshots, \* bound on the snapshots captured
          QueueCap      \* bound on a queue's length at a post; the deques are unbounded

HighType == {"HmiWrite", "HmiHeartbeat", "Stop"}
NormalType == {"DeviceData", "IoSample", "Tick", "Snapshot"}

ASSUME ConstAssumption ==
  /\ PostedTypes \subseteq (HighType \cup NormalType) \ {"Stop", "Snapshot"}
  /\ MaxSnapshots \in Nat
  /\ QueueCap \in Nat

VARIABLES
  running,        \* running_
  qHigh, qNormal, \* q_high_, q_normal_
  latest,         \* version of latest_snapshot_event_
  hasLatest,      \* has_latest_snapshot_
  marker,         \* snapshot_marker_enqueued_
  producer,       \* producer -> "idle" | "captured" | "pushing"
  snap,           \* producer -> version of the snapshot it captured
  captured,       \* number of snapshots taken from the aggregator
  loop,           \* where threadMain_ is
  inHand,         \* version of the snapshot taken last by the control thread
  stopper,        \* where stop() is
  cleared,        \* ghost: snapshots posted up to stop()'s clearing section
  refreshing      \* the fault-refresh thread is inside engine_.refreshFaultPagesOnly

queueVars == <<qHigh, qNormal>>
bufVars == <<latest, hasLatest, marker>>
prodVars == <<producer, snap, captured>>
vars == <<running, queueVars, bufVars, prodVars, loop, inHand, stopper, cleared,
          refreshing>>

LoopPc == {"off", "top", "pop", "take", "handle", "handleSnapshot", "exited"}
StopPc == {"idle", "clear", "push", "join", "done"}

Init ==
  /\ running = FALSE
  /\ qHigh = <<>> /\ qNormal = <<>>
  /\ latest = 0 /\ hasLatest = FALSE /\ marker = FALSE
  /\ producer = [p \in Producers |-> "idle"]
  /\ snap = [p \in Producers |-> 0]
  /\ captured = 0
  /\ loop = "off" /\ inHand = 0
  /\ stopper = "idle" /\ cleared = {}
  /\ refreshing = FALSE

-----------------------------------------------------------------------------
(* Producers.                                                              *)

\* Mutant: Stop is queued behind the normal events.
IsHighPriorityEvent_StopLast(t) == t \in HighType \ {"Stop"}

IsHighPriorityEvent(t) == t \in HighType

PushEvent(t) ==
  IF IsHighPriorityEvent(t)
  THEN qHigh' = Append(qHigh, t) /\ UNCHANGED qNormal
  ELSE qNormal' = Append(qNormal, t) /\ UNCHANGED qHigh

\* post() of anything but a snapshot: it does not look at running_.
Post(t) ==
  /\ Len(IF IsHighPriorityEvent(t) THEN qHigh ELSE qNormal) < QueueCap
  /\ PushEvent(t)
  /\ UNCHANGED <<running, bufVars, prodVars, loop, inHand, stopper, cleared, refreshing>>

\* AppManager takes aggregator_->snapshot() and then dispatches it to the sinks;
\* the post follows later, in another critical section.
Capture(p) ==
  /\ producer[p] = "idle"
  /\ captured < MaxSnapshots
  /\ captured' = captured + 1
  /\ snap' = [snap EXCEPT ![p] = captured + 1]
  /\ producer' = [producer EXCEPT ![p] = "captured"]
  /\ UNCHANGED <<running, queueVars, bufVars, loop, inHand, stopper, cleared, refreshing>>

\* Mutant: every post pushes a marker.
PostSnapshotLatest_AlwaysPush(p) ==
  /\ producer[p] = "captured"
  /\ latest' = snap[p]
  /\ hasLatest' = TRUE
  /\ marker' = TRUE
  /\ producer' = [producer EXCEPT ![p] = "pushing"]
  /\ UNCHANGED <<running, queueVars, snap, captured, loop, inHand, stopper, cleared,
                 refreshing>>

\* postSnapshotLatest_: the section under snapshot_mtx_.
PostSnapshotLatest(p) ==
  /\ producer[p] = "captured"
  /\ latest' = snap[p]
  /\ hasLatest' = TRUE
  /\ marker' = TRUE
  /\ producer' = [producer EXCEPT ![p] = IF marker THEN "idle" ELSE "pushing"]
  /\ UNCHANGED <<running, queueVars, snap, captured, loop, inHand, stopper, cleared,
                 refreshing>>

\* postSnapshotLatest_: pushEvent_(marker), after snapshot_mtx_ is released.
PushMarker(p) ==
  /\ producer[p] = "pushing"
  /\ PushEvent("Snapshot")
  /\ producer' = [producer EXCEPT ![p] = "idle"]
  /\ UNCHANGED <<running, bufVars, snap, captured, loop, inHand, stopper, cleared,
                 refreshing>>

-----------------------------------------------------------------------------
(* The control thread.                                                     *)

Start ==
  /\ ~running /\ loop = "off"
  /\ running' = TRUE
  /\ loop' = "top"
  /\ UNCHANGED <<queueVars, bufVars, prodVars, inHand, stopper, cleared, refreshing>>

\* while (running_)
LoopTest ==
  /\ loop = "top"
  /\ loop' = IF running THEN "pop" ELSE "exited"
  /\ UNCHANGED <<running, queueVars, bufVars, prodVars, inHand, stopper, cleared,
                 refreshing>>

\* popEvent_ with q_high_ not empty; a Stop event breaks out of the loop.
PopHigh ==
  /\ loop = "pop"
  /\ qHigh # <<>>
  /\ qHigh' = Tail(qHigh)
  /\ loop' = IF Head(qHigh) = "Stop" THEN "exited" ELSE "handle"
  /\ UNCHANGED <<running, qNormal, bufVars, prodVars, inHand, stopper, cleared, refreshing>>

PopNormal ==
  /\ loop = "pop"
  /\ qHigh = <<>> /\ qNormal # <<>>
  /\ qNormal' = Tail(qNormal)
  /\ loop' = IF Head(qNormal) = "Snapshot" THEN "take" ELSE "handle"
  /\ UNCHANGED <<running, qHigh, bufVars, prodVars, inHand, stopper, cleared, refreshing>>

\* Mutants: the take leaves a flag set.
TakeLatestSnapshot_KeepsMarker ==
  /\ loop = "take"
  /\ hasLatest' = FALSE
  /\ IF hasLatest
     THEN inHand' = latest /\ loop' = "handleSnapshot"
     ELSE UNCHANGED inHand /\ loop' = "top"
  /\ UNCHANGED <<running, queueVars, latest, marker, prodVars, stopper, cleared, refreshing>>

TakeLatestSnapshot_KeepsSnapshot ==
  /\ loop = "take"
  /\ marker' = FALSE
  /\ IF hasLatest
     THEN inHand' = latest /\ loop' = "handleSnapshot"
     ELSE UNCHANGED inHand /\ loop' = "top"
  /\ UNCHANGED <<running, queueVars, latest, hasLatest, prodVars, stopper, cleared,
                 refreshing>>

TakeLatestSnapshot ==
  /\ loop = "take"
  /\ marker' = FALSE
  /\ hasLatest' = FALSE
  /\ IF hasLatest
     THEN inHand' = latest /\ loop' = "handleSnapshot"
     ELSE UNCHANGED inHand /\ loop' = "top"
  /\ UNCHANGED <<running, queueVars, latest, prodVars, stopper, cleared, refreshing>>

\* engine_.onEvent, refreshCachedBmsRuntimeHealth_ and dispatcher_.dispatch end.
HandleDone ==
  /\ loop \in {"handle", "handleSnapshot"}
  /\ loop' = "top"
  /\ UNCHANGED <<running, queueVars, bufVars, prodVars, inHand, stopper, cleared,
                 refreshing>>

-----------------------------------------------------------------------------
(* stop(), called by AppManager::stop after the refresh thread is joined.  *)

StopCall ==
  /\ running /\ ~refreshing
  /\ running' = FALSE
  /\ stopper' = "clear"
  /\ UNCHANGED <<queueVars, bufVars, prodVars, loop, inHand, cleared, refreshing>>

\* Versions that have left their producer for the buffer.
PostedVersions ==
  {v \in 1..captured : \A p \in Producers : producer[p] = "captured" => snap[p] # v}

\* Mutant: stop() resets the marker flag only.
StopClear_KeepsSnapshot ==
  /\ stopper = "clear"
  /\ marker' = FALSE
  /\ stopper' = "push"
  /\ cleared' = PostedVersions
  /\ UNCHANGED <<running, queueVars, latest, hasLatest, prodVars, loop, inHand, refreshing>>

StopClear ==
  /\ stopper = "clear"
  /\ hasLatest' = FALSE
  /\ marker' = FALSE
  /\ stopper' = "push"
  /\ cleared' = PostedVersions
  /\ UNCHANGED <<running, queueVars, latest, prodVars, loop, inHand, refreshing>>

\* Mutant: stop() relies on running_ alone and does not wake the loop.
StopPush_NoEvent ==
  /\ stopper = "push"
  /\ stopper' = "join"
  /\ UNCHANGED <<running, queueVars, bufVars, prodVars, loop, inHand, cleared, refreshing>>

StopPush ==
  /\ stopper = "push"
  /\ PushEvent("Stop")
  /\ stopper' = "join"
  /\ UNCHANGED <<running, bufVars, prodVars, loop, inHand, cleared, refreshing>>

StopJoin ==
  /\ stopper = "join" /\ loop = "exited"
  /\ stopper' = "done"
  /\ UNCHANGED <<running, queueVars, bufVars, prodVars, loop, inHand, cleared, refreshing>>

-----------------------------------------------------------------------------
(* The fault-refresh thread: ControlLoop::refreshFaultPagesOnly.  It holds *)
(* logic_mtx_, which threadMain_ never takes.                              *)

RefreshEnter ==
  /\ stopper = "idle" /\ ~refreshing
  /\ refreshing' = TRUE
  /\ UNCHANGED <<running, queueVars, bufVars, prodVars, loop, inHand, stopper, cleared>>

RefreshLeave ==
  /\ refreshing
  /\ refreshing' = FALSE
  /\ UNCHANGED <<running, queueVars, bufVars, prodVars, loop, inHand, stopper, cleared>>

Finished == stopper = "done" /\ UNCHANGED vars

Pop == PopHigh \/ PopNormal

Next ==
  \/ \E t \in PostedTypes : Post(t)
  \/ \E p \in Producers : Capture(p) \/ PostSnapshotLatest(p) \/ PushMarker(p)
  \/ Start \/ LoopTest \/ PopHigh \/ PopNormal \/ TakeLatestSnapshot \/ HandleDone
  \/ StopCall \/ StopClear \/ StopPush \/ StopJoin
  \/ RefreshEnter \/ RefreshLeave
  \/ Finished

Spec == Init /\ [][Next]_vars

(* Threads that can run do run.  PopNormal needs strong fairness: an HMI   *)
(* event may arrive between any two looks at the queues, but the screen's  *)
(* events are milliseconds apart and do not hit every one of them.         *)
Fairness ==
  /\ WF_vars(LoopTest) /\ WF_vars(Pop) /\ SF_vars(PopNormal)
  /\ WF_vars(TakeLatestSnapshot) /\ WF_vars(HandleDone)
  /\ WF_vars(StopClear) /\ WF_vars(StopPush) /\ WF_vars(StopJoin)
  /\ \A p \in Producers : WF_vars(PushMarker(p))

FairSpec == Spec /\ Fairness

-----------------------------------------------------------------------------
(* Properties.                                                             *)

\* The queues hold the events pushEvent_ sorts into them, the snapshot buffer and the
\* program counters of producers, control thread and stop() keep their types.
TypeOK ==
  /\ running \in BOOLEAN
  /\ qHigh \in Seq(HighType) /\ qNormal \in Seq(NormalType)
  /\ latest \in Nat /\ hasLatest \in BOOLEAN /\ marker \in BOOLEAN
  /\ producer \in [Producers -> {"idle", "captured", "pushing"}]
  /\ snap \in [Producers -> Nat] /\ captured \in Nat
  /\ loop \in LoopPc /\ inHand \in Nat
  /\ stopper \in StopPc /\ cleared \subseteq Nat
  /\ refreshing \in BOOLEAN

MarkerAt(i) == i \in 1..Len(qNormal) /\ qNormal[i] = "Snapshot"

\* A snapshot in the buffer is never stranded: whenever has_latest_snapshot_ is
\* set, a marker is in the queue, or about to be pushed by a producer that has
\* already released snapshot_mtx_, or just popped by the control thread, even
\* across stop()'s clearing of both flags.
PendingHasMarker ==
  hasLatest => \/ \E i \in 1..Len(qNormal) : MarkerAt(i)
               \/ \E p \in Producers : producer[p] = "pushing"
               \/ loop = "take"

\* The snapshot path does not pile up: until stop() clears the flags there is
\* at most one marker among the queue, the producers and the control thread.
SingleMarker ==
  stopper \in {"idle", "clear"} =>
    /\ \A i, j \in 1..Len(qNormal) : MarkerAt(i) /\ MarkerAt(j) => i = j
    /\ \A p, q \in Producers :
         producer[p] = "pushing" /\ producer[q] = "pushing" => p = q
    /\ (\E i \in 1..Len(qNormal) : MarkerAt(i)) =>
         loop # "take" /\ \A p \in Producers : producer[p] # "pushing"
    /\ loop = "take" => \A p \in Producers : producer[p] # "pushing"

\* The control thread never takes, after stop()'s clearing section, a snapshot
\* that had been posted before it (the reason the section gives for clearing).
NoOldSnapshotAfterStop ==
  [][TakeLatestSnapshot /\ hasLatest => inHand' \notin cleared]_vars

\* The latest-only buffer, its marker and stop() implement one overwritable slot.
Slot == INSTANCE LatestSnapshot
          WITH Version <- 1..MaxSnapshots,
               slot <- IF hasLatest THEN latest ELSE 0,
               open <- stopper \in {"idle", "clear"}

ImplementsSlot == Slot!Spec

\* A posted snapshot is handled: as long as the high-priority queue is found
\* empty again and again, a pending snapshot leads to the engine being called
\* with a snapshot, unless stop() comes first.
HighDrains == []<>(loop = "pop" /\ qHigh = <<>>)
PendingIsHandled ==
  HighDrains => (running /\ hasLatest ~> ~running \/ loop = "handleSnapshot")

\* stop() returns: whatever the thread was doing, and however many events are
\* queued, the control thread leaves its loop and the join completes.
StopReturns == (stopper = "clear") ~> (stopper = "done")

\* "Single-threaded control loop": the engine and its context are entered by one
\* thread at a time.
EngineExclusive == ~(refreshing /\ loop \in {"handle", "handleSnapshot"})

\* "Keep only the latest one": the control thread is never handed a snapshot
\* older than one it was handed before.
LatestNeverOlder == [][inHand' >= inHand]_vars
=============================================================================
