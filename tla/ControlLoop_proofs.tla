-------------------------- MODULE ControlLoop_proofs --------------------------
(***************************************************************************)
(* Proofs about ControlLoop for any set of producers, any mix of posted    *)
(* events and any bounds.                                                  *)
(***************************************************************************)
EXTENDS ControlLoop, TLAPS

\* No marker is in the queue, with a producer or with the control thread.
NoMarker ==
  /\ \A i \in 1..Len(qNormal) : ~MarkerAt(i)
  /\ \A p \in Producers : producer[p] # "pushing"
  /\ loop # "take"

\* The flags agree with each other and with the marker's existence.
FlagInv ==
  /\ hasLatest = marker
  /\ stopper \in {"idle", "clear"} /\ ~marker => NoMarker

\* stop() runs once, after start().
StopInv ==
  /\ running => stopper = "idle" /\ loop # "off"
  /\ loop = "off" => stopper = "idle"

\* Which versions can be in a producer's hands, in the buffer and in `cleared'.
VersionInv ==
  /\ captured <= MaxSnapshots
  /\ cleared \subseteq 1..captured
  /\ stopper \in {"idle", "clear"} => cleared = {}
  /\ \A p \in Producers :
       producer[p] = "captured" => snap[p] \in 1..captured /\ snap[p] \notin cleared
  /\ hasLatest => latest \in 1..captured /\ latest \notin cleared

IInv == TypeOK /\ FlagInv /\ PendingHasMarker /\ SingleMarker /\ StopInv /\ VersionInv

\* pushEvent_ sends each type of event to the queue of its priority.
LEMMA EventTypes ==
  /\ "Stop" \in HighType
  /\ "Snapshot" \in NormalType /\ "Snapshot" \notin HighType
  /\ \A t \in PostedTypes :
       t # "Snapshot" /\ (t \in HighType \/ (t \in NormalType /\ t \notin HighType))
  BY ConstAssumption DEF HighType, NormalType

\* The initial state, with empty queues and no thread started, is well typed.
LEMMA TypeInit == Init => TypeOK
<1>1. <<>> \in Seq(HighType) /\ <<>> \in Seq(NormalType)
  OBVIOUS
<1>2. Init => qHigh \in Seq(HighType) /\ qNormal \in Seq(NormalType)
  BY <1>1 DEF Init
<1>3. Init => /\ running \in BOOLEAN /\ hasLatest \in BOOLEAN /\ marker \in BOOLEAN
              /\ refreshing \in BOOLEAN
  BY DEF Init
<1>4. Init => /\ latest \in Nat /\ captured \in Nat /\ inHand \in Nat
              /\ snap \in [Producers -> Nat] /\ cleared \subseteq Nat
  BY DEF Init
<1>5. Init => /\ producer \in [Producers -> {"idle", "captured", "pushing"}]
              /\ loop \in LoopPc /\ stopper \in StopPc
  BY DEF Init, LoopPc, StopPc
<1>6. QED
  BY <1>2, <1>3, <1>4, <1>5 DEF TypeOK

\* Every action keeps the queues sequences of their event types and the program
\* counters within their values.
LEMMA TypeStep == TypeOK /\ [Next]_vars => TypeOK'
<1> SUFFICES ASSUME TypeOK, [Next]_vars PROVE TypeOK'
  OBVIOUS
<1> USE DEF TypeOK, LoopPc, StopPc
<1>1. ASSUME NEW t \in PostedTypes, Post(t) PROVE TypeOK'
  <2>1. CASE t \in HighType
    <3>1. qHigh' = Append(qHigh, t) /\ qNormal' = qNormal
      BY <1>1, <2>1 DEF Post, PushEvent, IsHighPriorityEvent
    <3>2. QED
      BY <1>1, <2>1, <3>1 DEF Post, bufVars, prodVars
  <2>2. CASE t \notin HighType
    <3>1. qNormal' = Append(qNormal, t) /\ qHigh' = qHigh /\ t \in NormalType
      BY <1>1, <2>2, EventTypes DEF Post, PushEvent, IsHighPriorityEvent
    <3>2. QED
      BY <1>1, <3>1 DEF Post, bufVars, prodVars
  <2>3. QED
    BY <2>1, <2>2
<1>2. ASSUME NEW p \in Producers, Capture(p) PROVE TypeOK'
  BY <1>2 DEF Capture, queueVars, bufVars
<1>3. ASSUME NEW p \in Producers, PostSnapshotLatest(p) PROVE TypeOK'
  BY <1>3 DEF PostSnapshotLatest, queueVars
<1>4. ASSUME NEW p \in Producers, PushMarker(p) PROVE TypeOK'
  <2>1. qNormal' = Append(qNormal, "Snapshot") /\ qHigh' = qHigh
    BY <1>4, EventTypes DEF PushMarker, PushEvent, IsHighPriorityEvent
  <2>2. qNormal' \in Seq(NormalType)
    BY <2>1, EventTypes
  <2>3. QED
    BY <1>4, <2>1, <2>2 DEF PushMarker, bufVars
<1>5. CASE Start
  BY <1>5 DEF Start, queueVars, bufVars, prodVars
<1>6. CASE LoopTest
  BY <1>6 DEF LoopTest, queueVars, bufVars, prodVars
<1>7. CASE PopHigh
  BY <1>7 DEF PopHigh, bufVars, prodVars
<1>8. CASE PopNormal
  BY <1>8 DEF PopNormal, bufVars, prodVars
<1>9. CASE TakeLatestSnapshot
  BY <1>9 DEF TakeLatestSnapshot, queueVars, prodVars
<1>10. CASE HandleDone
  BY <1>10 DEF HandleDone, queueVars, bufVars, prodVars
<1>11. CASE StopCall
  BY <1>11 DEF StopCall, queueVars, bufVars, prodVars
<1>12. CASE StopClear
  <2>1. PostedVersions \subseteq Nat
    BY DEF PostedVersions
  <2>2. QED
    BY <1>12, <2>1 DEF StopClear, queueVars, prodVars
<1>13. CASE StopPush
  <2>1. qHigh' = Append(qHigh, "Stop") /\ qNormal' = qNormal
    BY <1>13, EventTypes DEF StopPush, PushEvent, IsHighPriorityEvent
  <2>2. qHigh' \in Seq(HighType)
    BY <2>1, EventTypes
  <2>3. QED
    BY <1>13, <2>1, <2>2 DEF StopPush, bufVars, prodVars
<1>14. CASE StopJoin
  BY <1>14 DEF StopJoin, queueVars, bufVars, prodVars
<1>15. CASE RefreshEnter \/ RefreshLeave
  BY <1>15 DEF RefreshEnter, RefreshLeave, queueVars, bufVars, prodVars
<1>16. CASE UNCHANGED vars
  BY <1>16 DEF vars, queueVars, bufVars, prodVars
<1>17. QED
  BY <1>1, <1>2, <1>3, <1>4, <1>5, <1>6, <1>7, <1>8, <1>9, <1>10, <1>11, <1>12,
     <1>13, <1>14, <1>15, <1>16 DEF Next, Finished

\* The control loop's queues, flags and program counters keep their types.
THEOREM TypeCorrect == Spec => []TypeOK
  BY TypeInit, TypeStep, PTL DEF Spec

-----------------------------------------------------------------------------
(* The marker protocol.                                                    *)

\* FlagInv, PendingHasMarker and SingleMarker only depend on where the markers
\* are, on the flags and on whether stop() has cleared them.
MarkerInv == FlagInv /\ PendingHasMarker /\ SingleMarker

\* A step that moves no marker and touches no flag preserves the protocol; stop()
\* may advance, and the control thread may move between points other than "take".
LEMMA MarkerFrame ==
  ASSUME MarkerInv,
         hasLatest' = hasLatest, marker' = marker, producer' = producer,
         qNormal' = qNormal,
         loop' = "take" <=> loop = "take",
         stopper' \in {"idle", "clear"} => stopper \in {"idle", "clear"}
  PROVE  MarkerInv'
  BY DEF MarkerInv, FlagInv, PendingHasMarker, SingleMarker, NoMarker, MarkerAt

\* Appending an event that is not a marker, or popping one, moves no marker.
LEMMA MarkerAppend ==
  ASSUME TypeOK, MarkerInv, NEW t \in NormalType, t # "Snapshot",
         qNormal' = Append(qNormal, t),
         UNCHANGED <<hasLatest, marker, producer, loop, stopper>>
  PROVE  MarkerInv'
<1>1. \A i : MarkerAt(i)' <=> MarkerAt(i)
  BY DEF TypeOK, MarkerAt
<1>2. \A i : MarkerAt(i) => i \in 1..Len(qNormal) /\ i \in 1..Len(qNormal')
  BY <1>1 DEF MarkerAt
<1>3. \A i \in 1..Len(qNormal') : MarkerAt(i)' => i \in 1..Len(qNormal) /\ MarkerAt(i)
  BY <1>1 DEF MarkerAt
<1>4. FlagInv'
  BY <1>3 DEF MarkerInv, FlagInv, NoMarker
<1>5. PendingHasMarker'
  BY <1>1, <1>2 DEF MarkerInv, PendingHasMarker
<1>6. SingleMarker'
  BY <1>3 DEF MarkerInv, SingleMarker
<1>7. QED
  BY <1>4, <1>5, <1>6 DEF MarkerInv

\* The markers of a queue whose front is popped are the others, one place nearer.
LEMMA TailMarkers ==
  ASSUME TypeOK, qNormal # <<>>, qNormal' = Tail(qNormal)
  PROVE  /\ \A i \in 1..Len(qNormal') : MarkerAt(i)' <=> MarkerAt(i + 1)
         /\ \A i \in 1..Len(qNormal) : i # 1 => i - 1 \in 1..Len(qNormal')
         /\ \A i \in 1..Len(qNormal') : i + 1 \in 1..Len(qNormal)
         /\ MarkerAt(1) <=> Head(qNormal) = "Snapshot"
         /\ 1 \in 1..Len(qNormal)
  BY DEF TypeOK, MarkerAt

\* Every step keeps the flags equal, a marker behind every pending snapshot, and,
\* until stop() clears the flags, at most one marker.
LEMMA MarkerStep == TypeOK /\ StopInv /\ MarkerInv /\ [Next]_vars => MarkerInv'
<1> SUFFICES ASSUME TypeOK, StopInv, MarkerInv, [Next]_vars PROVE MarkerInv'
  OBVIOUS
<1>1. ASSUME NEW t \in PostedTypes, Post(t) PROVE MarkerInv'
  <2>1. CASE t \in HighType
    BY <1>1, <2>1, MarkerFrame DEF Post, PushEvent, IsHighPriorityEvent, bufVars, prodVars
  <2>2. CASE t \notin HighType
    BY <1>1, <2>2, EventTypes, MarkerAppend
       DEF Post, PushEvent, IsHighPriorityEvent, bufVars, prodVars
  <2>3. QED
    BY <2>1, <2>2
<1>2. ASSUME NEW p \in Producers, Capture(p) PROVE MarkerInv'
  <2>1. \A q \in Producers : producer'[q] = "pushing" <=> producer[q] = "pushing"
    BY <1>2 DEF Capture, TypeOK
  <2>2. UNCHANGED <<hasLatest, marker, qNormal, loop, stopper>>
    BY <1>2 DEF Capture, queueVars, bufVars
  <2>3. QED
    BY <2>1, <2>2
       DEF MarkerInv, FlagInv, PendingHasMarker, SingleMarker, NoMarker, MarkerAt
<1>3. ASSUME NEW p \in Producers, PostSnapshotLatest(p) PROVE MarkerInv'
  <2> USE <1>3 DEF PostSnapshotLatest, queueVars
  <2>1. CASE marker
    <3>1. \A q \in Producers : producer'[q] = "pushing" <=> producer[q] = "pushing"
      BY <2>1 DEF TypeOK
    <3>2. hasLatest /\ hasLatest' /\ marker'
      BY <2>1 DEF MarkerInv, FlagInv
    <3>3. UNCHANGED <<qNormal, loop, stopper>>
      OBVIOUS
    <3>4. QED
      BY <2>1, <3>1, <3>2, <3>3
         DEF MarkerInv, FlagInv, PendingHasMarker, SingleMarker, NoMarker, MarkerAt
  <2>2. CASE ~marker
    <3>1. /\ producer'[p] = "pushing"
          /\ \A q \in Producers : q # p => producer'[q] = producer[q]
      BY <2>2 DEF TypeOK
    <3>2. stopper \in {"idle", "clear"} => NoMarker
      BY <2>2 DEF MarkerInv, FlagInv
    <3>3. UNCHANGED <<qNormal, loop, stopper>> /\ hasLatest' /\ marker'
      OBVIOUS
    <3>4. FlagInv' /\ PendingHasMarker'
      BY <3>1, <3>3 DEF FlagInv, PendingHasMarker
    <3>5. SingleMarker'
      BY <3>1, <3>2, <3>3 DEF SingleMarker, NoMarker, MarkerAt
    <3>6. QED
      BY <3>4, <3>5 DEF MarkerInv
  <2>3. QED
    BY <2>1, <2>2
<1>4. ASSUME NEW p \in Producers, PushMarker(p) PROVE MarkerInv'
  <2>1. qNormal' = Append(qNormal, "Snapshot")
    BY <1>4, EventTypes DEF PushMarker, PushEvent, IsHighPriorityEvent
  <2>2. UNCHANGED <<hasLatest, marker, loop, stopper>> /\ producer[p] = "pushing"
    BY <1>4 DEF PushMarker, bufVars
  <2>3. /\ producer'[p] = "idle"
        /\ \A q \in Producers : q # p => producer'[q] = producer[q]
    BY <1>4 DEF PushMarker, TypeOK
  <2>4. /\ MarkerAt(Len(qNormal))' /\ Len(qNormal') \in 1..Len(qNormal')
        /\ \A i \in 1..Len(qNormal') : i # Len(qNormal') =>
             i \in 1..Len(qNormal) /\ (MarkerAt(i)' => MarkerAt(i))
    BY <2>1 DEF TypeOK, MarkerAt
  <2>5. stopper \in {"idle", "clear"} =>
          /\ marker /\ loop # "take"
          /\ \A i \in 1..Len(qNormal) : ~MarkerAt(i)
          /\ \A q \in Producers : producer[q] = "pushing" => q = p
    BY <2>2 DEF MarkerInv, FlagInv, SingleMarker, NoMarker
  <2>6. FlagInv'
    BY <2>2, <2>5 DEF MarkerInv, FlagInv
  <2>7. PendingHasMarker'
    BY <2>4 DEF PendingHasMarker
  <2>8. SingleMarker'
    BY <2>2, <2>3, <2>4, <2>5 DEF SingleMarker
  <2>9. QED
    BY <2>6, <2>7, <2>8 DEF MarkerInv
<1>5. CASE Start
  BY <1>5, MarkerFrame DEF Start, queueVars, bufVars, prodVars
<1>6. CASE LoopTest
  BY <1>6, MarkerFrame DEF LoopTest, queueVars, bufVars, prodVars
<1>7. CASE PopHigh
  BY <1>7, MarkerFrame DEF PopHigh, bufVars, prodVars
<1>8. CASE PopNormal
  <2>1. /\ qNormal # <<>> /\ qNormal' = Tail(qNormal) /\ loop = "pop"
        /\ loop' = "take" <=> Head(qNormal) = "Snapshot"
        /\ UNCHANGED <<hasLatest, marker, producer, stopper>>
    BY <1>8 DEF PopNormal, bufVars, prodVars
  <2>2. FlagInv'
    BY <2>1, TailMarkers DEF MarkerInv, FlagInv, NoMarker
  <2>3. PendingHasMarker'
    <3> SUFFICES ASSUME hasLatest', loop' # "take",
                        \A q \in Producers : producer'[q] # "pushing"
                 PROVE  \E i \in 1..Len(qNormal') : MarkerAt(i)'
      BY DEF PendingHasMarker
    <3>1. PICK i \in 1..Len(qNormal) : MarkerAt(i)
      BY <2>1 DEF MarkerInv, PendingHasMarker
    <3>2. i # 1
      BY <3>1, <2>1, TailMarkers
    <3>3. i - 1 \in 1..Len(qNormal') /\ (i - 1) + 1 = i
      BY <3>2, <2>1, TailMarkers
    <3>4. QED
      BY <3>1, <3>3, <2>1, TailMarkers
  <2>4. SingleMarker'
    <3> SUFFICES ASSUME stopper \in {"idle", "clear"} PROVE SingleMarker'
      BY <2>1 DEF SingleMarker
    <3>1. \A i, j \in 1..Len(qNormal') : MarkerAt(i)' /\ MarkerAt(j)' => i = j
      <4> TAKE i, j \in 1..Len(qNormal')
      <4> HAVE MarkerAt(i)' /\ MarkerAt(j)'
      <4>1. i + 1 = j + 1
        BY <2>1, TailMarkers DEF MarkerInv, SingleMarker
      <4>2. QED
        BY <4>1
    <3>2. \A i \in 1..Len(qNormal') : MarkerAt(i)' => Head(qNormal) # "Snapshot"
      <4> TAKE i \in 1..Len(qNormal')
      <4> HAVE MarkerAt(i)'
      <4>1. MarkerAt(i + 1) /\ i + 1 \in 1..Len(qNormal) /\ i + 1 # 1
        BY <2>1, TailMarkers
      <4>2. QED
        BY <4>1, <2>1, TailMarkers DEF MarkerInv, SingleMarker
    <3>3. (\E i \in 1..Len(qNormal) : MarkerAt(i)) =>
            \A q \in Producers : producer'[q] # "pushing"
      BY <2>1 DEF MarkerInv, SingleMarker
    <3>4. (\E i \in 1..Len(qNormal') : MarkerAt(i)') =>
            \E i \in 1..Len(qNormal) : MarkerAt(i)
      BY <2>1, TailMarkers
    <3>5. loop' = "take" => \E i \in 1..Len(qNormal) : MarkerAt(i)
      BY <2>1, TailMarkers
    <3>6. \A p, q \in Producers :
            producer'[p] = "pushing" /\ producer'[q] = "pushing" => p = q
      BY <2>1 DEF MarkerInv, SingleMarker
    <3>7. QED
      BY <2>1, <3>1, <3>2, <3>3, <3>4, <3>5, <3>6 DEF SingleMarker
  <2>5. QED
    BY <2>2, <2>3, <2>4 DEF MarkerInv
<1>9. CASE TakeLatestSnapshot
  <2>1. /\ loop = "take" /\ loop' # "take" /\ hasLatest' = FALSE /\ marker' = FALSE
        /\ UNCHANGED <<qNormal, producer, stopper>>
    BY <1>9 DEF TakeLatestSnapshot, queueVars, prodVars
  <2>2. stopper \in {"idle", "clear"} => NoMarker'
    BY <2>1 DEF MarkerInv, SingleMarker, NoMarker, MarkerAt
  <2>3. QED
    BY <2>1, <2>2 DEF MarkerInv, FlagInv, PendingHasMarker, SingleMarker, NoMarker, MarkerAt
<1>10. CASE HandleDone
  BY <1>10, MarkerFrame DEF HandleDone, queueVars, bufVars, prodVars
<1>11. CASE StopCall
  BY <1>11, MarkerFrame DEF StopCall, StopInv, queueVars, bufVars, prodVars
<1>12. CASE StopClear
  <2>1. hasLatest' = FALSE /\ marker' = FALSE /\ stopper' = "push"
    BY <1>12 DEF StopClear
  <2>2. QED
    BY <2>1 DEF MarkerInv, FlagInv, PendingHasMarker, SingleMarker
<1>13. CASE StopPush
  BY <1>13, EventTypes, MarkerFrame
     DEF StopPush, PushEvent, IsHighPriorityEvent, bufVars, prodVars
<1>14. CASE StopJoin
  BY <1>14, MarkerFrame DEF StopJoin, queueVars, bufVars, prodVars
<1>15. CASE RefreshEnter \/ RefreshLeave
  BY <1>15, MarkerFrame DEF RefreshEnter, RefreshLeave, queueVars, bufVars, prodVars
<1>16. CASE UNCHANGED vars
  BY <1>16, MarkerFrame DEF vars, queueVars, bufVars, prodVars
<1>17. QED
  BY <1>1, <1>2, <1>3, <1>4, <1>5, <1>6, <1>7, <1>8, <1>9, <1>10, <1>11, <1>12,
     <1>13, <1>14, <1>15, <1>16 DEF Next, Finished

-----------------------------------------------------------------------------
(* stop() and the versions.                                                *)

\* stop() starts once, from a running loop.
LEMMA StopStep == TypeOK /\ StopInv /\ [Next]_vars => StopInv'
<1> SUFFICES ASSUME StopInv, [Next]_vars PROVE StopInv'
  OBVIOUS
<1> USE DEF StopInv
<1>1. CASE Start
  BY <1>1 DEF Start
<1>2. CASE LoopTest \/ PopHigh \/ PopNormal \/ TakeLatestSnapshot \/ HandleDone
  <2>1. loop' # "off" /\ UNCHANGED <<running, stopper>>
    BY <1>2 DEF LoopTest, PopHigh, PopNormal, TakeLatestSnapshot, HandleDone
  <2>2. QED
    BY <2>1
<1>3. CASE StopCall
  BY <1>3 DEF StopCall
<1>4. CASE StopClear \/ StopPush \/ StopJoin
  <2>1. stopper # "idle" /\ UNCHANGED <<running, loop>>
    BY <1>4 DEF StopClear, StopPush, StopJoin
  <2>2. QED
    BY <2>1
<1>5. CASE \/ \E t \in PostedTypes : Post(t)
           \/ \E p \in Producers : Capture(p) \/ PostSnapshotLatest(p) \/ PushMarker(p)
           \/ RefreshEnter \/ RefreshLeave \/ UNCHANGED vars
  <2>1. UNCHANGED <<running, loop, stopper>>
    BY <1>5 DEF Post, Capture, PostSnapshotLatest, PushMarker, RefreshEnter,
                RefreshLeave, vars
  <2>2. QED
    BY <2>1
<1>6. QED
  BY <1>1, <1>2, <1>3, <1>4, <1>5 DEF Next, Finished

\* A version that stop() cleared away is with no producer and not in the buffer,
\* and a version captured later is not among them.
LEMMA VersionStep == TypeOK /\ StopInv /\ VersionInv /\ [Next]_vars => VersionInv'
<1> SUFFICES ASSUME TypeOK, StopInv, VersionInv, [Next]_vars PROVE VersionInv'
  OBVIOUS
<1> USE DEF TypeOK, VersionInv
<1>1. ASSUME NEW p \in Producers, Capture(p) PROVE VersionInv'
  <2>1. /\ captured < MaxSnapshots /\ captured' = captured + 1
        /\ snap'[p] = captured + 1 /\ \A q \in Producers : q # p => snap'[q] = snap[q]
        /\ \A q \in Producers : q # p => producer'[q] = producer[q]
        /\ UNCHANGED <<latest, hasLatest, cleared, stopper>>
    BY <1>1 DEF Capture, bufVars
  <2>2. captured' <= MaxSnapshots /\ 1..captured \subseteq 1..captured'
    BY <2>1, ConstAssumption
  <2>3. captured + 1 \in 1..captured' /\ captured + 1 \notin cleared
    BY <2>1
  <2>4. QED
    BY <2>1, <2>2, <2>3
<1>2. ASSUME NEW p \in Producers, PostSnapshotLatest(p) PROVE VersionInv'
  BY <1>2 DEF PostSnapshotLatest
<1>3. ASSUME NEW p \in Producers, PushMarker(p) PROVE VersionInv'
  BY <1>3 DEF PushMarker, bufVars
<1>4. CASE TakeLatestSnapshot
  BY <1>4 DEF TakeLatestSnapshot, prodVars
<1>5. CASE StopCall
  BY <1>5 DEF StopCall, StopInv, bufVars, prodVars
<1>6. CASE StopClear
  <2>1. /\ cleared' = PostedVersions /\ ~hasLatest' /\ stopper' = "push"
        /\ UNCHANGED <<producer, snap, captured>>
    BY <1>6 DEF StopClear, prodVars
  <2>2. PostedVersions \subseteq 1..captured
    BY DEF PostedVersions
  <2>3. \A p \in Producers : producer[p] = "captured" => snap[p] \notin PostedVersions
    BY DEF PostedVersions
  <2>4. QED
    BY <2>1, <2>2, <2>3
<1>7. CASE StopPush \/ StopJoin
  <2>1. stopper' \notin {"idle", "clear"} /\ UNCHANGED <<bufVars, prodVars, cleared>>
    BY <1>7 DEF StopPush, StopJoin
  <2>2. QED
    BY <2>1 DEF bufVars, prodVars
<1>8. CASE \/ \E t \in PostedTypes : Post(t)
           \/ Start \/ LoopTest \/ PopHigh \/ PopNormal \/ HandleDone
           \/ RefreshEnter \/ RefreshLeave \/ UNCHANGED vars
  <2>1. UNCHANGED <<bufVars, prodVars, cleared, stopper>>
    BY <1>8 DEF Post, Start, LoopTest, PopHigh, PopNormal, HandleDone, RefreshEnter,
                RefreshLeave, vars
  <2>2. QED
    BY <2>1 DEF bufVars, prodVars
<1>9. QED
  BY <1>1, <1>2, <1>3, <1>4, <1>5, <1>6, <1>7, <1>8 DEF Next, Finished

\* The initial state satisfies the invariant.
LEMMA InvInit == Init => IInv
<1> SUFFICES ASSUME Init PROVE IInv
  OBVIOUS
<1>1. /\ hasLatest = FALSE /\ marker = FALSE /\ qNormal = <<>> /\ loop = "off"
      /\ producer = [p \in Producers |-> "idle"] /\ stopper = "idle"
      /\ running = FALSE /\ captured = 0 /\ cleared = {}
  BY DEF Init
<1>2. NoMarker
  BY <1>1 DEF NoMarker, MarkerAt
<1>3. FlagInv /\ PendingHasMarker /\ StopInv
  BY <1>1, <1>2 DEF FlagInv, PendingHasMarker, StopInv
<1>4. SingleMarker
  BY <1>1, <1>2 DEF SingleMarker, NoMarker
<1>5. VersionInv
  BY <1>1, ConstAssumption DEF VersionInv
<1>6. QED
  BY <1>3, <1>4, <1>5, TypeInit DEF IInv

\* The invariant is inductive.
LEMMA InvStep == IInv /\ [Next]_vars => IInv'
  BY TypeStep, MarkerStep, StopStep, VersionStep DEF IInv, MarkerInv

\* The invariant holds in every reachable state.
THEOREM Invariance == Spec => []IInv
  BY InvInit, InvStep, PTL DEF Spec

\* postSnapshotLatest_ / takeLatestSnapshot_ never strand a snapshot: a pending one
\* always has its marker, whatever the interleaving with stop().
THEOREM PendingHasMarkerAlways == Spec => []PendingHasMarker
<1>1. IInv => PendingHasMarker
  BY DEF IInv
<1>2. QED
  BY <1>1, Invariance, PTL

\* At most one snapshot marker exists until stop() clears the flags.
THEOREM SingleMarkerAlways == Spec => []SingleMarker
<1>1. IInv => SingleMarker
  BY DEF IInv
<1>2. QED
  BY <1>1, Invariance, PTL

\* After stop()'s clearing section no snapshot posted before it is handed to the
\* engine.
THEOREM NoOldSnapshot == Spec => NoOldSnapshotAfterStop
<1>1. IInv => (TakeLatestSnapshot /\ hasLatest => inHand' \notin cleared)
  BY DEF IInv, VersionInv, TakeLatestSnapshot
<1>2. QED
  BY <1>1, Invariance, PTL DEF Spec, NoOldSnapshotAfterStop

-----------------------------------------------------------------------------
(* The refinement.                                                         *)

\* The initial buffer is the empty, open slot.
LEMMA SlotInit == Init => Slot!Init
  BY DEF Init, Slot!Init

\* Every step of the control loop puts into, takes from or closes the slot, or
\* leaves it alone.
LEMMA SlotStep == IInv /\ [Next]_vars => [Slot!Next]_(Slot!vars)
<1> SUFFICES ASSUME IInv, [Next]_vars PROVE [Slot!Next]_(Slot!vars)
  OBVIOUS
<1> USE DEF Slot!vars, Slot!Next
<1>1. ASSUME NEW p \in Producers, PostSnapshotLatest(p) PROVE Slot!Next
  <2>1. snap[p] \in 1..MaxSnapshots
    BY <1>1, ConstAssumption DEF IInv, TypeOK, VersionInv, PostSnapshotLatest
  <2>2. Slot!Put(snap[p])
    BY <1>1 DEF Slot!Put, PostSnapshotLatest
  <2>3. QED
    BY <2>1, <2>2
<1>2. CASE TakeLatestSnapshot
  <2>1. CASE hasLatest
    <3>1. latest # 0
      BY <2>1 DEF IInv, VersionInv, TypeOK
    <3>2. Slot!Get
      BY <1>2, <2>1, <3>1 DEF Slot!Get, TakeLatestSnapshot
    <3>3. QED
      BY <3>2
  <2>2. CASE ~hasLatest
    BY <1>2, <2>2 DEF TakeLatestSnapshot
  <2>3. QED
    BY <2>1, <2>2
<1>3. CASE StopClear
  <2>1. Slot!Close
    BY <1>3 DEF Slot!Close, StopClear
  <2>2. QED
    BY <2>1
<1>4. CASE \/ StopCall \/ StopPush \/ StopJoin
  BY <1>4 DEF StopCall, StopPush, StopJoin, bufVars, IInv, StopInv
<1>5. CASE \E p \in Producers : Capture(p) \/ PushMarker(p)
  BY <1>5 DEF Capture, PushMarker, bufVars
<1>6. CASE \/ \E t \in PostedTypes : Post(t)
           \/ Start \/ LoopTest \/ PopHigh \/ PopNormal \/ HandleDone
           \/ RefreshEnter \/ RefreshLeave \/ UNCHANGED vars
  BY <1>6 DEF Post, Start, LoopTest, PopHigh, PopNormal, HandleDone, RefreshEnter,
              RefreshLeave, vars, bufVars
<1>7. QED
  BY <1>1, <1>2, <1>3, <1>4, <1>5, <1>6 DEF Next, Finished

\* Queues, marker, flags and stop() together implement one overwritable slot.
THEOREM Refinement == Spec => ImplementsSlot
  BY SlotInit, SlotStep, Invariance, PTL DEF Spec, ImplementsSlot, Slot!Spec
=============================================================================
