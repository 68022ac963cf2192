------------------------- MODULE BmsReceive_proofs -------------------------
(***************************************************************************)
(* The frames of an id reach the engine once each and in order, for any    *)
(* number of batteries, groups and frames.  The invariant orders the       *)
(* stations of a frame's way: what is still with the worker is newer than  *)
(* what the aggregator has, what is in BmsQueue newer than that, and what  *)
(* waits for the parser thread newer again.                                *)
(***************************************************************************)
EXTENDS BmsReceive, TLAPS

\* The stations a frame passes, each with newer frames than the next.
ParserNewer ==
  \A i \in DOMAIN can_q : can_q[i].n # 0 =>
    LET k == can_q[i].key  n == can_q[i].n IN
    /\ n <= sent[k] /\ n > latest[k] /\ n > worker.batch[k] /\ n > agg.n[k]
    /\ \A j \in 1 .. i - 1 : can_q[j].key = k => can_q[j].n < n

QueueNewer ==
  \A k \in Key : /\ latest[k] <= sent[k] /\ worker.batch[k] <= sent[k] /\ agg.n[k] <= sent[k]
                 /\ latest[k] # 0 => latest[k] > worker.batch[k] /\ latest[k] > agg.n[k]
                 /\ worker.batch[k] # 0 => worker.batch[k] > agg.n[k]

EngineOlder ==
  /\ \A k \in Key : seen[k] <= agg.n[k]
  /\ \A i \in DOMAIN ctl_q : ctl_q[i].n <= agg.n[ctl_q[i].key]

\* Only a worker at its frames holds any.
BatchOnlyAtFrames ==
  worker.at \notin {"test", "frames"} => \A k \in Key : worker.batch[k] = 0

Chain == ParserNewer /\ QueueNewer /\ EngineOlder /\ BatchOnlyAtFrames /\ OnceInOrder

-----------------------------------------------------------------------------
(* Types.                                                                  *)

LEMMA ZeroType == [k \in Key |-> 0] \in [Key -> Number]
BY ReceiveAssumption DEF Number

LEMMA NoSnapshotType == NoSnapshot \in Snapshot
BY ReceiveAssumption DEF NoSnapshot, Snapshot, Number, Verdict, None

LEMMA SyncIdleType ==
  SyncIdle \in [at : {"sleep", "write", "copy", "dispatch"}, upd : [Instance -> Verdict],
                snap : Snapshot]
BY NoSnapshotType DEF SyncIdle, Verdict, None

LEMMA TypeInit == Init => TypeOK
<1> SUFFICES ASSUME Init PROVE TypeOK
  OBVIOUS
<1>1. 0 \in Number /\ 0 \in 0 .. MaxFail
  BY ReceiveAssumption DEF Number
<1>2. can_q \in Seq(Frame \cup Stray) /\ ctl_q \in Seq(Frame)
  BY DEF Init
<1> QED
  BY <1>1, <1>2, NoSnapshotType, SyncIdleType DEF Init, TypeOK, Verdict, None

LEMMA AggregateType ==
  ASSUME NEW a \in Snapshot, NEW k \in Key, NEW n \in Number
  PROVE  AggregateFrame(a, k, n) \in Snapshot
BY DEF AggregateFrame, Snapshot, Verdict, Key

LEMMA UpdateType ==
  ASSUME NEW a \in Snapshot, NEW upd \in [Instance -> Verdict]
  PROVE  UpdateRuntimeHealth(a, upd) \in Snapshot
<1>1. /\ [i \in Instance |-> IF upd[i] # None THEN upd[i] ELSE a.health[i]]
           \in [Instance -> Verdict]
      /\ [k \in Key |-> upd[k[1]] # "off" /\ a.up[k]] \in [Key -> BOOLEAN]
  BY DEF Snapshot
<1> QED
  BY <1>1 DEF UpdateRuntimeHealth, Snapshot

\* The two outcomes of the archive's transaction.
LEMMA ArchiveType ==
  ASSUME TypeOK, NEW snap \in Snapshot, Archive(snap)
  PROVE  /\ db' \in [row : [Key -> Number], cache : [Key -> Number \X BOOLEAN],
                     lost : SUBSET Key]
         /\ fails' \in 0 .. MaxFail
<1>1. GroupCache(snap) \in [Key -> Number \X BOOLEAN] /\ ChangedGroups(snap) \subseteq Key
  BY DEF GroupCache, ChangedGroups, Snapshot
<1>2. [k \in Key |-> IF k \in ChangedGroups(snap) THEN snap.n[k] ELSE db.row[k]]
        \in [Key -> Number]
  BY DEF TypeOK, Snapshot
<1>3. CASE CommitRows(snap) /\ fails' = fails
  BY <1>1, <1>2, <1>3 DEF CommitRows, TypeOK
<1>4. CASE fails < MaxFail /\ RollbackRows(snap) /\ fails' = fails + 1
  <2>1. fails' \in 0 .. MaxFail
    BY <1>4, ReceiveAssumption DEF TypeOK
  <2>2. db.lost \cup ChangedGroups(snap) \in SUBSET Key
    BY <1>1 DEF TypeOK
  <2> QED
    BY <1>1, <1>4, <2>1, <2>2 DEF RollbackRows, TypeOK
<1> QED
  BY <1>3, <1>4 DEF Archive

LEMMA TypeStep == TypeOK /\ [Next]_vars => TypeOK'
<1> SUFFICES ASSUME TypeOK, [Next]_vars PROVE TypeOK'
  OBVIOUS
<1> USE DEF inVars, ctlVars, outVars
<1>1. ASSUME NEW k \in Key, PushCan(k) PROVE TypeOK'
  <2>1. sent' \in [Key -> Number] /\ sent'[k] \in 1 .. MaxFrame
    BY <1>1, ReceiveAssumption DEF PushCan, TypeOK, Number
  <2>2. [key |-> k, n |-> sent'[k]] \in Frame \cup Stray
    BY <2>1 DEF Frame
  <2>3. can_q' \in Seq(Frame \cup Stray)
    BY <1>1, <2>2 DEF PushCan, TypeOK
  <2> QED
    BY <1>1, <2>1, <2>3 DEF PushCan, TypeOK
<1>2. ASSUME NEW k \in Key, PushStray(k) PROVE TypeOK'
  <2>1. [key |-> k, n |-> 0] \in Frame \cup Stray
    BY DEF Stray
  <2>2. can_q' \in Seq(Frame \cup Stray)
    BY <1>2, <2>1 DEF PushStray, TypeOK
  <2> QED
    BY <1>2, <2>2 DEF PushStray, TypeOK
<1>3. CASE ParseCan
  <2>1. can_q \in Seq(Frame \cup Stray) /\ can_q # <<>>
    BY <1>3 DEF ParseCan, TypeOK
  <2>2. Head(can_q) \in Frame \cup Stray /\ can_q' \in Seq(Frame \cup Stray)
    BY <1>3, <2>1 DEF ParseCan
  <2>3. Head(can_q).key \in Key /\ Head(can_q).n \in Number
    BY <2>2, ReceiveAssumption DEF Frame, Stray, Number
  <2>4. latest' \in [Key -> Number]
    BY <1>3, <2>3 DEF ParseCan, QueuePush, TypeOK
  <2> QED
    BY <1>3, <2>2, <2>4 DEF ParseCan, TypeOK
<1>4. CASE WorkerTake
  BY <1>4, ZeroType DEF WorkerTake, PopAll, TypeOK
<1>5. CASE WorkerTest
  <2>1. CASE running
    BY <1>5, <2>1 DEF WorkerTest, TypeOK
  <2>2. CASE ~running
    BY <1>5, <2>2, ZeroType DEF WorkerTest, TypeOK
  <2> QED
    BY <2>1, <2>2
<1>6. ASSUME NEW k \in Key, WorkerFrame(k) PROVE TypeOK'
  <2>1. worker.batch[k] \in 1 .. MaxFrame
    BY <1>6, ReceiveAssumption DEF WorkerFrame, TypeOK, Number
  <2>2. [key |-> k, n |-> worker.batch[k]] \in Frame /\ worker.batch[k] \in Number
    BY <2>1 DEF Frame, Number
  <2>3. agg' \in Snapshot
    BY <1>6, <2>2, AggregateType DEF WorkerFrame, TypeOK
  <2>4. ctl_q' \in Seq(Frame)
    BY <1>6, <2>2 DEF WorkerFrame, TypeOK
  <2>5. 0 \in Number
    BY ReceiveAssumption DEF Number
  <2>6. worker' \in [at : {"wait", "test", "frames", "dispatch", "done"},
                     batch : [Key -> Number], snap : Snapshot]
    BY <1>6, <2>5 DEF WorkerFrame, TypeOK
  <2> QED
    BY <1>6, <2>3, <2>4, <2>6 DEF WorkerFrame, TypeOK
<1>7. CASE WorkerNoTick
  BY <1>7 DEF WorkerNoTick, TypeOK
<1>8. CASE WorkerTick
  BY <1>8 DEF WorkerTick, TypeOK
<1>9. ASSUME NEW w \in BOOLEAN, WorkerDispatch(w) PROVE TypeOK'
  <2>1. worker.snap \in Snapshot
    BY DEF TypeOK
  <2>2. Archive(worker.snap)
    BY <1>9 DEF WorkerDispatch
  <2>3. file' \in Snapshot
    BY <1>9, <2>1 DEF WorkerDispatch, WriteFile, KeepFile, TypeOK
  <2> QED
    BY <1>9, <2>1, <2>2, <2>3, ArchiveType, NoSnapshotType DEF WorkerDispatch, TypeOK
<1>10. CASE ControlFrame
  <2>1. ctl_q \in Seq(Frame) /\ ctl_q # <<>>
    BY <1>10 DEF ControlFrame, TypeOK
  <2>2. Head(ctl_q) \in Frame /\ ctl_q' \in Seq(Frame)
    BY <1>10, <2>1 DEF ControlFrame
  <2>3. Head(ctl_q).key \in Key /\ Head(ctl_q).n \in Number
    BY <2>2, ReceiveAssumption DEF Frame, Number
  <2>4. seen' \in [Key -> Number]
    BY <1>10, <2>3 DEF ControlFrame, TypeOK
  <2>5. online' \in [Instance -> Verdict] /\ cached' \in [Instance -> Verdict]
    BY <1>10 DEF ControlFrame, TypeOK, Verdict
  <2> QED
    BY <1>10, <2>2, <2>4, <2>5 DEF ControlFrame, TypeOK
<1>11. ASSUME NEW i \in Instance, ControlTimeout(i) PROVE TypeOK'
  <2>1. online' \in [Instance -> Verdict] /\ cached' \in [Instance -> Verdict]
    BY <1>11 DEF ControlTimeout, TypeOK, Verdict
  <2> QED
    BY <1>11, <2>1 DEF ControlTimeout, TypeOK
<1>12. CASE SyncRead
  BY <1>12 DEF SyncRead, TypeOK
<1>13. ASSUME NEW b \in BOOLEAN, SyncWrite(b) PROVE TypeOK'
  <2>1. agg' \in Snapshot
    BY <1>13, UpdateType DEF SyncWrite, TypeOK
  <2>2. sync' \in [at : {"sleep", "write", "copy", "dispatch"}, upd : [Instance -> Verdict],
                   snap : Snapshot]
    BY <1>13, SyncIdleType DEF SyncWrite
  <2> QED
    BY <1>13, <2>1, <2>2 DEF SyncWrite, TypeOK
<1>14. CASE SyncCopy
  BY <1>14 DEF SyncCopy, TypeOK
<1>15. ASSUME NEW b \in BOOLEAN, SyncDispatch(b) PROVE TypeOK'
  <2>1. sync.snap \in Snapshot
    BY DEF TypeOK
  <2>2. Archive(sync.snap)
    BY <1>15 DEF SyncDispatch
  <2>3. file' \in Snapshot
    BY <1>15, <2>1 DEF SyncDispatch, WriteFile, KeepFile, TypeOK
  <2> QED
    BY <1>15, <2>1, <2>2, <2>3, ArchiveType, SyncIdleType DEF SyncDispatch, TypeOK
<1>16. CASE Stop
  BY <1>16, ZeroType
     DEF Stop, StopSync, StopControl, StopWorker, StopJoin, StopParser, TypeOK
<1>17. CASE UNCHANGED vars
  BY <1>17 DEF vars, TypeOK
<1> QED
  BY <1>1, <1>2, <1>3, <1>4, <1>5, <1>6, <1>7, <1>8, <1>9, <1>10, <1>11, <1>12, <1>13,
     <1>14, <1>15, <1>16, <1>17 DEF Next, Worker, Control, Sync

\* Queues, snapshots and locals keep their types under every interleaving.
THEOREM TypeCorrect == Spec => []TypeOK
BY TypeInit, TypeStep, PTL DEF Spec

-----------------------------------------------------------------------------
(* Order.                                                                  *)

LEMMA ChainInit == Init => Chain
BY ReceiveAssumption
   DEF Init, Chain, ParserNewer, QueueNewer, EngineOlder, BatchOnlyAtFrames, OnceInOrder, NoSnapshot

\* What the order depends on, besides where the worker is.
orderVars == <<sent, can_q, latest, worker.batch, agg.n, seen, ctl_q>>

\* A step that moves no frame and leaves the worker where it holds a batch.
LEMMA ChainKept ==
  ASSUME Chain, UNCHANGED orderVars,
         worker'.at \in {"test", "frames"} \/ \A k \in Key : worker.batch[k] = 0
  PROVE  Chain'
<1>1. ParserNewer' /\ QueueNewer'
  BY DEF Chain, orderVars, ParserNewer, QueueNewer
<1>2. EngineOlder' /\ OnceInOrder'
  BY DEF Chain, orderVars, EngineOlder, OnceInOrder
<1>3. BatchOnlyAtFrames'
  BY DEF Chain, orderVars, BatchOnlyAtFrames
<1> QED
  BY <1>1, <1>2, <1>3 DEF Chain

\* The frames in the two queues.
LEMMA QueuedFrames ==
  ASSUME TypeOK
  PROVE  /\ \A i \in DOMAIN can_q : can_q[i].key \in Key /\ can_q[i].n \in Nat
         /\ \A i \in DOMAIN ctl_q : ctl_q[i].key \in Key /\ ctl_q[i].n \in Nat
<1>1. ASSUME NEW i \in DOMAIN can_q PROVE can_q[i].key \in Key /\ can_q[i].n \in Nat
  <2>1. can_q[i] \in Frame \cup Stray
    BY <1>1 DEF TypeOK
  <2> QED
    BY <2>1, ReceiveAssumption DEF Frame, Stray
<1>2. ASSUME NEW i \in DOMAIN ctl_q PROVE ctl_q[i].key \in Key /\ ctl_q[i].n \in Nat
  <2>1. ctl_q[i] \in Frame
    BY <1>2 DEF TypeOK
  <2> QED
    BY <2>1, ReceiveAssumption DEF Frame
<1> QED
  BY <1>1, <1>2

LEMMA ChainStep == TypeOK /\ Chain /\ [Next]_vars => Chain'
<1> SUFFICES ASSUME TypeOK, Chain, [Next]_vars PROVE Chain'
  OBVIOUS
<1> USE DEF inVars, ctlVars, outVars
<1>1. ASSUME NEW k \in Key, PushCan(k) PROVE Chain'
  <2>1. /\ can_q \in Seq(Frame \cup Stray) /\ sent \in [Key -> Nat] /\ latest \in [Key -> Nat]
        /\ worker.batch \in [Key -> Nat] /\ agg.n \in [Key -> Nat]
    BY ReceiveAssumption DEF TypeOK, Number, Snapshot
  <2>2. /\ sent' = [sent EXCEPT ![k] = @ + 1]
        /\ can_q' = Append(can_q, [key |-> k, n |-> sent[k] + 1])
        /\ UNCHANGED <<latest, worker, agg, seen, ctl_q>>
    BY <1>1, <2>1 DEF PushCan
  <2>3. \A i \in DOMAIN can_q : can_q[i].key \in Key /\ can_q[i].n \in Nat
    BY QueuedFrames
  <2>4. ASSUME NEW j \in DOMAIN can_q, can_q[j].key = k PROVE can_q[j].n < sent[k] + 1
    <3>1. can_q[j].n # 0 => can_q[j].n <= sent[k]
      BY <2>4 DEF Chain, ParserNewer
    <3> QED
      BY <2>1, <2>3, <3>1
  <2>5. QueueNewer'
    BY <2>1, <2>2 DEF Chain, QueueNewer
  <2>6. ParserNewer'
    <3> SUFFICES ASSUME NEW i \in DOMAIN can_q', can_q'[i].n # 0
                 PROVE  /\ can_q'[i].n <= sent'[can_q'[i].key]
                        /\ can_q'[i].n > latest[can_q'[i].key]
                        /\ can_q'[i].n > worker.batch[can_q'[i].key]
                        /\ can_q'[i].n > agg.n[can_q'[i].key]
                        /\ \A j \in 1 .. i - 1 :
                             can_q'[j].key = can_q'[i].key => can_q'[j].n < can_q'[i].n
      BY <2>2 DEF ParserNewer
    <3>1. CASE i \in DOMAIN can_q
      <4>1. can_q'[i] = can_q[i] /\ \A j \in 1 .. i - 1 : j \in DOMAIN can_q /\ can_q'[j] = can_q[j]
        BY <2>1, <2>2, <3>1
      <4> QED
        BY <2>1, <2>2, <2>3, <3>1, <4>1 DEF Chain, ParserNewer
    <3>2. CASE i \notin DOMAIN can_q
      <4>1. /\ i = Len(can_q) + 1 /\ can_q'[i] = [key |-> k, n |-> sent[k] + 1]
            /\ \A j \in 1 .. i - 1 : j \in DOMAIN can_q /\ can_q'[j] = can_q[j]
        BY <2>1, <2>2, <3>2
      <4>2. latest[k] <= sent[k] /\ worker.batch[k] <= sent[k] /\ agg.n[k] <= sent[k]
        BY DEF Chain, QueueNewer
      <4> QED
        BY <2>1, <2>2, <2>4, <4>1, <4>2
    <3> QED
      BY <3>1, <3>2
  <2>7. EngineOlder' /\ OnceInOrder' /\ BatchOnlyAtFrames'
    BY <2>2 DEF Chain, EngineOlder, OnceInOrder, BatchOnlyAtFrames
  <2> QED
    BY <2>5, <2>6, <2>7 DEF Chain
<1>2. ASSUME NEW k \in Key, PushStray(k) PROVE Chain'
  <2>1. can_q \in Seq(Frame \cup Stray)
    BY DEF TypeOK
  <2>2. /\ can_q' = Append(can_q, [key |-> k, n |-> 0])
        /\ UNCHANGED <<sent, latest, worker, agg, seen, ctl_q>>
    BY <1>2 DEF PushStray
  <2>3. \A i \in DOMAIN can_q' :
          can_q'[i].n = 0 \/ (i \in DOMAIN can_q /\ can_q'[i] = can_q[i]
                              /\ \A j \in 1 .. i - 1 : can_q'[j] = can_q[j])
    BY <2>1, <2>2
  <2>4. ParserNewer'
    BY <2>2, <2>3 DEF Chain, ParserNewer
  <2> QED
    BY <2>2, <2>4 DEF Chain, QueueNewer, EngineOlder, OnceInOrder, BatchOnlyAtFrames
<1>3. CASE ParseCan
  <2> DEFINE f == Head(can_q)
  <2>1. /\ can_q \in Seq(Frame \cup Stray) /\ can_q # <<>> /\ can_q' = Tail(can_q)
        /\ sent \in [Key -> Nat] /\ latest \in [Key -> Nat]
        /\ worker.batch \in [Key -> Nat] /\ agg.n \in [Key -> Nat]
        /\ UNCHANGED <<sent, worker, agg, seen, ctl_q>>
    BY <1>3, ReceiveAssumption DEF ParseCan, TypeOK, Number, Snapshot
  <2>2. \A i \in DOMAIN can_q : can_q[i].key \in Key /\ can_q[i].n \in Nat
    BY QueuedFrames
  <2>3. 1 \in DOMAIN can_q /\ f = can_q[1] /\ f.key \in Key /\ f.n \in Nat
    BY <2>1, <2>2
  <2>4. \A i \in DOMAIN can_q' : i + 1 \in DOMAIN can_q /\ can_q'[i] = can_q[i + 1]
    BY <2>1
  <2>5. latest' = IF f.n = 0 THEN latest ELSE [latest EXCEPT ![f.key] = f.n]
    BY <1>3 DEF ParseCan, QueuePush
  <2>6. f.n # 0 => /\ f.n <= sent[f.key] /\ f.n > latest[f.key]
                   /\ f.n > worker.batch[f.key] /\ f.n > agg.n[f.key]
    BY <2>3 DEF Chain, ParserNewer
  <2>7. QueueNewer'
    BY <2>1, <2>3, <2>5, <2>6 DEF Chain, QueueNewer
  <2>8. ParserNewer'
    <3> SUFFICES ASSUME NEW i \in DOMAIN can_q', can_q'[i].n # 0
                 PROVE  /\ can_q'[i].n <= sent[can_q'[i].key]
                        /\ can_q'[i].n > latest'[can_q'[i].key]
                        /\ can_q'[i].n > worker.batch[can_q'[i].key]
                        /\ can_q'[i].n > agg.n[can_q'[i].key]
                        /\ \A j \in 1 .. i - 1 :
                             can_q'[j].key = can_q'[i].key => can_q'[j].n < can_q'[i].n
      BY <2>1 DEF ParserNewer
    <3>1. i + 1 \in DOMAIN can_q /\ can_q'[i] = can_q[i + 1] /\ i \in Nat \ {0}
      BY <2>1, <2>4
    <3>2. /\ can_q'[i].n <= sent[can_q'[i].key]
          /\ can_q'[i].n > latest[can_q'[i].key]
          /\ can_q'[i].n > worker.batch[can_q'[i].key]
          /\ can_q'[i].n > agg.n[can_q'[i].key]
          /\ \A j \in 1 .. i : can_q[j].key = can_q[i + 1].key => can_q[j].n < can_q[i + 1].n
      BY <3>1 DEF Chain, ParserNewer
    <3>3. \A j \in 1 .. i - 1 : can_q'[j] = can_q[j + 1] /\ j + 1 \in 1 .. i
      BY <2>1, <2>4, <3>1
    <3>4. \A j \in 1 .. i - 1 : can_q'[j].key = can_q'[i].key => can_q'[j].n < can_q'[i].n
      BY <3>1, <3>2, <3>3
    <3>5. can_q[1].key = can_q'[i].key => can_q[1].n < can_q'[i].n
      BY <3>1, <3>2
    <3>6. can_q'[i].n > latest'[can_q'[i].key]
      BY <2>1, <2>2, <2>3, <2>5, <3>1, <3>2, <3>5
    <3> QED
      BY <3>2, <3>4, <3>6
  <2>9. EngineOlder' /\ OnceInOrder' /\ BatchOnlyAtFrames'
    BY <2>1 DEF Chain, EngineOlder, OnceInOrder, BatchOnlyAtFrames
  <2> QED
    BY <2>7, <2>8, <2>9 DEF Chain
<1>4. CASE WorkerTake
  <2>1. /\ latest' = [k \in Key |-> 0] /\ worker'.batch = latest /\ worker'.at = "test"
        /\ \A k \in Key : worker.batch[k] = 0
        /\ latest \in [Key -> Nat] /\ sent \in [Key -> Nat] /\ agg.n \in [Key -> Nat]
        /\ UNCHANGED <<sent, can_q, agg, seen, ctl_q>>
    BY <1>4, ReceiveAssumption
       DEF WorkerTake, PopAll, TypeOK, Number, Snapshot, Chain, BatchOnlyAtFrames
  <2>2. \A i \in DOMAIN can_q : can_q[i].key \in Key /\ can_q[i].n \in Nat
    BY QueuedFrames
  <2>3. ParserNewer'
    BY <2>1, <2>2 DEF Chain, ParserNewer
  <2>4. QueueNewer'
    BY <2>1 DEF Chain, QueueNewer
  <2> QED
    BY <2>1, <2>3, <2>4 DEF Chain, EngineOlder, OnceInOrder, BatchOnlyAtFrames
<1>5. CASE WorkerTest
  <2>1. CASE running
    BY <1>5, <2>1, ChainKept DEF WorkerTest, orderVars, TypeOK
  <2>2. CASE ~running
    <3>1. /\ worker'.batch = [k \in Key |-> 0]
          /\ worker.batch \in [Key -> Nat] /\ latest \in [Key -> Nat] /\ sent \in [Key -> Nat]
          /\ agg.n \in [Key -> Nat]
          /\ UNCHANGED <<sent, can_q, latest, agg, seen, ctl_q>>
      BY <1>5, <2>2, ReceiveAssumption DEF WorkerTest, TypeOK, Number, Snapshot
    <3>2. \A i \in DOMAIN can_q : can_q[i].key \in Key /\ can_q[i].n \in Nat
      BY QueuedFrames
    <3>3. ParserNewer'
      BY <3>1, <3>2 DEF Chain, ParserNewer
    <3>4. QueueNewer'
      BY <3>1 DEF Chain, QueueNewer
    <3> QED
      BY <3>1, <3>3, <3>4 DEF Chain, EngineOlder, OnceInOrder, BatchOnlyAtFrames
  <2> QED
    BY <2>1, <2>2
<1>6. ASSUME NEW k \in Key, WorkerFrame(k) PROVE Chain'
  <2> DEFINE n == worker.batch[k]
  <2>1. /\ worker.batch \in [Key -> Nat] /\ n \in Nat /\ n # 0
        /\ latest \in [Key -> Nat] /\ sent \in [Key -> Nat] /\ agg.n \in [Key -> Nat]
        /\ seen \in [Key -> Nat]
        /\ worker'.batch = [worker.batch EXCEPT ![k] = 0] /\ worker'.at = "frames"
        /\ ctl_q' = Append(ctl_q, [key |-> k, n |-> n])
        /\ UNCHANGED <<sent, can_q, latest, seen>>
    <3>1. /\ worker.batch \in [Key -> Nat] /\ latest \in [Key -> Nat]
          /\ sent \in [Key -> Nat] /\ agg.n \in [Key -> Nat] /\ seen \in [Key -> Nat]
      BY ReceiveAssumption DEF TypeOK, Number, Snapshot
    <3>2. /\ n # 0 /\ worker.at = "frames"
          /\ worker' = [worker EXCEPT !.batch[k] = 0]
          /\ ctl_q' = Append(ctl_q, [key |-> k, n |-> n])
          /\ UNCHANGED <<sent, can_q, latest, seen>>
      BY <1>6 DEF WorkerFrame
    <3>3. worker'.batch = [worker.batch EXCEPT ![k] = 0] /\ worker'.at = "frames"
      BY <3>2 DEF TypeOK
    <3> QED
      BY <3>1, <3>2, <3>3
  <2>2. agg'.n = [agg.n EXCEPT ![k] = n]
    BY <1>6 DEF WorkerFrame, AggregateFrame, TypeOK, Snapshot
  <2>3. \A i \in DOMAIN can_q : can_q[i].key \in Key /\ can_q[i].n \in Nat
    BY QueuedFrames
  <2>4. ctl_q \in Seq(Frame) /\ \A i \in DOMAIN ctl_q : ctl_q[i].key \in Key /\ ctl_q[i].n \in Nat
    BY QueuedFrames DEF TypeOK
  <2>5. n > agg.n[k] /\ n <= sent[k]
    BY <2>1 DEF Chain, QueueNewer
  <2>6. ParserNewer'
    <3>1. ASSUME NEW i \in DOMAIN can_q, can_q[i].n # 0
          PROVE  /\ can_q[i].n > worker'.batch[can_q[i].key]
                 /\ can_q[i].n > agg'.n[can_q[i].key]
      <4>1. can_q[i].n > worker.batch[can_q[i].key] /\ can_q[i].n > agg.n[can_q[i].key]
        BY <3>1 DEF Chain, ParserNewer
      <4> QED
        BY <2>1, <2>2, <2>3, <3>1, <4>1
    <3> QED
      BY <2>1, <3>1 DEF Chain, ParserNewer
  <2>7. QueueNewer'
    BY <2>1, <2>2, <2>5 DEF Chain, QueueNewer
  <2>8. \A i \in DOMAIN ctl_q' :
          \/ i \in DOMAIN ctl_q /\ ctl_q'[i] = ctl_q[i]
             /\ \A j \in 1 .. i - 1 : ctl_q'[j] = ctl_q[j]
          \/ ctl_q'[i] = [key |-> k, n |-> n]
             /\ \A j \in 1 .. i - 1 : j \in DOMAIN ctl_q /\ ctl_q'[j] = ctl_q[j]
    BY <2>1, <2>4
  <2>9. EngineOlder'
    <3>1. \A x \in Key : agg.n[x] <= agg'.n[x]
      BY <2>1, <2>2, <2>5
    <3>2. ASSUME NEW x \in Key PROVE seen[x] <= agg'.n[x]
      <4>1. seen[x] <= agg.n[x]
        BY DEF Chain, EngineOlder
      <4> QED
        BY <2>1, <2>2, <3>1, <4>1
    <3>3. ASSUME NEW i \in DOMAIN ctl_q' PROVE ctl_q'[i].n <= agg'.n[ctl_q'[i].key]
      <4>1. CASE i \in DOMAIN ctl_q /\ ctl_q'[i] = ctl_q[i]
        <5>1. ctl_q[i].n <= agg.n[ctl_q[i].key]
          BY <4>1 DEF Chain, EngineOlder
        <5> QED
          BY <2>1, <2>2, <2>4, <3>1, <4>1, <5>1
      <4>2. CASE ctl_q'[i] = [key |-> k, n |-> n]
        BY <2>1, <2>2, <4>2
      <4> QED
        BY <2>8, <4>1, <4>2
    <3> QED
      BY <2>1, <3>2, <3>3 DEF EngineOlder
  <2>10. OnceInOrder'
    <3> SUFFICES ASSUME NEW i \in DOMAIN ctl_q'
                 PROVE  /\ ctl_q'[i].n > seen[ctl_q'[i].key]
                        /\ \A j \in 1 .. i - 1 :
                             ctl_q'[j].key = ctl_q'[i].key => ctl_q'[j].n < ctl_q'[i].n
      BY <2>1 DEF OnceInOrder
    <3>1. CASE i \in DOMAIN ctl_q /\ ctl_q'[i] = ctl_q[i]
               /\ \A j \in 1 .. i - 1 : ctl_q'[j] = ctl_q[j]
      BY <3>1 DEF Chain, OnceInOrder
    <3>2. CASE ctl_q'[i] = [key |-> k, n |-> n]
               /\ \A j \in 1 .. i - 1 : j \in DOMAIN ctl_q /\ ctl_q'[j] = ctl_q[j]
      BY <2>1, <2>4, <2>5, <3>2 DEF Chain, EngineOlder
    <3> QED
      BY <2>8, <3>1, <3>2
  <2> QED
    BY <2>1, <2>6, <2>7, <2>9, <2>10 DEF Chain, BatchOnlyAtFrames
<1>7. CASE WorkerNoTick \/ WorkerTick
  BY <1>7, ChainKept DEF WorkerNoTick, WorkerTick, orderVars, TypeOK
<1>8. ASSUME NEW w \in BOOLEAN, WorkerDispatch(w) PROVE Chain'
  <2>1. \A k \in Key : worker.batch[k] = 0
    BY <1>8 DEF WorkerDispatch, Chain, BatchOnlyAtFrames
  <2> QED
    BY <1>8, <2>1, ChainKept DEF WorkerDispatch, orderVars, TypeOK
<1>9. CASE ControlFrame
  <2> DEFINE f == Head(ctl_q)
  <2>1. /\ ctl_q \in Seq(Frame) /\ ctl_q # <<>> /\ ctl_q' = Tail(ctl_q)
        /\ seen \in [Key -> Nat] /\ agg.n \in [Key -> Nat]
        /\ seen' = [seen EXCEPT ![f.key] = f.n]
        /\ UNCHANGED <<sent, can_q, latest, worker, agg>>
    BY <1>9, ReceiveAssumption DEF ControlFrame, TypeOK, Number, Snapshot
  <2>2. \A i \in DOMAIN ctl_q : ctl_q[i].key \in Key /\ ctl_q[i].n \in Nat
    BY QueuedFrames
  <2>3. 1 \in DOMAIN ctl_q /\ f = ctl_q[1] /\ f.key \in Key /\ f.n \in Nat
    BY <2>1, <2>2
  <2>4. \A i \in DOMAIN ctl_q' : i + 1 \in DOMAIN ctl_q /\ ctl_q'[i] = ctl_q[i + 1] /\ i \in Nat \ {0}
    BY <2>1
  <2>5. EngineOlder'
    BY <2>1, <2>2, <2>3, <2>4 DEF Chain, EngineOlder
  <2>6. OnceInOrder'
    <3> SUFFICES ASSUME NEW i \in DOMAIN ctl_q'
                 PROVE  /\ ctl_q'[i].n > seen'[ctl_q'[i].key]
                        /\ \A j \in 1 .. i - 1 :
                             ctl_q'[j].key = ctl_q'[i].key => ctl_q'[j].n < ctl_q'[i].n
      BY DEF OnceInOrder
    <3>1. /\ ctl_q[i + 1].n > seen[ctl_q[i + 1].key]
          /\ \A j \in 1 .. i : ctl_q[j].key = ctl_q[i + 1].key => ctl_q[j].n < ctl_q[i + 1].n
      BY <2>4 DEF Chain, OnceInOrder
    <3>2. \A j \in 1 .. i - 1 : ctl_q'[j] = ctl_q[j + 1] /\ j + 1 \in 1 .. i
      BY <2>1, <2>4
    <3>3. ctl_q[1].key = ctl_q'[i].key => ctl_q[1].n < ctl_q'[i].n
      BY <2>4, <3>1
    <3>4. \A j \in 1 .. i - 1 : ctl_q'[j].key = ctl_q'[i].key => ctl_q'[j].n < ctl_q'[i].n
      BY <2>4, <3>1, <3>2
    <3>5. ctl_q'[i].n > seen'[ctl_q'[i].key]
      BY <2>1, <2>2, <2>3, <2>4, <3>1, <3>3
    <3> QED
      BY <3>4, <3>5
  <2> QED
    BY <2>1, <2>5, <2>6 DEF Chain, ParserNewer, QueueNewer, BatchOnlyAtFrames
<1>10. CASE \/ \E i \in Instance : ControlTimeout(i)
            \/ SyncRead \/ SyncCopy \/ \E b \in BOOLEAN : SyncDispatch(b)
  <2>1. UNCHANGED orderVars /\ worker' = worker
    BY <1>10 DEF ControlTimeout, SyncRead, SyncCopy, SyncDispatch, orderVars
  <2> QED
    BY <2>1, ChainKept DEF Chain, BatchOnlyAtFrames
<1>11. ASSUME NEW b \in BOOLEAN, SyncWrite(b) PROVE Chain'
  <2>1. agg'.n = agg.n
    BY <1>11 DEF SyncWrite, UpdateRuntimeHealth, TypeOK, Snapshot
  <2>2. UNCHANGED orderVars /\ worker' = worker
    BY <1>11, <2>1 DEF SyncWrite, orderVars
  <2> QED
    BY <2>2, ChainKept DEF Chain, BatchOnlyAtFrames
<1>12. CASE StopSync \/ StopControl \/ StopWorker \/ StopParser
  <2>1. UNCHANGED orderVars /\ worker' = worker
    BY <1>12 DEF StopSync, StopControl, StopWorker, StopParser, orderVars
  <2> QED
    BY <2>1, ChainKept DEF Chain, BatchOnlyAtFrames
<1>13. CASE StopJoin
  <2>1. /\ latest' = [k \in Key |-> 0] /\ latest \in [Key -> Nat] /\ sent \in [Key -> Nat]
        /\ UNCHANGED <<sent, can_q, worker, agg, seen, ctl_q>>
    BY <1>13, ReceiveAssumption DEF StopJoin, TypeOK, Number
  <2>2. \A i \in DOMAIN can_q : can_q[i].key \in Key /\ can_q[i].n \in Nat
    BY QueuedFrames
  <2>3. ParserNewer'
    BY <2>1, <2>2 DEF Chain, ParserNewer
  <2>4. QueueNewer'
    BY <2>1 DEF Chain, QueueNewer
  <2> QED
    BY <2>1, <2>3, <2>4 DEF Chain, EngineOlder, OnceInOrder, BatchOnlyAtFrames
<1>14. CASE UNCHANGED vars
  BY <1>14, ChainKept DEF vars, orderVars, Chain, BatchOnlyAtFrames
<1> QED
  BY <1>1, <1>2, <1>3, <1>4, <1>5, <1>6, <1>7, <1>8, <1>9, <1>10, <1>11, <1>12, <1>13, <1>14
     DEF Next, Worker, Control, Sync, Stop

\* The frames of an id reach the engine once each and in the order received.
THEOREM OnceInOrderAlways == Spec => []OnceInOrder
<1>1. Spec => [](TypeOK /\ Chain)
  BY TypeInit, TypeStep, ChainInit, ChainStep, PTL DEF Spec
<1>2. TypeOK /\ Chain => OnceInOrder
  BY DEF Chain
<1> QED
  BY <1>1, <1>2, PTL
=============================================================================
