--------------------------- MODULE Archive_proofs ---------------------------
(***************************************************************************)
(* The archive, for every set of devices, every number of frames, refused  *)
(* statements and crashes, and whatever tables the database file held      *)
(* before.                                                                 *)
(*                                                                         *)
(* LInv: the types, what a busy thread has in hand, and that one thread at *)
(* a time is in the sinks.                                                 *)
(*                                                                         *)
(* Whole snapshots.  SnapshotComplete alone is not inductive: Committed    *)
(* adds that the main rows number the snapshots, so the next number is     *)
(* new, and Transaction says what the open transaction holds after each    *)
(* statement.  A commit then adds a whole snapshot under a new number, and *)
(* a refused statement or a crash adds nothing.                            *)
(*                                                                         *)
(* Readings.  Brought: a reading that is not archived is the one onParsed  *)
(* is carrying, and it does not return before the sinks were called.       *)
(* Remembered: what the change cache remembers is archived, or about to be *)
(* written by the open transaction; so a reading that is not written       *)
(* because it "did not change" is in the archive.  Copies: a gas channel   *)
(* other than the last answer's, which the sink passes over, was archived  *)
(* by the snapshot before.                                                 *)
(*                                                                         *)
(* The log.  Held gives the rows of the open transaction exactly, where    *)
(* Transaction only counts them: those of the snapshot handed in, for the  *)
(* devices written so far.  Numbered says which numbers are taken, and a   *)
(* commit is then an append to the abstract log.                           *)
(***************************************************************************)
EXTENDS Archive, TLAPS, FiniteSetTheorems, WellFoundedInduction

At == {"idle", "aggregate", "merge", "health", "snapshot", "dispatch", "sinks"}
Snapshots == {s \in [Device -> UNION {ItemType(d) : d \in Device}] : \A d \in Device : s[d] \in ItemType(d)}
AnyAnswer == (UNION {Answers(d) : d \in Device}) \cup {Nothing}
ThreadType == [at : At, dev : Device \cup {"none"}, grp : AnyAnswer,
               merges : 0 .. 2, ctx : Health, snap : Snapshots]
SinkType == [at : {"idle", "collect", "main", "health", "devices"}, by : Thread \cup {"none"},
             changed : SUBSET Device, todo : SUBSET Device, id : Nat]

\* What the types of the parts are, for the threads what they work on.
Types ==
  /\ frame \in 0 .. MaxFrame /\ sched \in [Device -> Health] /\ item \in Snapshots
  /\ thread \in [Thread -> ThreadType] /\ sink \in SinkType
  /\ file.history \in 0 .. MaxFrame /\ file.pending \in BOOLEAN
  /\ fails \in 0 .. MaxFail /\ crashes \in 0 .. MaxCrash

Busy ==
  \A t \in Thread :
    /\ thread[t].at # "idle" => thread[t].dev \in Device /\ thread[t].merges \in 1 .. 2
    /\ thread[t].at = "aggregate" => t = "parser" /\ thread[t].grp \in Answers(thread[t].dev)

\* dispatch_mtx_.
Mutex ==
  /\ sink.todo \subseteq sink.changed
  /\ \A t \in Thread : thread[t].at = "sinks" <=> sink.at # "idle" /\ sink.by = t
  /\ sink.at # "idle" => sink.by \in Thread

LInv == Types /\ Busy /\ Mutex

\* The strengthened invariant carries the type invariant.
LEMMA InvImpliesTypeOK == LInv => TypeOK
<1> SUFFICES ASSUME LInv PROVE TypeOK
  OBVIOUS
<1>1. \A s \in Snapshots : SnapshotOK(s)
  BY DEF Snapshots, SnapshotOK, ItemTypes
<1>2. \A t \in Thread : thread[t] \in ThreadType
  BY DEF LInv, Types
<1>3. {t \in Thread : thread[t].at = "sinks"} = (IF sink.at = "idle" THEN {} ELSE {sink.by})
  BY DEF LInv, Mutex
<1>4. \A t \in Thread : /\ thread[t].at \in At
                        /\ thread[t].dev \in Device \cup {"none"} /\ thread[t].merges \in 0 .. 2
                        /\ thread[t].ctx \in Health /\ SnapshotOK(thread[t].snap)
  BY <1>1, <1>2 DEF ThreadType
<1>5. /\ sink.at \in {"idle", "collect", "main", "health", "devices"}
      /\ sink.by \in Thread \cup {"none"} /\ sink.todo \subseteq sink.changed /\ sink.changed \subseteq Device
  BY DEF LInv, Mutex, Types, SinkType
<1> QED
  BY <1>1, <1>3, <1>4, <1>5 DEF LInv, Types, TypeOK, At

-----------------------------------------------------------------------------
(* The items.                                                              *)

\* The empty snapshot is a snapshot.
LEMMA NoSnapType == NoSnap \in Snapshots
<1>1. \A d \in Device : NoItem(d) \in ItemType(d)
  BY ArchiveAssumption DEF NoItem, ItemType, Health, NoHealth
<1> QED
  BY <1>1 DEF NoSnap, Snapshots

\* The health of a device never heard from is a health record.
LEMMA NoHealthType == NoHealth \in Health
BY ArchiveAssumption DEF Health, NoHealth

\* Every PCU has a group for the mirrored control frame.
LEMMA PcuCtrl == \A d \in Pcu : "ctrl" \in Groups(d)
BY DEF Groups, Pcu

\* An answer brings one group of its device, or nothing.
LEMMA AnswersGroups == \A d : Answers(d) \subseteq Groups(d) \cup {Nothing}
BY DEF Answers

\* Replacing one item keeps a snapshot a snapshot.
LEMMA ItemReplaced ==
  ASSUME NEW s \in Snapshots, NEW d \in Device, NEW x \in ItemType(d)
  PROVE  [s EXCEPT ![d] = x] \in Snapshots
BY DEF Snapshots

\* What aggregating an answer leaves in an item is an item.
LEMMA ReadingType ==
  ASSUME NEW d \in Device, NEW it \in ItemType(d), NEW g \in Groups(d) \cup {Nothing},
         frame \in 0 .. MaxFrame
  PROVE  [WithReading(it, g) EXCEPT !.health.online = TRUE, !.health.ok = frame] \in ItemType(d)
<1>1. it.grp \in [Groups(d) -> 0 .. MaxFrame] /\ it.health \in Health
  BY DEF ItemType
<1>2. (IF g = Nothing THEN it.grp ELSE [it.grp EXCEPT ![g] = frame]) \in [Groups(d) -> 0 .. MaxFrame]
  BY <1>1
<1>3. WithReading(it, g) \in ItemType(d)
  BY <1>2 DEF WithReading, ItemType
<1>4. [it.health EXCEPT !.online = TRUE, !.ok = frame] \in Health
  BY <1>1 DEF Health
<1>5. WithReading(it, g).health = it.health
  BY DEF WithReading, ItemType
<1> QED
  BY <1>3, <1>4, <1>5 DEF ItemType, Health

\* A bounded set of numbers that is not empty has a largest one.
LEMMA Largest ==
  ASSUME NEW m \in Nat, NEW T \in SUBSET (0 .. m), T # {}
  PROVE  \E n \in T : \A k \in T : k <= n
<1> DEFINE U == {m - n : n \in T}
<1>1. \A n \in T : n \in Nat /\ m - n \in Nat /\ m - n \in U
  OBVIOUS
<1>2. U \subseteq Nat /\ U # {}
  BY <1>1
<1>3. PICK x \in U : \A y \in U : ~ (<<y, x>> \in OpToRel(<, Nat))
  <2> HIDE DEF U
  <2> QED
    BY <1>2, NatLessThanWellFounded, WFMin
<1>4. \A y \in U : ~(y < x)
  BY <1>2, <1>3 DEF OpToRel
<1>5. PICK n \in T : x = m - n
  OBVIOUS
<1>6. ASSUME NEW k \in T PROVE k <= n
  <2>1. ~(m - k < m - n)
    BY <1>1, <1>4, <1>5
  <2> QED
    BY <1>1, <2>1
<1> QED
  BY <1>6

\* The newest stamp of a snapshot is the number of a frame.
LEMMA NewestType == \A s \in Snapshots : Device # {} => Newest(s) \in 0 .. MaxFrame
<1> SUFFICES ASSUME NEW s \in Snapshots, Device # {} PROVE Newest(s) \in 0 .. MaxFrame
  OBVIOUS
<1> DEFINE T == {s[d].ts : d \in Device}
<1>1. \A d \in Device : s[d].ts \in 0 .. MaxFrame
  BY DEF Snapshots, ItemType
<1>2. T \in SUBSET (0 .. MaxFrame) /\ T # {}
  BY <1>1
<1>3. \E n \in T : \A k \in T : k <= n
  <2> HIDE DEF T
  <2> QED
    BY <1>2, Largest, ArchiveAssumption
<1>4. \E n \in T : \A d \in Device : s[d].ts <= n
  BY <1>3
<1> QED
  BY <1>2, <1>4 DEF Newest

-----------------------------------------------------------------------------
(* Types, step by step.                                                    *)

\* The initial state satisfies the invariant of the threads.
LEMMA TypesInit == Init => LInv
<1> SUFFICES ASSUME Init PROVE LInv
  OBVIOUS
<1>1. IdleThread \in ThreadType
  <2>1. "none" \in Device \cup {"none"} /\ Nothing \in AnyAnswer
    BY DEF AnyAnswer
  <2>2. "idle" \in At /\ 0 \in 0 .. 2
    BY DEF At
  <2> QED
    BY <2>1, <2>2, NoSnapType, NoHealthType DEF IdleThread, ThreadType
<1>2. IdleSink \in SinkType
  BY DEF IdleSink, SinkType
<1>3. Types
  BY <1>1, <1>2, NoSnapType, NoHealthType, ArchiveAssumption DEF Init, Types, NoFile
<1>4. Busy /\ Mutex
  BY DEF Init, Busy, Mutex, IdleThread, IdleSink
<1> QED
  BY <1>3, <1>4 DEF LInv

\* onParsed starts with a frame and a device in hand.
LEMMA AnswerTypes ==
  ASSUME LInv, NEW d \in Device, NEW g \in Answers(d), Answer(d, g) PROVE LInv'
<1>1. frame' \in 0 .. MaxFrame /\ frame' = frame + 1
  BY ArchiveAssumption DEF LInv, Types, Answer
<1>2. sched' \in [Device -> Health]
  BY <1>1 DEF LInv, Types, Answer, Health
<1> DEFINE m == IF sched[d].online THEN 1 ELSE 2
<1>3. /\ thread' = [thread EXCEPT !["parser"] =
                     [at |-> "aggregate", dev |-> d, grp |-> g, merges |-> m, ctx |-> NoHealth,
                      snap |-> NoSnap]]
      /\ m \in 1 .. 2
  BY DEF Answer
<1> HIDE DEF m
<1>4. [at |-> "aggregate", dev |-> d, grp |-> g, merges |-> m, ctx |-> NoHealth, snap |-> NoSnap]
        \in ThreadType
  <2>1. g \in AnyAnswer
    BY DEF AnyAnswer
  <2> QED
    BY <1>3, <2>1, NoSnapType, NoHealthType DEF ThreadType, At
<1>5. Types'
  BY <1>1, <1>2, <1>3, <1>4 DEF LInv, Types, Answer, Thread
<1>6. Busy'
  BY <1>3 DEF LInv, Types, Busy, Thread
<1>7. Mutex'
  <2>1. thread["parser"].at = "idle" /\ sink' = sink
    BY DEF Answer
  <2> QED
    BY <1>3, <2>1 DEF LInv, Types, Mutex, Thread
<1> QED
  BY <1>5, <1>6, <1>7 DEF LInv

\* A step of one thread that leaves its work and the sinks alone.
LEMMA ThreadMoves ==
  ASSUME LInv, NEW t \in Thread, NEW r \in ThreadType, r.at \notin {"idle", "aggregate", "sinks"},
         r.dev = thread[t].dev, r.merges = thread[t].merges, thread[t].at \notin {"idle", "sinks"},
         thread' = [thread EXCEPT ![t] = r], sink' = sink
  PROVE  thread' \in [Thread -> ThreadType] /\ Busy' /\ Mutex'
<1>1. thread \in [Thread -> ThreadType]
  BY DEF LInv, Types
<1>2. /\ thread' \in [Thread -> ThreadType] /\ thread'[t] = r
      /\ \A u \in Thread \ {t} : thread'[u] = thread[u]
  BY <1>1
<1>3. Busy'
  BY <1>2 DEF LInv, Busy
<1>4. Mutex'
  BY <1>2 DEF LInv, Mutex
<1> QED
  BY <1>2, <1>3, <1>4

\* A thread that moves on, and takes or lays down a copy of a device's health or of the
\* snapshot, keeps its types, its device and the mutex.
LEMMA CopyMoves ==
  ASSUME LInv, NEW t \in Thread, NEW a \in At \ {"idle", "aggregate", "sinks"}, NEW c \in Health,
         NEW s \in Snapshots, thread[t].at \notin {"idle", "sinks"},
         \/ thread' = [thread EXCEPT ![t].at = a]
         \/ thread' = [thread EXCEPT ![t].at = a, ![t].ctx = c]
         \/ thread' = [thread EXCEPT ![t].at = a, ![t].snap = s],
         sink' = sink
  PROVE  thread' \in [Thread -> ThreadType] /\ Busy' /\ Mutex'
<1>1. thread \in [Thread -> ThreadType] /\ thread[t] \in ThreadType
  BY DEF LInv, Types
<1>2. CASE thread' = [thread EXCEPT ![t].at = a]
  <2> DEFINE r == [thread[t] EXCEPT !.at = a]
  <2>1. r \in ThreadType /\ r.at = a /\ r.dev = thread[t].dev /\ r.merges = thread[t].merges
    BY <1>1 DEF ThreadType
  <2>2. thread' = [thread EXCEPT ![t] = r]
    BY <1>1, <1>2
  <2> HIDE DEF r
  <2> QED
    BY <2>1, <2>2, ThreadMoves
<1>3. CASE thread' = [thread EXCEPT ![t].at = a, ![t].ctx = c]
  <2> DEFINE r == [thread[t] EXCEPT !.at = a, !.ctx = c]
  <2>1. r \in ThreadType /\ r.at = a /\ r.dev = thread[t].dev /\ r.merges = thread[t].merges
    BY <1>1 DEF ThreadType
  <2>2. thread' = [thread EXCEPT ![t] = r]
    BY <1>1, <1>3
  <2> HIDE DEF r
  <2> QED
    BY <2>1, <2>2, ThreadMoves
<1>4. CASE thread' = [thread EXCEPT ![t].at = a, ![t].snap = s]
  <2> DEFINE r == [thread[t] EXCEPT !.at = a, !.snap = s]
  <2>1. r \in ThreadType /\ r.at = a /\ r.dev = thread[t].dev /\ r.merges = thread[t].merges
    BY <1>1 DEF ThreadType
  <2>2. thread' = [thread EXCEPT ![t] = r]
    BY <1>1, <1>4
  <2> HIDE DEF r
  <2> QED
    BY <2>1, <2>2, ThreadMoves
<1> QED
  BY <1>2, <1>3, <1>4

\* The aggregator writes one item.
LEMMA AggregateTypes == LInv /\ Aggregate => LInv'
<1> SUFFICES ASSUME LInv, Aggregate PROVE LInv'
  OBVIOUS
<1> DEFINE p == thread["parser"]
<1>1. p.dev \in Device /\ p.grp \in Groups(p.dev) \cup {Nothing} /\ p.at = "aggregate"
  BY AnswersGroups DEF LInv, Busy, Aggregate, Thread
<1>2. item[p.dev] \in ItemType(p.dev)
  BY <1>1 DEF LInv, Types, Snapshots
<1>3. item' \in Snapshots
  BY <1>1, <1>2, ReadingType, ItemReplaced DEF LInv, Types, Aggregate
<1>4. thread' = [thread EXCEPT !["parser"].at = "merge"] /\ sink' = sink
  BY DEF Aggregate
<1>5. thread' \in [Thread -> ThreadType] /\ Busy' /\ Mutex'
  BY <1>1, <1>4, NoHealthType, NoSnapType, CopyMoves DEF At, Thread
<1> QED
  BY <1>3, <1>5 DEF LInv, Types, Aggregate

\* A mirrored PCU command writes one item.
LEMMA MirrorTypes == ASSUME LInv, NEW d \in Device, d \in Pcu, Mirror(d) PROVE LInv'
<1>1. frame' \in 0 .. MaxFrame
  BY ArchiveAssumption DEF LInv, Types, Mirror
<1>2. item[d] \in ItemType(d) /\ "ctrl" \in Groups(d)
  BY PcuCtrl DEF LInv, Types, Snapshots
<1>3. [item[d].grp EXCEPT !["ctrl"] = frame'] \in [Groups(d) -> 0 .. MaxFrame]
  BY <1>1, <1>2 DEF ItemType
<1>4. [item[d] EXCEPT !.grp = [item[d].grp EXCEPT !["ctrl"] = frame'], !.ts = frame'] \in ItemType(d)
  BY <1>1, <1>2, <1>3 DEF ItemType
<1>5. item' = [item EXCEPT ![d] = [item[d] EXCEPT !.grp = [item[d].grp EXCEPT !["ctrl"] = frame'], !.ts = frame']]
  BY <1>2 DEF Mirror, LInv, Types, Snapshots, ItemType
<1>6. item' \in Snapshots
  BY <1>4, <1>5, ItemReplaced DEF LInv, Types
<1>7. Types'
  BY <1>1, <1>6 DEF Mirror, LInv, Types
<1>8. Busy' /\ Mutex'
  BY DEF Mirror, LInv, Busy, Mutex
<1> QED
  BY <1>7, <1>8 DEF LInv

\* The health callback starts with a device in hand.
LEMMA GoesOfflineTypes == ASSUME LInv, NEW d \in Device, GoesOffline(d) PROVE LInv'
<1>1. sched' \in [Device -> Health]
  BY ArchiveAssumption DEF LInv, Types, GoesOffline, Health
<1>2. thread \in [Thread -> ThreadType] /\ thread["timer"].at = "idle" /\ sink' = sink
  BY DEF LInv, Types, GoesOffline
<1> DEFINE r == [thread["timer"] EXCEPT !.at = "merge", !.dev = d, !.merges = 1]
<1>3. thread' = [thread EXCEPT !["timer"] = r]
  <2>1. DOMAIN thread = Thread /\ "timer" \in Thread
    BY <1>2 DEF Thread
  <2> QED
    BY <2>1 DEF GoesOffline
<1>7. r \in ThreadType /\ r.at = "merge" /\ r.dev = d /\ r.merges = 1
  <2>1. thread["timer"] \in ThreadType /\ 1 \in 0 .. 2
    BY <1>2 DEF Thread
  <2> QED
    BY <2>1 DEF ThreadType, At
<1> HIDE DEF r
<1>4. /\ thread' \in [Thread -> ThreadType]
      /\ thread'["timer"].at = "merge" /\ thread'["timer"].dev = d /\ thread'["timer"].merges = 1
      /\ thread'["parser"] = thread["parser"]
  BY <1>2, <1>3, <1>7 DEF Thread
<1>5. Busy'
  BY <1>4 DEF LInv, Busy, Thread
<1>6. Mutex'
  BY <1>2, <1>4 DEF LInv, Mutex, Thread
<1> QED
  BY <1>1, <1>4, <1>5, <1>6 DEF LInv, Types, GoesOffline

\* A thread copies the health of the device in hand.
LEMMA ReadHealthTypes == ASSUME LInv, NEW t \in Thread, ReadHealth(t) PROVE LInv'
<1>1. thread[t].at = "merge" /\ thread[t].dev \in Device
  BY DEF ReadHealth, LInv, Busy
<1>2. sched[thread[t].dev] \in Health
  BY <1>1 DEF LInv, Types
<1>3. thread' \in [Thread -> ThreadType] /\ Busy' /\ Mutex'
  BY <1>1, <1>2, NoSnapType, CopyMoves DEF At, ReadHealth
<1> QED
  BY <1>3 DEF LInv, Types, ReadHealth

\* A merge of health writes the item of the device in hand.
LEMMA MergeTypes == ASSUME LInv, NEW t \in Thread, Merge(t) PROVE LInv'
<1> DEFINE d == thread[t].dev
           h == thread[t].ctx
<1>1. thread[t].at = "health" /\ d \in Device
  BY DEF Merge, LInv, Busy
<1>2. item[d] \in ItemType(d) /\ h \in Health
  BY <1>1 DEF LInv, Types, Snapshots, ThreadType
<1>3. [item[d] EXCEPT !.health = h] \in ItemType(d)
  BY <1>2 DEF ItemType
<1>4. item' = [item EXCEPT ![d] = [item[d] EXCEPT !.health = h]]
  BY DEF Merge
<1>5. item' \in Snapshots
  BY <1>1, <1>3, <1>4, ItemReplaced DEF LInv, Types
<1>6. thread' \in [Thread -> ThreadType] /\ Busy' /\ Mutex'
  BY <1>1, NoHealthType, NoSnapType, CopyMoves DEF At, Merge
<1> QED
  BY <1>5, <1>6 DEF LInv, Types, Merge

\* A thread takes its copy of the snapshot.
LEMMA TakeSnapshotTypes == ASSUME LInv, NEW t \in Thread, TakeSnapshot(t) PROVE LInv'
<1>1. thread' \in [Thread -> ThreadType] /\ Busy' /\ Mutex'
  BY NoHealthType, CopyMoves DEF At, TakeSnapshot, LInv, Types
<1> QED
  BY <1>1 DEF LInv, Types, TakeSnapshot

\* The file sink runs under dispatch_mtx_ and hands over to the archive.
LEMMA FileTypes == ASSUME LInv, NEW t \in Thread, NEW due \in BOOLEAN, FileOnSnapshot(t, due) PROVE LInv'
<1>1. /\ thread \in [Thread -> ThreadType] /\ thread[t].at = "dispatch" /\ sink.at = "idle"
      /\ thread' = [thread EXCEPT ![t].at = "sinks"]
      /\ sink' = [at |-> "collect", by |-> t, changed |-> {}, todo |-> {}, id |-> 0]
  BY DEF LInv, Types, FileOnSnapshot, IdleSink
<1>2. /\ thread' \in [Thread -> ThreadType] /\ thread'[t].at = "sinks"
      /\ thread'[t].dev = thread[t].dev /\ thread'[t].merges = thread[t].merges
      /\ \A u \in Thread \ {t} : thread'[u] = thread[u]
  BY <1>1 DEF ThreadType, At
<1>3. /\ sink' \in SinkType /\ sink'.at = "collect" /\ sink'.by = t
      /\ sink'.todo = {} /\ sink'.changed = {}
  BY <1>1 DEF SinkType
<1>4. Busy' /\ Mutex'
  BY <1>1, <1>2, <1>3 DEF LInv, Busy, Mutex
<1>5. file'.history \in 0 .. MaxFrame /\ file'.pending \in BOOLEAN
  <2> DEFINE s == thread[t].snap
             key == [d \in Device |-> FileKey(d, s[d])]
  <2>1. CASE Changed(file.cache, key, s) = {}
    BY <2>1 DEF LInv, Types, FileOnSnapshot
  <2>2. CASE Changed(file.cache, key, s) # {}
    <3>1. Device # {} /\ s \in Snapshots
      BY <1>1, <2>2 DEF Changed, Known, ThreadType
    <3>2. Newest(s) \in 0 .. MaxFrame
      BY <3>1, NewestType
    <3>3. /\ file'.history = IF AllowHistory(s) THEN Newest(s) ELSE file.history
          /\ file'.pending = ~due
      BY <2>2 DEF FileOnSnapshot
    <3>4. file.history \in 0 .. MaxFrame
      BY DEF LInv, Types
    <3> QED
      BY <3>2, <3>3, <3>4
  <2> QED
    BY <2>1, <2>2
<1> QED
  BY <1>2, <1>3, <1>4, <1>5 DEF LInv, Types, FileOnSnapshot

\* The end of a dispatch: the thread goes on, the mutex is free.
LEMMA ReturnTypes ==
  ASSUME LInv, sink.at # "idle", Return
  PROVE  /\ thread' \in [Thread -> ThreadType] /\ sink' \in SinkType /\ Busy' /\ Mutex'
         /\ sink' = IdleSink /\ sink.by \in Thread
         /\ \A u \in Thread \ {sink.by} : thread'[u] = thread[u]
         /\ \/ thread'[sink.by] = [thread[sink.by] EXCEPT !.at = "merge", !.merges = thread[sink.by].merges - 1, !.snap = NoSnap]
            \/ thread'[sink.by] = IdleThread
<1> DEFINE t == sink.by
<1>1. t \in Thread /\ thread[t].at = "sinks"
  BY DEF LInv, Mutex
<1>2. thread \in [Thread -> ThreadType] /\ thread[t] \in ThreadType
  BY <1>1 DEF LInv, Types
<1>3. thread[t].merges \in 1 .. 2 /\ thread[t].dev \in Device
  BY <1>1 DEF LInv, Busy
<1> DEFINE r == IF thread[t].merges > 1
                THEN [thread[t] EXCEPT !.at = "merge", !.merges = thread[t].merges - 1, !.snap = NoSnap]
                ELSE IdleThread
<1>4. thread' = [thread EXCEPT ![t] = r] /\ sink' = IdleSink
  BY DEF Return
<1>5. IdleThread \in ThreadType /\ IdleThread.at = "idle"
  <2>1. "none" \in Device \cup {"none"} /\ Nothing \in AnyAnswer
    BY DEF AnyAnswer
  <2> QED
    BY <2>1, NoSnapType, NoHealthType DEF IdleThread, ThreadType, At
<1>6. r \in ThreadType /\ (r.at = "idle" \/ (r.at = "merge" /\ r.dev = thread[t].dev /\ r.merges \in 1 .. 2))
  <2>1. CASE thread[t].merges > 1
    <3>1. thread[t].merges - 1 = 1
      BY <1>3, <2>1
    <3>2. r = [thread[t] EXCEPT !.at = "merge", !.merges = 1, !.snap = NoSnap]
      BY <2>1, <3>1
    <3> HIDE DEF r
    <3> QED
      <4>1. "merge" \in At /\ 1 \in 0 .. 2
        BY DEF At
      <4>2. r \in ThreadType
        BY <1>2, <3>2, <4>1, NoSnapType DEF ThreadType
      <4>3. r.at = "merge" /\ r.dev = thread[t].dev /\ r.merges = 1
        BY <1>2, <3>2 DEF ThreadType
      <4> QED
        BY <4>2, <4>3
  <2>2. CASE ~(thread[t].merges > 1)
    BY <1>5, <2>2
  <2> QED
    BY <2>1, <2>2
<1>7. \/ r = [thread[t] EXCEPT !.at = "merge", !.merges = thread[t].merges - 1, !.snap = NoSnap]
      \/ r = IdleThread
  OBVIOUS
<1> HIDE DEF r
<1>8. /\ thread' \in [Thread -> ThreadType] /\ thread'[t] = r
      /\ \A u \in Thread \ {t} : thread'[u] = thread[u]
  BY <1>1, <1>2, <1>4, <1>6
<1>9. sink' \in SinkType /\ sink'.at = "idle" /\ sink'.todo = {} /\ sink'.changed = {}
  BY <1>4 DEF IdleSink, SinkType
<1>10. Busy'
  BY <1>1, <1>3, <1>6, <1>8 DEF LInv, Busy
<1>11. Mutex'
  BY <1>1, <1>6, <1>8, <1>9 DEF LInv, Mutex
<1> QED
  BY <1>1, <1>4, <1>7, <1>8, <1>9, <1>10, <1>11

\* A statement moves the sink on and leaves the threads alone.
LEMMA SinkMoves ==
  ASSUME LInv, sink.at # "idle", sink' \in SinkType, sink'.at # "idle", sink'.by = sink.by,
         sink'.todo \subseteq sink'.changed, thread' = thread
  PROVE  thread' \in [Thread -> ThreadType] /\ Busy' /\ Mutex'
BY DEF LInv, Types, Busy, Mutex

\* A refusal is counted within its bound.
LEMMA FailsType ==
  ASSUME LInv, NEW refused \in BOOLEAN, refused => fails < MaxFail,
         fails' = IF refused THEN fails + 1 ELSE fails
  PROVE  fails' \in 0 .. MaxFail
BY ArchiveAssumption DEF LInv, Types

\* BEGIN names the devices that changed.
LEMMA BeginTypes == ASSUME LInv, NEW refused \in BOOLEAN, Begin(refused) PROVE LInv'
<1> DEFINE key == [d \in Device |-> StateKey(d, snap[d])]
           changed == Changed(cache, key, snap)
<1>1. sink.at = "collect" /\ fails' \in 0 .. MaxFail /\ UNCHANGED <<frame, sched, item, file, crashes>>
  BY FailsType DEF Begin
<1>2. changed \subseteq Device
  BY DEF Changed, Known
<1> HIDE DEF changed
<1>3. CASE Return
  BY <1>1, <1>3, ReturnTypes DEF LInv, Types
<1>4. CASE sink' = [sink EXCEPT !.at = "main", !.changed = changed, !.todo = changed] /\ thread' = thread
  <2>1. /\ sink' \in SinkType /\ sink'.at = "main" /\ sink'.by = sink.by
        /\ sink'.todo = changed /\ sink'.changed = changed
    BY <1>2, <1>4 DEF LInv, Types, SinkType
  <2>2. thread' \in [Thread -> ThreadType] /\ Busy' /\ Mutex'
    BY <1>1, <1>4, <2>1, SinkMoves
  <2> QED
    BY <1>1, <2>1, <2>2 DEF LInv, Types
<1> QED
  BY <1>3, <1>4 DEF Begin, Rollback, changed

\* A statement keeps the sink and the mutex.
LEMMA InsertTypes ==
  ASSUME LInv, NEW refused \in BOOLEAN, NEW R, NEW n \in SinkType, sink.at # "idle",
         n.at # "idle", n.by = sink.by, n.todo \subseteq n.changed, Insert(R, refused, n)
  PROVE  LInv'
<1>1. fails' \in 0 .. MaxFail /\ UNCHANGED <<frame, sched, item, file, crashes>>
  BY FailsType DEF Insert
<1>2. CASE Return
  BY <1>1, <1>2, ReturnTypes DEF LInv, Types
<1>3. CASE sink' = n /\ thread' = thread
  BY <1>1, <1>3, SinkMoves DEF LInv, Types
<1> QED
  BY <1>2, <1>3 DEF Insert, Rollback

\* What the statements leave in the sink is of its type.
LEMMA SinkSteps ==
  ASSUME LInv
  PROVE  /\ sink \in SinkType /\ sink.todo \subseteq sink.changed
         /\ NextId \in Nat => [sink EXCEPT !.at = "health", !.id = NextId] \in SinkType
         /\ [sink EXCEPT !.at = "devices"] \in SinkType
         /\ \A d : [sink EXCEPT !.todo = @ \ {d}] \in SinkType
BY DEF LInv, Types, Mutex, SinkType

\* COMMIT gives the mutex back.
LEMMA CommitTypes == ASSUME LInv, NEW refused \in BOOLEAN, Commit(refused) PROVE LInv'
<1>1. /\ sink.at = "devices" /\ Return /\ fails' \in 0 .. MaxFail
      /\ UNCHANGED <<frame, sched, item, file, crashes>>
  BY FailsType DEF Commit, Rollback
<1> QED
  BY <1>1, ReturnTypes DEF LInv, Types

\* A crash leaves the threads idle.
LEMMA CrashTypes == LInv /\ Crash => LInv'
<1> SUFFICES ASSUME LInv, Crash PROVE LInv'
  OBVIOUS
<1>1. IdleThread \in ThreadType /\ IdleThread.at = "idle"
  <2>1. "none" \in Device \cup {"none"} /\ Nothing \in AnyAnswer
    BY DEF AnyAnswer
  <2> QED
    BY <2>1, NoSnapType, NoHealthType DEF IdleThread, ThreadType, At
<1>2. IdleSink \in SinkType /\ IdleSink.at = "idle" /\ IdleSink.todo = {}
  BY DEF IdleSink, SinkType
<1>3. crashes' \in 0 .. MaxCrash /\ file'.history \in 0 .. MaxFrame /\ file'.pending \in BOOLEAN
  BY ArchiveAssumption DEF LInv, Types, Crash, NoFile
<1>4. Types'
  BY <1>1, <1>2, <1>3, NoSnapType, NoHealthType DEF LInv, Types, Crash
<1>5. Busy' /\ Mutex'
  BY <1>1, <1>2 DEF Crash, Busy, Mutex
<1> QED
  BY <1>4, <1>5 DEF LInv

-----------------------------------------------------------------------------
(* Whole snapshots.                                                        *)

MainRows(D) == {r \in D : r.row.table = "snapshot_main"}
HealthOf(D) == {r \in D : r.row.table = "device_health"}

\* What is committed: main rows number the snapshots, and each snapshot is whole.
Committed ==
  /\ IsFiniteSet(MainRows(db))
  /\ \A r \in db : r.snap \in 1 .. Cardinality(MainRows(db))
  /\ SnapshotComplete

\* What the open transaction holds, statement by statement: the next snapshot's rows.
Transaction ==
  /\ sink.at \notin {"health", "devices"} => tx = {}
  /\ sink.at \in {"health", "devices"} =>
       /\ sink.id = NextId
       /\ \A r \in tx : r.snap = sink.id
       /\ MainRows(tx) = {[snap |-> sink.id, row |-> MainRow(snap)]}
       /\ HealthOf(tx) = IF sink.at = "health" THEN {}
                         ELSE {[snap |-> sink.id, row |-> r] : r \in HealthRows(snap)}

WholeInv == LInv /\ Committed /\ Transaction

\* There are finitely many devices.
LEMMA DeviceFinite == IsFiniteSet(Device)
<1> DEFINE B == {"GasDetector"} \cup {"SmokeSensor"}
           C == B \cup {"UPS"}
           D == C \cup {"AirConditioner"}
           E == D \cup {"PCU_0"}
           All == E \cup {"PCU_1"}
<1>1. Device \in SUBSET All
  BY ArchiveAssumption
<1>2. IsFiniteSet(B)
  BY FS_Singleton, FS_AddElement
<1> HIDE DEF B
<1>3. IsFiniteSet(C)
  BY <1>2, FS_AddElement
<1> HIDE DEF C
<1>4. IsFiniteSet(D)
  BY <1>3, FS_AddElement
<1> HIDE DEF D
<1>5. IsFiniteSet(E)
  BY <1>4, FS_AddElement
<1> HIDE DEF E
<1>6. IsFiniteSet(All)
  BY <1>5, FS_AddElement
<1> HIDE DEF All
<1> QED
  BY <1>1, <1>6, FS_Subset

\* insertDeviceHealth_ writes one row per device the snapshot knows.
LEMMA HealthRowPerDevice ==
  ASSUME NEW s, NEW n
  PROVE  Cardinality({[snap |-> n, row |-> r] : r \in HealthRows(s)}) = Cardinality(Known(s))
<1> DEFINE H(d) == Row("device_health", d, IF s[d].health.online THEN "online" ELSE "offline", s[d].health.ok)
           T == {[snap |-> n, row |-> r] : r \in HealthRows(s)}
           f == [d \in Known(s) |-> [snap |-> n, row |-> H(d)]]
<1>1. IsFiniteSet(Known(s))
  <2>1. Known(s) \in SUBSET Device
    BY DEF Known
  <2> QED
    BY <2>1, DeviceFinite, FS_Subset
<1>2. \A d : H(d).dev = d
  BY DEF Row
<1>3. HealthRows(s) = {H(d) : d \in Known(s)}
  BY DEF HealthRows
<1> HIDE DEF H
<1>4. \A d \in Known(s) : f[d] = [snap |-> n, row |-> H(d)]
  OBVIOUS
<1>5. f \in [Known(s) -> T]
  BY <1>3
<1>6. \A x, y \in Known(s) : f[x] = f[y] => x = y
  <2> SUFFICES ASSUME NEW x \in Known(s), NEW y \in Known(s), f[x] = f[y] PROVE x = y
    OBVIOUS
  <2>1. f[x].row = H(x) /\ f[y].row = H(y)
    OBVIOUS
  <2> QED
    BY <1>2, <2>1
<1>7. \A z \in T : \E d \in Known(s) : f[d] = z
  BY <1>3
<1>8. ExistsBijection(Known(s), T)
  <2> HIDE DEF f, T
  <2> QED
    BY <1>5, <1>6, <1>7 DEF ExistsBijection, Bijection, Injection, Surjection, IsInjective
<1> HIDE DEF f, T
<1>9. Cardinality(T) = Cardinality(Known(s))
  BY <1>1, <1>8, FS_Bijection
<1> QED
  BY <1>9 DEF T

\* Which table a row belongs to.
LEMMA RowTables ==
  /\ \A s : MainRow(s).table = "snapshot_main"
  /\ \A s : \A r \in HealthRows(s) : r.table = "device_health"
  /\ \A d \in Device : \A it : \A r \in StateRows(d, it) : r.table \notin {"snapshot_main", "device_health"}
<1>1. \A s : MainRow(s).table = "snapshot_main"
  BY DEF MainRow, Row
<1>2. \A s : \A r \in HealthRows(s) : r.table = "device_health"
  BY DEF HealthRows, Row
<1>3. \A d \in Device : \A g : TableOf(d, g) \notin {"snapshot_main", "device_health"}
  BY ArchiveAssumption DEF TableOf, Pcu
<1>4. \A d \in Device : \A it : \A r \in StateRows(d, it) : r.table \notin {"snapshot_main", "device_health"}
  BY <1>3 DEF StateRows, Row
<1> QED
  BY <1>1, <1>2, <1>4

-----------------------------------------------------------------------------
(* The steps that leave the sinks alone.                                   *)

Upstream ==
  \/ \E d \in Device : \/ \E g \in Answers(d) : Answer(d, g)
                       \/ d \in Pcu /\ Mirror(d)
                       \/ GoesOffline(d)
  \/ Aggregate
  \/ \E t \in Thread : ReadHealth(t) \/ Merge(t) \/ TakeSnapshot(t)

\* What the steps before the sinks leave alone.
LEMMA UpstreamFrame ==
  ASSUME LInv, Upstream
  PROVE  /\ UNCHANGED <<sink, cache, tx, db, lost>>
         /\ sink.at # "idle" => thread'[sink.by] = thread[sink.by]
<1>1. UNCHANGED <<sink, cache, tx, db, lost>>
  BY DEF Upstream, Answer, Mirror, GoesOffline, Aggregate, ReadHealth, Merge, TakeSnapshot
<1>2. ASSUME sink.at # "idle" PROVE thread'[sink.by] = thread[sink.by]
  <2>1. /\ sink.by \in Thread /\ thread[sink.by].at = "sinks" /\ DOMAIN thread = Thread
    BY <1>2 DEF LInv, Types, Mutex
  <2>2. CASE \E d \in Device : \E g \in Answers(d) : Answer(d, g)
    BY <2>1, <2>2 DEF Answer
  <2>3. CASE \E d \in Device : Mirror(d)
    BY <2>3 DEF Mirror
  <2>4. CASE \E d \in Device : GoesOffline(d)
    BY <2>1, <2>4 DEF GoesOffline
  <2>5. CASE Aggregate
    BY <2>1, <2>5 DEF Aggregate
  <2>6. CASE \E t \in Thread : ReadHealth(t) \/ Merge(t) \/ TakeSnapshot(t)
    BY <2>1, <2>6 DEF ReadHealth, Merge, TakeSnapshot
  <2> QED
    BY <2>2, <2>3, <2>4, <2>5, <2>6 DEF Upstream
<1> QED
  BY <1>1, <1>2

\* Steps before the sinks touch neither table nor transaction.
LEMMA UpstreamWhole ==
  ASSUME LInv, Committed, Transaction, Upstream PROVE Committed' /\ Transaction'
<1>1. UNCHANGED <<sink, tx, db>> /\ (sink.at # "idle" => thread'[sink.by] = thread[sink.by])
  BY UpstreamFrame
<1>2. sink.at # "idle" => snap' = snap
  BY <1>1 DEF snap
<1>3. Committed'
  BY <1>1 DEF Committed, SnapshotComplete, MainRows
<1>4. NextId' = NextId
  BY <1>1 DEF NextId
<1>5. Transaction'
  BY <1>1, <1>2, <1>4 DEF Transaction, MainRows, HealthOf
<1> QED
  BY <1>3, <1>5

-----------------------------------------------------------------------------
(* The sink's statements.                                                  *)

\* Without a transaction the committed rows stay as they are.
LEMMA NoTransaction ==
  ASSUME Committed, db' = db, tx' = {}, sink'.at \notin {"health", "devices"}
  PROVE  Committed' /\ Transaction'
BY DEF Committed, SnapshotComplete, MainRows, Transaction

\* The main row opens the transaction of the next snapshot.
LEMMA InsertMainWhole ==
  ASSUME LInv, Committed, Transaction, NEW refused \in BOOLEAN, InsertMain(refused)
  PROVE  Committed' /\ Transaction'
<1>1. sink.at = "main" /\ tx = {} /\ db' = db
  BY DEF InsertMain, Insert, Transaction
<1>2. CASE Rollback(sink.changed)
  BY <1>1, <1>2, NoTransaction DEF Rollback, Return, IdleSink
<1> DEFINE n == [sink EXCEPT !.at = "health", !.id = NextId]
<1>3. CASE tx' = tx \cup {[snap |-> n.id, row |-> r] : r \in {MainRow(snap)}} /\ sink' = n /\ thread' = thread
  <2>1. n.at = "health" /\ n.id = NextId /\ n.by = sink.by
    BY DEF LInv, Types, SinkType
  <2>2. NextId' = NextId /\ snap' = snap
    BY <1>1, <1>3, <2>1 DEF NextId, snap
  <2>3. tx' = {[snap |-> NextId, row |-> MainRow(snap)]}
    BY <1>1, <1>3, <2>1
  <2>4. MainRows(tx') = {[snap |-> NextId, row |-> MainRow(snap)]} /\ HealthOf(tx') = {}
    BY <2>3, RowTables DEF MainRows, HealthOf
  <2>5. Transaction'
    BY <1>3, <2>1, <2>2, <2>3, <2>4 DEF Transaction
  <2>6. Committed'
    BY <1>1 DEF Committed, SnapshotComplete, MainRows
  <2> QED
    BY <2>5, <2>6
<1> QED
  BY <1>2, <1>3 DEF InsertMain, Insert

\* The statements after the main row add rows of the same snapshot.
LEMMA MoreRows ==
  ASSUME LInv, Committed, Transaction, NEW R, NEW n,
         sink.at \in {"health", "devices"}, n.by = sink.by, n.id = sink.id, n.at = "devices",
         \A r \in R : r.table # "snapshot_main",
         {r \in R : r.table = "device_health"} = IF sink.at = "health" THEN HealthRows(snap) ELSE {},
         tx' = tx \cup {[snap |-> n.id, row |-> r] : r \in R}, sink' = n, thread' = thread, db' = db
  PROVE  Committed' /\ Transaction'
<1> DEFINE New == {[snap |-> n.id, row |-> r] : r \in R}
<1>1. NextId' = NextId /\ snap' = snap /\ sink.id = NextId
  BY DEF NextId, snap, Transaction
<1>2. \A r \in New : r.snap = sink.id /\ r.row \in R
  OBVIOUS
<1>3. MainRows(tx') = MainRows(tx)
  BY <1>2 DEF MainRows
<1>4. HealthOf(tx') = {[snap |-> sink.id, row |-> r] : r \in HealthRows(snap)}
  <2>1. CASE sink.at = "health"
    <3>1. HealthOf(tx) = {}
      BY <2>1 DEF Transaction
    <3>2. HealthOf(New) = {[snap |-> sink.id, row |-> r] : r \in {q \in R : q.table = "device_health"}}
      BY DEF HealthOf
    <3>3. HealthOf(tx') = HealthOf(tx) \cup HealthOf(New)
      BY DEF HealthOf
    <3> QED
      BY <2>1, <3>1, <3>2, <3>3
  <2>2. CASE sink.at = "devices"
    <3>1. HealthOf(tx) = {[snap |-> sink.id, row |-> r] : r \in HealthRows(snap)}
      BY <2>2 DEF Transaction
    <3>2. \A r \in R : r.table # "device_health"
      BY <2>2
    <3>3. HealthOf(tx') = HealthOf(tx)
      BY <1>2, <3>2 DEF HealthOf
    <3> QED
      BY <3>1, <3>3
  <2> QED
    BY <2>1, <2>2
<1>5. \A r \in tx' : r.snap = sink.id
  BY <1>2 DEF Transaction
<1>6. Transaction'
  BY <1>1, <1>3, <1>4, <1>5 DEF Transaction
<1>7. Committed'
  BY DEF Committed, SnapshotComplete, MainRows
<1> QED
  BY <1>6, <1>7

\* The health rows of all known devices follow the main row.
LEMMA InsertHealthWhole ==
  ASSUME LInv, Committed, Transaction, NEW refused \in BOOLEAN, InsertHealth(refused)
  PROVE  Committed' /\ Transaction'
<1> DEFINE R == HealthRows(snap)
           n == [sink EXCEPT !.at = "devices"]
<1>1. sink.at = "health" /\ db' = db
  BY DEF InsertHealth, Insert
<1>2. CASE Rollback(sink.changed)
  BY <1>1, <1>2, NoTransaction DEF Rollback, Return, IdleSink
<1>3. CASE tx' = tx \cup {[snap |-> n.id, row |-> r] : r \in R} /\ sink' = n /\ thread' = thread
  <2>1. n.at = "devices" /\ n.id = sink.id /\ n.by = sink.by
    BY DEF LInv, Types, SinkType
  <2>2. /\ \A r \in R : r.table # "snapshot_main"
        /\ {r \in R : r.table = "device_health"} = R
    BY RowTables
  <2> HIDE DEF R, n
  <2> QED
    BY <1>1, <1>3, <2>1, <2>2, MoreRows DEF R
<1> QED
  BY <1>2, <1>3 DEF InsertHealth, Insert

\* Rows of a device are neither main nor health rows.
LEMMA InsertDeviceWhole ==
  ASSUME LInv, Committed, Transaction, NEW d \in Device, NEW refused \in BOOLEAN, InsertDevice(d, refused)
  PROVE  Committed' /\ Transaction'
<1> DEFINE R == StateRows(d, snap[d])
           n == [sink EXCEPT !.todo = @ \ {d}]
<1>1. sink.at = "devices" /\ db' = db
  BY DEF InsertDevice, Insert
<1>2. CASE Rollback(sink.changed)
  BY <1>1, <1>2, NoTransaction DEF Rollback, Return, IdleSink
<1>3. CASE tx' = tx \cup {[snap |-> n.id, row |-> r] : r \in R} /\ sink' = n /\ thread' = thread
  <2>1. n.at = "devices" /\ n.id = sink.id /\ n.by = sink.by
    BY <1>1 DEF LInv, Types, SinkType
  <2>2. /\ \A r \in R : r.table # "snapshot_main"
        /\ {r \in R : r.table = "device_health"} = {}
    BY RowTables
  <2> HIDE DEF R, n
  <2> QED
    BY <1>1, <1>3, <2>1, <2>2, MoreRows
<1> QED
  BY <1>2, <1>3 DEF InsertDevice, Insert

\* The commit adds a whole snapshot, under a number no committed row has.
LEMMA CommitWhole ==
  ASSUME LInv, Committed, Transaction, NEW refused \in BOOLEAN, Commit(refused)
  PROVE  Committed' /\ Transaction'
<1>1. sink.at = "devices" /\ sink'.at = "idle" /\ tx' = {}
  BY DEF Commit, Rollback, Return, IdleSink
<1>2. CASE db' = db
  BY <1>1, <1>2, NoTransaction
<1>3. CASE db' = db \cup tx
  <2> DEFINE K == Cardinality(MainRows(db))
             m == [snap |-> sink.id, row |-> MainRow(snap)]
  <2>1. /\ sink.id = K + 1 /\ \A r \in tx : r.snap = K + 1
        /\ MainRows(tx) = {m}
        /\ HealthOf(tx) = {[snap |-> sink.id, row |-> r] : r \in HealthRows(snap)}
    <3>1. NextId = 1 + K
      BY DEF NextId, MainRows
    <3>2. K \in Nat
      BY FS_CardinalityType DEF Committed
    <3> QED
      BY <1>1, <3>1, <3>2 DEF Transaction
  <2>2. K \in Nat /\ \A r \in db : r.snap \in 1 .. K
    BY FS_CardinalityType DEF Committed
  <2>3. m \in tx /\ m.snap = K + 1 /\ m \notin db /\ m.row.ver = Cardinality(Known(snap))
        /\ m.row.table = "snapshot_main"
    <3>1. m \in tx
      BY <2>1 DEF MainRows
    <3>2. m.row.ver = Cardinality(Known(snap)) /\ m.row.table = "snapshot_main"
      BY DEF MainRow, Row
    <3> HIDE DEF K, m
    <3>3. m.snap = K + 1 /\ m \notin db
      BY <2>1, <2>2, <3>1
    <3> QED
      BY <3>1, <3>2, <3>3
  <2> HIDE DEF m
  <2>4. MainRows(db') = MainRows(db) \cup {m}
    BY <1>3, <2>1 DEF MainRows
  <2>5. IsFiniteSet(MainRows(db')) /\ Cardinality(MainRows(db')) = K + 1
    <3>1. m \notin MainRows(db) /\ IsFiniteSet(MainRows(db))
      BY <2>3 DEF MainRows, Committed
    <3> QED
      BY <2>4, <3>1, FS_AddElement
  <2> HIDE DEF K
  <2>6. \A r \in db' : r.snap \in 1 .. K + 1
    BY <1>3, <2>1, <2>2
  <2>7. ASSUME NEW r \in db'
        PROVE \E w \in db' : /\ w.snap = r.snap /\ w.row.table = "snapshot_main"
                             /\ Cardinality({h \in db' : h.snap = w.snap /\ h.row.table = "device_health"})
                                  = w.row.ver
    <3>1. CASE r \in db
      <4>1. PICK w \in db : /\ w.snap = r.snap /\ w.row.table = "snapshot_main"
                            /\ Cardinality({h \in db : h.snap = w.snap /\ h.row.table = "device_health"})
                                 = w.row.ver
        BY <3>1 DEF Committed, SnapshotComplete
      <4>2. w.snap # K + 1
        BY <2>2, <4>1
      <4>3. {h \in db' : h.snap = w.snap /\ h.row.table = "device_health"}
              = {h \in db : h.snap = w.snap /\ h.row.table = "device_health"}
        BY <1>3, <2>1, <4>2
      <4> QED
        BY <1>3, <4>1, <4>3
    <3>2. CASE r \in tx
      <4>1. r.snap = m.snap /\ m \in db'
        BY <1>3, <2>1, <2>3, <3>2
      <4>2. {h \in db' : h.snap = m.snap /\ h.row.table = "device_health"} = HealthOf(tx)
        <5>1. \A h \in db : h.snap # m.snap
          BY <2>2, <2>3
        <5>2. \A h \in tx : h.snap = m.snap
          BY <2>1, <2>3
        <5> QED
          BY <1>3, <5>1, <5>2 DEF HealthOf
      <4>3. Cardinality(HealthOf(tx)) = m.row.ver
        BY <2>1, <2>3, HealthRowPerDevice
      <4> QED
        BY <2>3, <4>1, <4>2, <4>3
    <3> QED
      BY <1>3, <3>1, <3>2
  <2>8. Committed'
    BY <2>5, <2>6, <2>7 DEF Committed, SnapshotComplete
  <2> QED
    BY <1>1, <2>8 DEF Transaction
<1> QED
  BY <1>2, <1>3 DEF Commit

-----------------------------------------------------------------------------

\* Snapshots are numbered by naturals.
LEMMA NextIdType == Committed => NextId \in Nat
BY FS_CardinalityType DEF Committed, NextId, MainRows

\* An archive without rows is whole.
LEMMA WholeInit == Init => WholeInv
<1> SUFFICES ASSUME Init PROVE WholeInv
  OBVIOUS
<1>1. db = {} /\ tx = {} /\ sink.at = "idle"
  BY DEF Init, IdleSink
<1>2. MainRows(db) = {}
  BY <1>1 DEF MainRows
<1> QED
  BY <1>1, <1>2, TypesInit, FS_EmptySet DEF WholeInv, Committed, SnapshotComplete, Transaction

\* Every step keeps the committed snapshots whole.
LEMMA WholeStep == WholeInv /\ [Next]_vars => WholeInv'
<1> SUFFICES ASSUME LInv, Committed, Transaction, [Next]_vars PROVE LInv' /\ Committed' /\ Transaction'
  BY DEF WholeInv
<1>1. CASE Upstream
  <2>1. LInv'
    BY <1>1, AnswerTypes, MirrorTypes, GoesOfflineTypes, AggregateTypes, ReadHealthTypes,
       MergeTypes, TakeSnapshotTypes
       DEF Upstream
  <2> QED
    BY <1>1, <2>1, UpstreamWhole
<1>2. ASSUME NEW t \in Thread, NEW due \in BOOLEAN, FileOnSnapshot(t, due)
      PROVE  LInv' /\ Committed' /\ Transaction'
  <2>1. db' = db /\ tx' = tx /\ sink.at = "idle" /\ sink'.at = "collect"
    BY <1>2 DEF FileOnSnapshot, IdleSink
  <2>2. tx' = {}
    BY <2>1 DEF Transaction
  <2> QED
    BY <1>2, <2>1, <2>2, FileTypes, NoTransaction
<1>3. ASSUME NEW refused \in BOOLEAN, Begin(refused)
      PROVE  LInv' /\ Committed' /\ Transaction'
  <2>1. sink.at = "collect" /\ db' = db
    BY <1>3 DEF Begin
  <2>2. tx' = {}
    BY <1>3, <2>1 DEF Begin, Rollback, Transaction
  <2>3. sink'.at \notin {"health", "devices"}
    <3>1. CASE Return
      BY <3>1 DEF Return, IdleSink
    <3>2. ASSUME NEW ch, sink' = [sink EXCEPT !.at = "main", !.changed = ch, !.todo = ch]
          PROVE  sink'.at \notin {"health", "devices"}
      BY <3>2 DEF LInv, Types, SinkType
    <3> QED
      BY <1>3, <3>1, <3>2 DEF Begin, Rollback
  <2> QED
    BY <1>3, <2>1, <2>2, <2>3, BeginTypes, NoTransaction
<1>4. ASSUME NEW refused \in BOOLEAN, InsertMain(refused)
      PROVE  LInv' /\ Committed' /\ Transaction'
  <2> DEFINE n == [sink EXCEPT !.at = "health", !.id = NextId]
  <2>1. n \in SinkType
    BY NextIdType, SinkSteps
  <2>2. n.at # "idle" /\ n.by = sink.by /\ n.todo \subseteq n.changed
    BY SinkSteps DEF SinkType
  <2>3. sink.at # "idle" /\ Insert({MainRow(snap)}, refused, n)
    BY <1>4 DEF InsertMain
  <2> HIDE DEF n
  <2>4. LInv'
    BY <2>1, <2>2, <2>3, InsertTypes
  <2> QED
    BY <1>4, <2>4, InsertMainWhole
<1>5. ASSUME NEW refused \in BOOLEAN, InsertHealth(refused)
      PROVE  LInv' /\ Committed' /\ Transaction'
  <2> DEFINE n == [sink EXCEPT !.at = "devices"]
  <2>1. n \in SinkType
    BY SinkSteps
  <2>2. n.at # "idle" /\ n.by = sink.by /\ n.todo \subseteq n.changed
    BY SinkSteps DEF SinkType
  <2>3. sink.at # "idle" /\ Insert(HealthRows(snap), refused, n)
    BY <1>5 DEF InsertHealth
  <2> HIDE DEF n
  <2>4. LInv'
    BY <2>1, <2>2, <2>3, InsertTypes
  <2> QED
    BY <1>5, <2>4, InsertHealthWhole
<1>6. ASSUME NEW d \in Device, NEW refused \in BOOLEAN, InsertDevice(d, refused)
      PROVE  LInv' /\ Committed' /\ Transaction'
  <2> DEFINE n == [sink EXCEPT !.todo = @ \ {d}]
  <2>1. n \in SinkType
    BY SinkSteps
  <2>2. n.at = sink.at /\ n.by = sink.by /\ n.todo \subseteq n.changed
    BY SinkSteps DEF SinkType
  <2>3. sink.at # "idle" /\ Insert(StateRows(d, snap[d]), refused, n)
    BY <1>6 DEF InsertDevice
  <2> HIDE DEF n
  <2>4. LInv'
    BY <2>1, <2>2, <2>3, InsertTypes
  <2> QED
    BY <1>6, <2>4, InsertDeviceWhole
<1>7. ASSUME NEW refused \in BOOLEAN, Commit(refused)
      PROVE  LInv' /\ Committed' /\ Transaction'
  BY <1>7, CommitTypes, CommitWhole
<1>8. CASE Crash
  <2>1. db' = db /\ tx' = {} /\ sink'.at = "idle"
    BY <1>8 DEF Crash, IdleSink
  <2> QED
    BY <1>8, <2>1, CrashTypes, NoTransaction
<1>9. CASE UNCHANGED vars
  <2>1. LInv'
    BY <1>9 DEF vars, LInv, Types, Busy, Mutex
  <2>2. Committed' /\ Transaction'
    <3>1. /\ UNCHANGED <<db, tx, sink, thread>>
          /\ snap' = snap /\ NextId' = NextId
      BY <1>9 DEF vars, snap, NextId
    <3>2. SnapshotComplete' <=> SnapshotComplete
      BY <3>1 DEF SnapshotComplete
    <3>3. MainRows(db') = MainRows(db) /\ MainRows(tx') = MainRows(tx) /\ HealthOf(tx') = HealthOf(tx)
      BY <3>1
    <3>4. Committed'
      BY <3>1, <3>2, <3>3 DEF Committed
    <3> QED
      BY <3>1, <3>3, <3>4 DEF Transaction
  <2> QED
    BY <2>1, <2>2
<1> QED
  BY <1>1, <1>2, <1>3, <1>4, <1>5, <1>6, <1>7, <1>8, <1>9 DEF Next, Upstream

\* The invariant holds in every reachable state.
LEMMA WholeAlways == Spec => []WholeInv
BY WholeInit, WholeStep, PTL DEF Spec

\* The aggregated items, the threads' copies and the sinks keep their types and
\* SnapshotDispatcher::dispatch_mtx_ admits one thread at a time, for every set of devices.
THEOREM TypeCorrect == Spec => []TypeOK
<1>1. WholeInv => TypeOK
  BY InvImpliesTypeOK DEF WholeInv
<1> QED
  BY <1>1, WholeAlways, PTL

\* SqliteSnapshotFlatSink commits whole snapshots: whatever statements fail, whenever the
\* power does and however dispatches follow each other, every committed row belongs to a
\* snapshot that has its main row and one health row for each device it knew.
THEOREM SnapshotCompleteAlways == Spec => []SnapshotComplete
<1>1. WholeInv => SnapshotComplete
  BY DEF WholeInv, Committed
<1> QED
  BY <1>1, WholeAlways, PTL

-----------------------------------------------------------------------------
(* Readings.                                                               *)

RowOf(d, g, n) == Row(TableOf(d, g), d, g, n)
Archived(r) == r \in lost \/ \E s \in db : s.row = r

Writing == {"main", "health", "devices"}

\* An item that has a reading has a time stamp, and so has every copy of it.
Stamped(s) == \A d \in Device : \A g \in Groups(d) : s[d].grp[g] # 0 => s[d].ts # 0

\* A gas channel that is not the last answer's is in the archive.
GasArchived(s) ==
  \A g \in Groups("GasDetector") :
    LET it == s["GasDetector"]
    IN  it.grp[g] # 0 => it.ts = it.grp[g] \/ Archived(RowOf("GasDetector", g, it.grp[g]))

Copies ==
  /\ thread["parser"].at = "aggregate" => frame # 0
  /\ Stamped(item)
  /\ \A t \in Thread : thread[t].at \in {"dispatch", "sinks"} =>
       /\ Stamped(thread[t].snap)
       /\ "GasDetector" \in Device => GasArchived(thread[t].snap)

\* A reading that is not in the archive is the one onParsed is bringing there.
InFlight(d, g) ==
  LET p == thread["parser"]
  IN  /\ p.at \notin {"idle", "aggregate"} /\ p.dev = d /\ p.grp = g
      /\ d = "GasDetector" => item[d].ts = item[d].grp[g]
      /\ p.at \in {"dispatch", "sinks"} => p.snap[d].grp[g] = item[d].grp[g]

Brought ==
  \A d \in Device : \A g \in Stored(d) :
    item[d].grp[g] # 0 => Archived(RowOf(d, g, item[d].grp[g])) \/ InFlight(d, g)

\* What deviceChanged_ remembers is in the archive or about to be written.
ToWrite(d, g, n) ==
  /\ sink.at \in Writing /\ d \in sink.changed /\ g \in Written(d, snap[d]) /\ snap[d].grp[g] = n
  /\ d \in sink.todo \/ \E s \in tx : s.row = RowOf(d, g, n)

Remembered ==
  /\ \A d \in Device : \A g \in Stored(d) : \A n \in 1 .. MaxFrame :
       <<g, n>> \in cache.state[d] => Archived(RowOf(d, g, n)) \/ ToWrite(d, g, n)
  /\ sink.at \in Writing => \A d \in Known(snap) : cache.state[d] = StateKey(d, snap[d])


\* The groups that are stored are groups of the device, and not the mirrored command.
LEMMA StoredGroups == \A d \in Device : Stored(d) \subseteq Groups(d) \ {"ctrl"}
<1> SUFFICES ASSUME NEW d \in Device PROVE Stored(d) \subseteq Groups(d) \ {"ctrl"}
  OBVIOUS
<1>1. CASE d = "UPS"
  <2>1. Stored(d) = {"Q1", "Q6"}
    BY <1>1 DEF Stored
  <2>2. Groups(d) = {"Q1", "Q6", "WA"}
    BY <1>1 DEF Groups, Pcu
  <2> QED
    BY <2>1, <2>2
<1>2. CASE d # "UPS"
  <2>1. Stored(d) = Groups(d) \ {"ctrl"}
    BY <1>2 DEF Stored
  <2> QED
    BY <2>1
<1> QED
  BY <1>1, <1>2

\* A reading that the sink looks at is one that the insert functions write; of the
\* gas channels it is the one the last answer brought.
LEMMA WrittenStored ==
  ASSUME NEW d \in Device, NEW it, NEW g \in Stored(d), it.grp[g] # 0, it.ts # 0,
         d = "GasDetector" => it.ts = it.grp[g]
  PROVE  g \in Written(d, it)
<1>1. g \in Groups(d) /\ g # "ctrl"
  BY StoredGroups
<1>2. CASE d = "GasDetector"
  BY <1>1, <1>2 DEF Written
<1>3. CASE d = "SmokeSensor"
  BY <1>1, <1>3 DEF Written
<1>4. CASE d = "UPS"
  <2>1. g \in {"Q1", "Q6"}
    BY <1>4 DEF Stored
  <2> QED
    <3>1. Written(d, it) = {h \in {"Q1", "Q6"} : it.grp[h] # 0}
      BY <1>4 DEF Written, Pcu
    <3> QED
      BY <2>1, <3>1
<1>5. CASE d = "AirConditioner"
  BY <1>1, <1>5 DEF Written
<1>6. CASE d \in Pcu
  BY <1>1, <1>6 DEF Written, Pcu
<1> QED
  BY <1>2, <1>3, <1>4, <1>5, <1>6, ArchiveAssumption DEF Pcu

\* The snapshot the sinks work on is the copy of the thread that holds the mutex.
LEMMA SnapType == LInv /\ sink.at # "idle" => snap \in Snapshots /\ sink.by \in Thread
BY DEF LInv, Types, Mutex, snap, ThreadType

\* A group holds the number of a frame.
LEMMA GroupValue ==
  ASSUME NEW s \in Snapshots, NEW d \in Device, NEW g \in Groups(d)
  PROVE  s[d].grp[g] \in 0 .. MaxFrame
BY DEF Snapshots, ItemType

\* What is archived or counted as lost stays so.
LEMMA ArchivedGrows ==
  ASSUME db \subseteq db', lost \subseteq lost', NEW r, Archived(r)
  PROVE  Archived(r)'
BY DEF Archived

\* The readings of the items stay and what was in flight arrives or stays in flight.
LEMMA BroughtKept ==
  ASSUME LInv, Brought, db \subseteq db', lost \subseteq lost',
         \A d \in Device : \A g \in Stored(d) : item'[d].grp[g] = item[d].grp[g],
         \A d \in Device : \A g \in Stored(d) : \A n \in 1 .. MaxFrame :
           item[d].grp[g] = n /\ InFlight(d, g) => InFlight(d, g)' \/ Archived(RowOf(d, g, n))'
  PROVE  Brought'
<1> SUFFICES ASSUME NEW d \in Device, NEW g \in Stored(d), item'[d].grp[g] # 0
             PROVE  Archived(RowOf(d, g, item[d].grp[g]))' \/ InFlight(d, g)'
  BY DEF Brought
<1> DEFINE n == item[d].grp[g]
<1>1. item'[d].grp[g] = n /\ n \in 1 .. MaxFrame
  <2>1. n \in 0 .. MaxFrame
    BY StoredGroups, GroupValue DEF LInv, Types
  <2> QED
    BY <2>1
<1>2. PICK k \in 1 .. MaxFrame : k = n
  BY <1>1
<1>3. Archived(RowOf(d, g, k)) \/ InFlight(d, g)
  BY <1>1, <1>2 DEF Brought
<1>4. Archived(RowOf(d, g, k))' \/ InFlight(d, g)'
  BY <1>2, <1>3, ArchivedGrows
<1>5. Archived(RowOf(d, g, k))' => Archived(RowOf(d, g, item[d].grp[g]))'
  BY <1>1, <1>2 DEF Archived, RowOf, Row
<1> QED
  BY <1>4, <1>5

-----------------------------------------------------------------------------
(* Readings, up to the snapshot.                                           *)

\* Steps before the sinks leave the change cache alone.
LEMMA UpstreamRemembered ==
  ASSUME LInv, Remembered, Upstream PROVE Remembered'
<1>1. /\ UNCHANGED <<sink, cache, tx, db, lost>>
      /\ sink.at # "idle" => thread'[sink.by] = thread[sink.by]
  BY UpstreamFrame
<1>2. sink.at # "idle" => snap' = snap
  BY <1>1 DEF snap
<1>3. \A r : Archived(r) => Archived(r)'
  BY <1>1 DEF Archived
<1>4. \A d, g, n : ToWrite(d, g, n) => ToWrite(d, g, n)'
  BY <1>1, <1>2 DEF ToWrite, Writing
<1>5. sink'.at \in Writing => \A d \in Known(snap') : cache'.state[d] = StateKey(d, snap'[d])
  BY <1>1, <1>2 DEF Remembered, Writing
<1> QED
  BY <1>1, <1>3, <1>4, <1>5 DEF Remembered, RowOf, Row

\* A gas channel that was archived stays archived.
LEMMA GasKept ==
  ASSUME db \subseteq db', lost \subseteq lost', NEW s, GasArchived(s)
  PROVE  GasArchived(s)'
BY ArchivedGrows DEF GasArchived, RowOf, Row

\* Copies that stay copies: each thread that holds a snapshot held it before.
LEMMA CopiesKept ==
  ASSUME Copies, db \subseteq db', lost \subseteq lost', Stamped(item'),
         thread'["parser"].at = "aggregate" => frame' # 0,
         \A t \in Thread : thread'[t].at \in {"dispatch", "sinks"} =>
           thread[t].at \in {"dispatch", "sinks"} /\ thread'[t].snap = thread[t].snap
  PROVE  Copies'
<1>1. ASSUME NEW t \in Thread, thread'[t].at \in {"dispatch", "sinks"}
      PROVE /\ Stamped(thread'[t].snap)
            /\ "GasDetector" \in Device => GasArchived(thread[t].snap)'
  <2>1. /\ Stamped(thread[t].snap)
        /\ "GasDetector" \in Device => GasArchived(thread[t].snap)
        /\ thread'[t].snap = thread[t].snap
    BY <1>1 DEF Copies
  <2>2. PICK s : s = thread[t].snap
    OBVIOUS
  <2>3. "GasDetector" \in Device => GasArchived(s)'
    BY <2>1, <2>2, GasKept
  <2> QED
    BY <2>1, <2>2, <2>3 DEF GasArchived
<1> QED
  BY <1>1 DEF Copies, Stamped

\* A new frame starts when the reading before it has arrived.
LEMMA AnswerRead ==
  ASSUME LInv, Copies, Brought, NEW d \in Device, NEW g \in Answers(d), Answer(d, g)
  PROVE  Copies' /\ Brought'
<1>1. /\ DOMAIN thread = Thread /\ thread["parser"].at = "idle" /\ frame' = frame + 1 /\ frame \in Nat
      /\ UNCHANGED <<item, db, lost>>
  BY DEF LInv, Types, Answer
<1>2. thread'["parser"].at = "aggregate" /\ thread'["timer"] = thread["timer"]
  BY <1>1 DEF Answer, Thread
<1>3. Copies'
  <2>1. Stamped(item')
    BY <1>1 DEF Copies
  <2>2. frame' # 0
    BY <1>1
  <2>3. \A t \in Thread : thread'[t].at \in {"dispatch", "sinks"} =>
          thread[t].at \in {"dispatch", "sinks"} /\ thread'[t].snap = thread[t].snap
    BY <1>2 DEF Thread
  <2> QED
    BY <1>1, <2>1, <2>2, <2>3, CopiesKept
<1>4. Brought'
  <2>1. \A e \in Device : \A h \in Stored(e) : ~InFlight(e, h)
    BY <1>1 DEF InFlight
  <2> QED
    BY <1>1, <2>1, BroughtKept
<1> QED
  BY <1>3, <1>4

\* A new reading is in flight; all others have arrived, since onParsed has returned.
LEMMA AggregateRead ==
  ASSUME LInv, Copies, Brought, Aggregate PROVE Copies' /\ Brought'
<1> DEFINE p == thread["parser"]
           q == thread'["parser"]
<1>1. /\ p.at = "aggregate" /\ frame # 0 /\ UNCHANGED <<frame, db, lost>>
      /\ p.dev \in Device /\ p.grp \in Groups(p.dev) \cup {Nothing}
  BY AnswersGroups DEF LInv, Busy, Thread, Aggregate, Copies
<1>2. q.at = "merge" /\ q.dev = p.dev /\ q.grp = p.grp /\ thread'["timer"] = thread["timer"]
  BY DEF LInv, Types, ThreadType, Thread, Aggregate
<1>3. \A d \in Device \ {p.dev} : item'[d] = item[d]
  BY DEF LInv, Types, Snapshots, Aggregate
<1>4. /\ item'[p.dev].ts = frame
      /\ item'[p.dev].grp = IF p.grp = Nothing THEN item[p.dev].grp ELSE [item[p.dev].grp EXCEPT ![p.grp] = frame]
  <2>1. item[p.dev] \in ItemType(p.dev) /\ DOMAIN item = Device
    BY <1>1 DEF LInv, Types, Snapshots
  <2>2. item'[p.dev] = [WithReading(item[p.dev], p.grp) EXCEPT !.health.online = TRUE, !.health.ok = frame]
    BY <1>1, <2>1 DEF Aggregate
  <2>3. /\ WithReading(item[p.dev], p.grp).ts = frame
        /\ WithReading(item[p.dev], p.grp).grp =
             IF p.grp = Nothing THEN item[p.dev].grp ELSE [item[p.dev].grp EXCEPT ![p.grp] = frame]
        /\ DOMAIN WithReading(item[p.dev], p.grp) = {"grp", "last", "ts", "health"}
    BY <2>1 DEF WithReading, ItemType
  <2> QED
    BY <2>2, <2>3
<1>5. item[p.dev].grp \in [Groups(p.dev) -> 0 .. MaxFrame]
  BY <1>1 DEF LInv, Types, Snapshots, ItemType
<1>6. Copies'
  <2>1. Stamped(item')
    BY <1>1, <1>3, <1>4 DEF Copies, Stamped
  <2>2. \A t \in Thread : thread'[t].at \in {"dispatch", "sinks"} =>
          thread[t].at \in {"dispatch", "sinks"} /\ thread'[t].snap = thread[t].snap
    BY <1>2 DEF Thread
  <2> QED
    BY <1>1, <1>2, <2>1, <2>2, CopiesKept
<1>7. Brought'
  <2> SUFFICES ASSUME NEW d \in Device, NEW g \in Stored(d), item'[d].grp[g] # 0
               PROVE  Archived(RowOf(d, g, item[d].grp[g]))' \/ InFlight(d, g)'
    BY DEF Brought
  <2>1. item[d].grp[g] # 0 => Archived(RowOf(d, g, item[d].grp[g]))
    BY <1>1 DEF Brought, InFlight
  <2>2. CASE item'[d].grp[g] = item[d].grp[g]
    BY <1>1, <2>1, <2>2 DEF Archived, RowOf, Row
  <2>3. CASE item'[d].grp[g] # item[d].grp[g]
    <3>1. d = p.dev
      BY <1>3, <2>3
    <3>2. g \in Groups(d)
      BY StoredGroups
    <3>3. p.grp = g /\ item'[d].grp[g] = frame
      BY <1>4, <1>5, <2>3, <3>1, <3>2
    <3>4. item'[d].ts = item'[d].grp[g]
      BY <1>4, <3>1, <3>3
    <3> QED
      BY <1>2, <3>1, <3>3, <3>4 DEF InFlight
  <2> QED
    BY <2>2, <2>3
<1> QED
  BY <1>6, <1>7

\* A mirrored command touches no stored group.
LEMMA MirrorRead ==
  ASSUME LInv, Copies, Brought, NEW d \in Device, d \in Pcu, Mirror(d) PROVE Copies' /\ Brought'
<1>1. frame' = frame + 1 /\ frame \in Nat /\ UNCHANGED <<thread, db, lost>>
  BY DEF LInv, Types, Mirror
<1>2. item[d] \in ItemType(d) /\ "ctrl" \in Groups(d) /\ DOMAIN item = Device
  BY PcuCtrl DEF LInv, Types, Snapshots
<1>3. /\ \A e \in Device \ {d} : item'[e] = item[e]
      /\ item'[d].ts = frame' /\ item'[d].grp = [item[d].grp EXCEPT !["ctrl"] = frame']
  BY <1>2 DEF Mirror, ItemType
<1>4. Copies'
  <2>1. Stamped(item')
    BY <1>1, <1>3 DEF Copies, Stamped
  <2> QED
    BY <1>1, <2>1, CopiesKept
<1>5. \A e \in Device : \A h \in Stored(e) : item'[e].grp[h] = item[e].grp[h]
  <2> SUFFICES ASSUME NEW e \in Device, NEW h \in Stored(e) PROVE item'[e].grp[h] = item[e].grp[h]
    OBVIOUS
  <2>1. h \in Groups(e) /\ h # "ctrl"
    BY StoredGroups
  <2>2. DOMAIN item[d].grp = Groups(d)
    BY <1>2 DEF ItemType
  <2> QED
    BY <1>3, <2>1, <2>2
<1>6. "GasDetector" \in Device => item'["GasDetector"] = item["GasDetector"]
  BY <1>3 DEF Pcu
<1>7. \A e \in Device : \A h \in Stored(e) : InFlight(e, h) => InFlight(e, h)'
  BY <1>1, <1>5, <1>6 DEF InFlight
<1>8. Brought'
  BY <1>1, <1>5, <1>7, BroughtKept
<1> QED
  BY <1>4, <1>8

\* An offline edge brings no reading.
LEMMA GoesOfflineRead ==
  ASSUME LInv, Copies, Brought, NEW d \in Device, GoesOffline(d) PROVE Copies' /\ Brought'
<1>1. UNCHANGED <<frame, item, db, lost>>
  BY DEF GoesOffline
<1>2. thread'["parser"] = thread["parser"] /\ thread'["timer"].at = "merge"
  <2>1. DOMAIN thread = Thread /\ thread["timer"] \in ThreadType
    BY DEF LInv, Types, Thread
  <2> QED
    BY <2>1 DEF GoesOffline, Thread, ThreadType
<1>3. Copies'
  <2>1. Stamped(item')
    BY <1>1 DEF Copies
  <2>2. thread'["parser"].at = "aggregate" => frame' # 0
    BY <1>1, <1>2 DEF Copies
  <2>3. \A t \in Thread : thread'[t].at \in {"dispatch", "sinks"} =>
          thread[t].at \in {"dispatch", "sinks"} /\ thread'[t].snap = thread[t].snap
    BY <1>2 DEF Thread
  <2> QED
    BY <1>1, <2>1, <2>2, <2>3, CopiesKept
<1>4. Brought'
  <2>1. \A e \in Device : \A h \in Stored(e) : InFlight(e, h) => InFlight(e, h)'
    BY <1>1, <1>2 DEF InFlight
  <2> QED
    BY <1>1, <2>1, BroughtKept
<1> QED
  BY <1>3, <1>4

\* Copying the health changes no reading.
LEMMA ReadHealthRead ==
  ASSUME LInv, Copies, Brought, NEW t \in Thread, ReadHealth(t) PROVE Copies' /\ Brought'
<1>1. UNCHANGED <<frame, item, db, lost>> /\ thread[t].at = "merge"
  BY DEF ReadHealth
<1>2. /\ thread'[t].at = "health" /\ thread'[t].dev = thread[t].dev /\ thread'[t].grp = thread[t].grp
      /\ \A u \in Thread \ {t} : thread'[u] = thread[u]
  BY DEF ReadHealth, LInv, Types, ThreadType
<1>3. Copies'
  <2>1. Stamped(item')
    BY <1>1 DEF Copies
  <2>2. thread'["parser"].at = "aggregate" => frame' # 0
    BY <1>1, <1>2 DEF Copies, Thread
  <2>3. \A u \in Thread : thread'[u].at \in {"dispatch", "sinks"} =>
          thread[u].at \in {"dispatch", "sinks"} /\ thread'[u].snap = thread[u].snap
    BY <1>2
  <2> QED
    BY <1>1, <2>1, <2>2, <2>3, CopiesKept
<1>4. Brought'
  <2>1. \A e \in Device : \A h \in Stored(e) : InFlight(e, h) => InFlight(e, h)'
    BY <1>1, <1>2 DEF InFlight, Thread
  <2> QED
    BY <1>1, <2>1, BroughtKept
<1> QED
  BY <1>3, <1>4

\* A merge of health changes no reading.
LEMMA MergeRead ==
  ASSUME LInv, Copies, Brought, NEW t \in Thread, Merge(t) PROVE Copies' /\ Brought'
<1>1. UNCHANGED <<frame, db, lost>> /\ thread[t].at = "health" /\ thread[t].dev \in Device
  BY DEF Merge, LInv, Busy
<1>2. /\ thread'[t].at = "snapshot" /\ thread'[t].dev = thread[t].dev /\ thread'[t].grp = thread[t].grp
      /\ \A u \in Thread \ {t} : thread'[u] = thread[u]
  BY DEF Merge, LInv, Types, ThreadType
<1>3. \A e \in Device : item'[e].grp = item[e].grp /\ item'[e].ts = item[e].ts
  BY <1>1 DEF Merge, LInv, Types, Snapshots, ItemType
<1>4. Copies'
  <2>1. Stamped(item')
    BY <1>3 DEF Copies, Stamped
  <2>2. thread'["parser"].at = "aggregate" => frame' # 0
    BY <1>1, <1>2 DEF Copies, Thread
  <2>3. \A u \in Thread : thread'[u].at \in {"dispatch", "sinks"} =>
          thread[u].at \in {"dispatch", "sinks"} /\ thread'[u].snap = thread[u].snap
    BY <1>2
  <2> QED
    BY <1>1, <2>1, <2>2, <2>3, CopiesKept
<1>5. Brought'
  <2>1. \A e \in Device : \A h \in Stored(e) : InFlight(e, h) => InFlight(e, h)'
    BY <1>1, <1>2, <1>3 DEF InFlight, Thread
  <2> QED
    BY <1>1, <1>3, <2>1, BroughtKept
<1> QED
  BY <1>4, <1>5

\* The copy holds the reading in flight.
LEMMA TakeSnapshotRead ==
  ASSUME LInv, Copies, Brought, NEW t \in Thread, TakeSnapshot(t) PROVE Copies' /\ Brought'
<1>1. UNCHANGED <<frame, item, db, lost>> /\ thread[t].at = "snapshot"
  BY DEF TakeSnapshot
<1>2. /\ thread'[t].at = "dispatch" /\ thread'[t].dev = thread[t].dev /\ thread'[t].grp = thread[t].grp
      /\ thread'[t].snap = item
      /\ \A u \in Thread \ {t} : thread'[u] = thread[u]
  BY DEF TakeSnapshot, LInv, Types, ThreadType
<1>3. ASSUME "GasDetector" \in Device PROVE GasArchived(item)'
  <2>1. Stored("GasDetector") = Groups("GasDetector")
    <3>1. Groups("GasDetector") = {"CO", "O2"}
      BY DEF Groups, Pcu
    <3>2. Stored("GasDetector") = Groups("GasDetector") \ {"ctrl"}
      BY DEF Stored
    <3> QED
      BY <3>1, <3>2
  <2>2. GasArchived(item)
    BY <1>3, <2>1 DEF GasArchived, Brought, InFlight
  <2> QED
    BY <1>1, <2>2 DEF GasArchived, Archived
<1>4. Copies'
  <2>1. ASSUME NEW u \in Thread, thread'[u].at \in {"dispatch", "sinks"}
        PROVE /\ Stamped(thread'[u].snap)
              /\ "GasDetector" \in Device => GasArchived(thread[u].snap)'
    <3>1. CASE u = t
      BY <1>1, <1>2, <1>3, <3>1 DEF Copies, GasArchived
    <3>2. CASE u # t
      BY <1>1, <1>2, <2>1, <3>2 DEF Copies, GasArchived, Archived
    <3> QED
      BY <3>1, <3>2
  <2>2. thread'["parser"].at = "aggregate" => frame' # 0
    BY <1>1, <1>2 DEF Copies, Thread
  <2> QED
    BY <1>1, <2>1, <2>2 DEF Copies, Stamped
<1>5. Brought'
  <2>1. \A e \in Device : \A h \in Stored(e) : InFlight(e, h) => InFlight(e, h)'
    BY <1>1, <1>2 DEF InFlight, Thread
  <2> QED
    BY <1>1, <2>1, BroughtKept
<1> QED
  BY <1>4, <1>5

-----------------------------------------------------------------------------
(* Readings, through the sink.                                             *)

\* A thread enters the sinks with the snapshot it has.
LEMMA FileRead ==
  ASSUME LInv, Copies, Brought, Remembered, NEW t \in Thread, NEW due \in BOOLEAN, FileOnSnapshot(t, due)
  PROVE  Copies' /\ Brought' /\ Remembered'
<1>1. /\ UNCHANGED <<frame, item, cache, tx, db, lost>> /\ thread[t].at = "dispatch" /\ sink.at = "idle"
      /\ sink'.at = "collect"
  BY DEF FileOnSnapshot, IdleSink
<1>2. /\ thread'[t].at = "sinks" /\ thread'[t].dev = thread[t].dev /\ thread'[t].grp = thread[t].grp
      /\ thread'[t].snap = thread[t].snap
      /\ \A u \in Thread \ {t} : thread'[u] = thread[u]
  <2>1. thread \in [Thread -> ThreadType] /\ thread' = [thread EXCEPT ![t].at = "sinks"]
    BY DEF FileOnSnapshot, LInv, Types
  <2> QED
    BY <2>1 DEF ThreadType
<1>3. Copies'
  <2>1. Stamped(item')
    BY <1>1 DEF Copies
  <2>2. thread'["parser"].at = "aggregate" => frame' # 0
    BY <1>1, <1>2 DEF Copies, Thread
  <2>3. \A u \in Thread : thread'[u].at \in {"dispatch", "sinks"} =>
          thread[u].at \in {"dispatch", "sinks"} /\ thread'[u].snap = thread[u].snap
    BY <1>1, <1>2
  <2> QED
    BY <1>1, <2>1, <2>2, <2>3, CopiesKept
<1>4. Brought'
  <2>1. \A e \in Device : \A h \in Stored(e) : InFlight(e, h) => InFlight(e, h)'
    BY <1>1, <1>2 DEF InFlight, Thread
  <2> QED
    BY <1>1, <2>1, BroughtKept
<1>5. Remembered'
  BY <1>1 DEF Remembered, ToWrite, Writing, Archived, RowOf, Row
<1> QED
  BY <1>3, <1>4, <1>5

\* The dispatch ends when everything it remembers is in the archive: so is the reading
\* that its thread, if it is the parser's, was bringing.
LEMMA ReturnRead ==
  ASSUME LInv, Copies, Brought, sink.at # "idle", Return, db \subseteq db', lost \subseteq lost',
         UNCHANGED <<frame, item>>,
         \A d \in Device : \A g \in Stored(d) : \A n \in 1 .. MaxFrame :
           <<g, n>> \in cache'.state[d] => Archived(RowOf(d, g, n))',
         \A d \in Known(snap) : cache'.state[d] = StateKey(d, snap[d])
  PROVE  Copies' /\ Brought' /\ Remembered'
<1> DEFINE b == sink.by
<1>1. /\ b \in Thread /\ sink'.at = "idle"
      /\ \A u \in Thread \ {b} : thread'[u] = thread[u]
      /\ thread'[b].at \in {"merge", "idle"}
  <2>1. thread[b] \in ThreadType
    BY SnapType DEF LInv, Types
  <2>2. \/ thread'[b] = [thread[b] EXCEPT !.at = "merge", !.merges = thread[b].merges - 1, !.snap = NoSnap]
        \/ thread'[b] = IdleThread
    BY ReturnTypes
  <2>4. \A m, z : [thread[b] EXCEPT !.at = "merge", !.merges = m, !.snap = z].at = "merge"
    BY <2>1 DEF ThreadType
  <2>5. IdleThread.at = "idle"
    BY DEF IdleThread
  <2>3. thread'[b].at \in {"merge", "idle"}
    <3>1. CASE thread'[b] = IdleThread
      BY <2>5, <3>1
    <3>2. CASE thread'[b] = [thread[b] EXCEPT !.at = "merge", !.merges = thread[b].merges - 1, !.snap = NoSnap]
      BY <2>4, <3>2
    <3> QED
      BY <2>2, <3>1, <3>2
  <2> QED
    BY <2>3, ReturnTypes DEF IdleSink
<1>2. thread[b].at = "sinks" /\ snap = thread[b].snap /\ snap \in Snapshots
  BY SnapType DEF LInv, Mutex, snap
<1>3. Copies'
  <2>1. Stamped(item')
    BY DEF Copies
  <2>2. thread'["parser"].at = "aggregate" => frame' # 0
    BY <1>1 DEF Copies, Thread
  <2>3. \A u \in Thread : thread'[u].at \in {"dispatch", "sinks"} =>
          thread[u].at \in {"dispatch", "sinks"} /\ thread'[u].snap = thread[u].snap
    BY <1>1
  <2> QED
    BY <2>1, <2>2, <2>3, CopiesKept
<1>4. Remembered'
  BY <1>1 DEF Remembered, Writing
<1>5. ASSUME NEW d \in Device, NEW g \in Stored(d), NEW n \in 1 .. MaxFrame,
             item[d].grp[g] = n, InFlight(d, g)
      PROVE  InFlight(d, g)' \/ Archived(RowOf(d, g, n))'
  <2>1. CASE b # "parser"
    <3>1. thread'["parser"] = thread["parser"]
      BY <1>1, <2>1 DEF Thread
    <3> QED
      BY <1>5, <3>1 DEF InFlight
  <2>2. CASE b = "parser"
    <3>1. snap[d].grp[g] = n /\ g \in Groups(d) /\ n # 0
      BY <1>2, <1>5, <2>2, StoredGroups DEF InFlight
    <3>2. d \in Known(snap)
      BY <1>1, <1>2, <3>1 DEF Copies, Stamped, Known
    <3>3. <<g, n>> \in StateKey(d, snap[d])
      BY <3>1 DEF StateKey, Readings
    <3> QED
      BY <3>2, <3>3
  <2> QED
    BY <2>1, <2>2
<1>6. Brought'
  BY <1>5, BroughtKept
<1> QED
  BY <1>3, <1>4, <1>6

\* collectChangedDevices_ remembers only what is in the archive or will now be written.
LEMMA BeginRemembers ==
  ASSUME LInv, Copies, Remembered, sink.at = "collect",
         NEW key, key = [d \in Device |-> StateKey(d, snap[d])],
         cache' = Remember(cache, key, snap)
  PROVE  /\ \A d \in Device : \A g \in Stored(d) : \A n \in 1 .. MaxFrame :
              <<g, n>> \in cache'.state[d] =>
                \/ Archived(RowOf(d, g, n))
                \/ d \in Changed(cache, key, snap) /\ g \in Written(d, snap[d]) /\ snap[d].grp[g] = n
         /\ \A d \in Known(snap) : cache'.state[d] = StateKey(d, snap[d])
<1>1. cache'.state = [d \in Device |-> IF d \in Known(snap) THEN key[d] ELSE cache.state[d]]
  BY DEF Remember
<1>2. Known(snap) \subseteq Device
  BY DEF Known
<1>3. \A d \in Known(snap) : cache'.state[d] = StateKey(d, snap[d])
  BY <1>1, <1>2
<1>4. snap = thread[sink.by].snap /\ thread[sink.by].at = "sinks" /\ sink.by \in Thread
  BY DEF snap, LInv, Mutex
<1>5. ASSUME NEW d \in Device, NEW g \in Stored(d), NEW n \in 1 .. MaxFrame, <<g, n>> \in cache'.state[d]
      PROVE  \/ Archived(RowOf(d, g, n))
             \/ d \in Changed(cache, key, snap) /\ g \in Written(d, snap[d]) /\ snap[d].grp[g] = n
  <2>1. CASE <<g, n>> \in cache.state[d]
    BY <2>1 DEF Remembered, ToWrite, Writing
  <2>2. CASE <<g, n>> \notin cache.state[d]
    <3>1. d \in Known(snap) /\ cache'.state[d] # cache.state[d] /\ key[d] = StateKey(d, snap[d])
      BY <1>1, <1>5, <2>2
    <3>2. d \in Changed(cache, key, snap)
      BY <1>3, <3>1 DEF Changed
    <3>3. snap[d].grp[g] = n /\ n # 0
      BY <1>3, <1>5, <3>1 DEF StateKey, Readings
    <3>4. CASE d = "GasDetector" /\ snap[d].ts # n
      <4>1. g \in Groups(d)
        BY StoredGroups
      <4>2. GasArchived(snap)
        BY <1>4, <3>4 DEF Copies
      <4> QED
        BY <3>3, <3>4, <4>1, <4>2 DEF GasArchived
    <3>5. CASE ~(d = "GasDetector" /\ snap[d].ts # n)
      <4>1. snap[d].ts # 0
        BY <1>4, <3>3, StoredGroups DEF Copies, Stamped
      <4> QED
        BY <3>2, <3>3, <3>5, <4>1, WrittenStored
    <3> QED
      BY <3>4, <3>5
  <2> QED
    BY <2>1, <2>2
<1> QED
  BY <1>3, <1>5

\* The rows of a transaction that is rolled back.
LEMMA RolledBack ==
  ASSUME NEW ds, NEW d \in ds, NEW g \in Written(d, snap[d]), NEW n, snap[d].grp[g] = n, Rollback(ds)
  PROVE  Archived(RowOf(d, g, n))'
<1>1. RowOf(d, g, n) \in StateRows(d, snap[d])
  BY DEF RowOf, StateRows
<1>2. RowOf(d, g, n) \in Rows(snap, ds)
  BY <1>1 DEF Rows
<1>3. RowOf(d, g, n) \in lost'
  BY <1>2 DEF Rollback
<1> QED
  BY <1>3 DEF Archived, RowOf, Row

\* A changed reading is put down for writing before the cache forgets the old one.
LEMMA BeginRead ==
  ASSUME LInv, Copies, Brought, Remembered, NEW refused \in BOOLEAN, Begin(refused)
  PROVE  Copies' /\ Brought' /\ Remembered'
<1> DEFINE key == [d \in Device |-> StateKey(d, snap[d])]
           changed == Changed(cache, key, snap)
<1>1. sink.at = "collect" /\ cache' = Remember(cache, key, snap) /\ UNCHANGED <<frame, item, db>>
  BY DEF Begin
<1>2. /\ \A d \in Device : \A g \in Stored(d) : \A n \in 1 .. MaxFrame :
           <<g, n>> \in cache'.state[d] =>
             \/ Archived(RowOf(d, g, n))
             \/ d \in changed /\ g \in Written(d, snap[d]) /\ snap[d].grp[g] = n
      /\ \A d \in Known(snap) : cache'.state[d] = StateKey(d, snap[d])
  <2> HIDE DEF key
  <2> QED
    BY <1>1, BeginRemembers DEF key
<1> HIDE DEF changed
<1>3. CASE Rollback(changed)
  <2>1. Return /\ lost \subseteq lost'
    BY <1>3 DEF Rollback
  <2>2. \A d \in Device : \A g \in Stored(d) : \A n \in 1 .. MaxFrame :
          <<g, n>> \in cache'.state[d] => Archived(RowOf(d, g, n))'
    BY <1>1, <1>2, <1>3, <2>1, RolledBack, ArchivedGrows
  <2> QED
    BY <1>1, <1>2, <2>1, <2>2, ReturnRead
<1>4. CASE /\ sink' = [sink EXCEPT !.at = "main", !.changed = changed, !.todo = changed]
           /\ UNCHANGED <<tx, lost, thread>>
  <2>1. /\ sink'.at = "main" /\ sink'.by = sink.by /\ sink'.changed = changed /\ sink'.todo = changed
    BY <1>4 DEF LInv, Types, SinkType
  <2>2. snap' = snap
    BY <1>4, <2>1 DEF snap
  <2>3. Copies'
    BY <1>1, <1>4, CopiesKept DEF Copies
  <2>4. Brought'
    <3>1. \A e \in Device : \A h \in Stored(e) : InFlight(e, h) => InFlight(e, h)'
      BY <1>1, <1>4 DEF InFlight
    <3> QED
      BY <1>1, <1>4, <3>1, BroughtKept
  <2>5. ASSUME NEW d \in Device, NEW g \in Stored(d), NEW n \in 1 .. MaxFrame, <<g, n>> \in cache'.state[d]
        PROVE  Archived(RowOf(d, g, n))' \/ ToWrite(d, g, n)'
    <3>1. CASE Archived(RowOf(d, g, n))
      BY <1>1, <1>4, <3>1, ArchivedGrows
    <3>2. CASE d \in changed /\ g \in Written(d, snap[d]) /\ snap[d].grp[g] = n
      BY <2>1, <2>2, <3>2 DEF ToWrite, Writing
    <3> QED
      BY <1>2, <2>5, <3>1, <3>2
  <2>6. \A d \in Known(snap') : cache'.state[d] = StateKey(d, snap'[d])
    BY <1>2, <2>2
  <2>7. Remembered'
    BY <2>5, <2>6 DEF Remembered
  <2> QED
    BY <2>3, <2>4, <2>7
<1> QED
  BY <1>3, <1>4 DEF Begin, changed

\* A statement fails: all that was to be written is counted as lost, and the dispatch ends.
LEMMA RollbackRead ==
  ASSUME LInv, Copies, Brought, Remembered, sink.at \in Writing, Rollback(sink.changed),
         UNCHANGED <<frame, item, cache, db>>
  PROVE  Copies' /\ Brought' /\ Remembered'
<1>1. Return /\ lost \subseteq lost'
  BY DEF Rollback
<1>2. ASSUME NEW d \in Device, NEW g \in Stored(d), NEW n \in 1 .. MaxFrame, <<g, n>> \in cache'.state[d]
      PROVE  Archived(RowOf(d, g, n))'
  <2>1. Archived(RowOf(d, g, n)) \/ ToWrite(d, g, n)
    BY <1>2 DEF Remembered
  <2>2. CASE ToWrite(d, g, n)
    BY <2>2, RolledBack DEF ToWrite
  <2> QED
    BY <1>1, <2>1, <2>2, ArchivedGrows
<1>3. \A d \in Known(snap) : cache'.state[d] = StateKey(d, snap[d])
  BY DEF Remembered
<1>4. sink.at # "idle"
  BY DEF Writing
<1> QED
  BY <1>1, <1>2, <1>3, <1>4, ReturnRead

\* A statement works: what is still to be written is in the transaction or in todo.
LEMMA WritingRead ==
  ASSUME LInv, Copies, Brought, Remembered, sink.at \in Writing, sink'.at \in Writing,
         sink'.by = sink.by, sink'.changed = sink.changed, tx \subseteq tx',
         \A d \in Device : \A g \in Stored(d) : \A n \in 1 .. MaxFrame :
           ToWrite(d, g, n) /\ d \notin sink'.todo => \E s \in tx' : s.row = RowOf(d, g, n),
         UNCHANGED <<frame, item, cache, db, lost, thread>>
  PROVE  Copies' /\ Brought' /\ Remembered'
<1>1. snap' = snap
  BY DEF snap
<1>2. Copies'
  BY CopiesKept DEF Copies
<1>3. Brought'
  <2>1. \A e \in Device : \A h \in Stored(e) : InFlight(e, h) => InFlight(e, h)'
    BY DEF InFlight
  <2> QED
    BY <2>1, BroughtKept
<1>4. ASSUME NEW d \in Device, NEW g \in Stored(d), NEW n \in 1 .. MaxFrame, <<g, n>> \in cache'.state[d]
      PROVE  Archived(RowOf(d, g, n))' \/ ToWrite(d, g, n)'
  <2>1. Archived(RowOf(d, g, n)) \/ ToWrite(d, g, n)
    BY <1>4 DEF Remembered
  <2>2. CASE Archived(RowOf(d, g, n))
    BY <2>2, ArchivedGrows
  <2>3. CASE ToWrite(d, g, n)
    <3>1. d \in sink'.todo \/ \E s \in tx' : s.row = RowOf(d, g, n)
      BY <2>3
    <3> QED
      BY <1>1, <2>3, <3>1 DEF ToWrite, RowOf, Row
  <2> QED
    BY <2>1, <2>2, <2>3
<1>5. \A d \in Known(snap') : cache'.state[d] = StateKey(d, snap'[d])
  BY <1>1 DEF Remembered
<1>6. Remembered'
  BY <1>4, <1>5 DEF Remembered
<1> QED
  BY <1>2, <1>3, <1>6

\* The main row writes no reading.
LEMMA InsertMainRead ==
  ASSUME LInv, Copies, Brought, Remembered, NEW refused \in BOOLEAN, InsertMain(refused)
  PROVE  Copies' /\ Brought' /\ Remembered'
<1> DEFINE n == [sink EXCEPT !.at = "health", !.id = NextId]
<1>1. sink.at = "main" /\ UNCHANGED <<frame, item, cache, db>>
  BY DEF InsertMain, Insert
<1>2. CASE Rollback(sink.changed)
  BY <1>1, <1>2, RollbackRead DEF Writing
<1>3. CASE sink' = n /\ tx \subseteq tx' /\ UNCHANGED <<thread, lost>>
  <2>1. sink'.at = "health" /\ sink'.by = sink.by /\ sink'.changed = sink.changed /\ sink'.todo = sink.todo
    BY <1>3 DEF LInv, Types, SinkType
  <2>2. \A d \in Device : \A g \in Stored(d) : \A k \in 1 .. MaxFrame :
          ToWrite(d, g, k) /\ d \notin sink'.todo => \E s \in tx' : s.row = RowOf(d, g, k)
    BY <1>3, <2>1 DEF ToWrite
  <2> QED
    BY <1>1, <1>3, <2>1, <2>2, WritingRead DEF Writing
<1> QED
  BY <1>2, <1>3 DEF InsertMain, Insert

\* The health rows write no reading.
LEMMA InsertHealthRead ==
  ASSUME LInv, Copies, Brought, Remembered, NEW refused \in BOOLEAN, InsertHealth(refused)
  PROVE  Copies' /\ Brought' /\ Remembered'
<1> DEFINE n == [sink EXCEPT !.at = "devices"]
<1>1. sink.at = "health" /\ UNCHANGED <<frame, item, cache, db>>
  BY DEF InsertHealth, Insert
<1>2. CASE Rollback(sink.changed)
  BY <1>1, <1>2, RollbackRead DEF Writing
<1>3. CASE sink' = n /\ tx \subseteq tx' /\ UNCHANGED <<thread, lost>>
  <2>1. sink'.at = "devices" /\ sink'.by = sink.by /\ sink'.changed = sink.changed /\ sink'.todo = sink.todo
    BY <1>3 DEF LInv, Types, SinkType
  <2>2. \A d \in Device : \A g \in Stored(d) : \A k \in 1 .. MaxFrame :
          ToWrite(d, g, k) /\ d \notin sink'.todo => \E s \in tx' : s.row = RowOf(d, g, k)
    BY <1>3, <2>1 DEF ToWrite
  <2> QED
    BY <1>1, <1>3, <2>1, <2>2, WritingRead DEF Writing
<1> QED
  BY <1>2, <1>3 DEF InsertHealth, Insert

\* The rows of a device take its readings from the list into the transaction.
LEMMA InsertDeviceRead ==
  ASSUME LInv, Copies, Brought, Remembered, NEW e \in Device, NEW refused \in BOOLEAN, InsertDevice(e, refused)
  PROVE  Copies' /\ Brought' /\ Remembered'
<1> DEFINE n == [sink EXCEPT !.todo = @ \ {e}]
           R == StateRows(e, snap[e])
<1>1. sink.at = "devices" /\ UNCHANGED <<frame, item, cache, db>>
  BY DEF InsertDevice, Insert
<1>2. CASE Rollback(sink.changed)
  BY <1>1, <1>2, RollbackRead DEF Writing
<1>3. CASE sink' = n /\ tx' = tx \cup {[snap |-> n.id, row |-> r] : r \in R} /\ UNCHANGED <<thread, lost>>
  <2>1. /\ sink'.at = sink.at /\ sink'.by = sink.by /\ sink'.changed = sink.changed
        /\ sink'.todo = sink.todo \ {e}
    BY <1>3 DEF LInv, Types, SinkType
  <2>2. ASSUME NEW r \in R PROVE \E s \in tx' : s.row = r
    <3>1. [snap |-> n.id, row |-> r] \in tx'
      BY <1>3
    <3>2. [snap |-> n.id, row |-> r].row = r
      OBVIOUS
    <3> QED
      BY <3>1, <3>2
  <2> HIDE DEF R, n
  <2>3. ASSUME NEW d \in Device, NEW g \in Stored(d), NEW k \in 1 .. MaxFrame,
               ToWrite(d, g, k), d \notin sink'.todo
        PROVE  \E s \in tx' : s.row = RowOf(d, g, k)
    <3>1. CASE d \in sink.todo
      <4>1. d = e
        BY <2>1, <2>3, <3>1
      <4>2. RowOf(d, g, k) \in R
        BY <2>3, <4>1 DEF R, RowOf, StateRows, ToWrite
      <4> QED
        BY <2>2, <4>2
    <3>2. CASE d \notin sink.todo
      BY <1>3, <2>3, <3>2 DEF ToWrite
    <3> QED
      BY <3>1, <3>2
  <2>4. tx \subseteq tx'
    BY <1>3
  <2> QED
    BY <1>1, <1>3, <2>1, <2>3, <2>4, WritingRead DEF Writing
<1> QED
  BY <1>2, <1>3 DEF InsertDevice, Insert

\* A commit archives what was about to be written, a rollback counts it as lost.
LEMMA CommitRead ==
  ASSUME LInv, Copies, Brought, Remembered, NEW refused \in BOOLEAN, Commit(refused)
  PROVE  Copies' /\ Brought' /\ Remembered'
<1>1. sink.at = "devices" /\ sink.todo = {} /\ UNCHANGED <<frame, item, cache>>
  BY DEF Commit
<1>2. CASE Rollback(sink.changed) /\ db' = db
  BY <1>1, <1>2, RollbackRead DEF Writing
<1>3. CASE db' = db \cup tx /\ Return /\ lost' = lost
  <2>1. ASSUME NEW d \in Device, NEW g \in Stored(d), NEW n \in 1 .. MaxFrame, <<g, n>> \in cache'.state[d]
        PROVE  Archived(RowOf(d, g, n))'
    <3>1. Archived(RowOf(d, g, n)) \/ ToWrite(d, g, n)
      BY <1>1, <2>1 DEF Remembered
    <3>2. CASE ToWrite(d, g, n)
      BY <1>1, <1>3, <3>2 DEF ToWrite, Archived, RowOf, Row
    <3> QED
      BY <1>3, <3>1, <3>2, ArchivedGrows
  <2>2. \A d \in Known(snap) : cache'.state[d] = StateKey(d, snap[d])
    BY <1>1 DEF Remembered, Writing
  <2> QED
    BY <1>1, <1>3, <2>1, <2>2, ReturnRead
<1> QED
  BY <1>2, <1>3 DEF Commit

\* What begins anew: no readings, empty caches.
LEMMA Afresh ==
  ASSUME item' = NoSnap, cache' = NoCache, sink'.at = "idle",
         \A t \in Thread : thread'[t].at = "idle"
  PROVE  Copies' /\ Brought' /\ Remembered'
<1>1. \A d \in Device : \A g \in Groups(d) : item'[d].grp[g] = 0
  BY DEF NoSnap, NoItem
<1>2. \A d \in Device : \A k \in cache'.state[d] : k[2] = 0
  <2>1. \A d \in Device : cache'.state[d] = NoKey
    BY DEF NoCache
  <2>2. \A k \in NoKey : k[2] = 0
    BY DEF NoKey
  <2> QED
    BY <2>1, <2>2
<1>3. Copies'
  BY <1>1 DEF Copies, Stamped, Thread
<1>4. Brought'
  BY <1>1, StoredGroups DEF Brought
<1>5. ASSUME NEW d \in Device, NEW g, NEW n \in 1 .. MaxFrame, <<g, n>> \in cache'.state[d] PROVE FALSE
  <2>1. <<g, n>>[2] = 0
    BY <1>2, <1>5
  <2>2. n = 0
    BY <2>1
  <2> QED
    BY <2>2
<1>6. Remembered'
  BY <1>5 DEF Remembered, Writing
<1> QED
  BY <1>3, <1>4, <1>6

\* At the start there is no reading.
LEMMA ReadInit == Init => Copies /\ Brought /\ Remembered
<1> SUFFICES ASSUME Init PROVE Copies /\ Brought /\ Remembered
  OBVIOUS
<1>1. \A d \in Device : \A g \in Groups(d) : item[d].grp[g] = 0
  BY DEF Init, NoSnap, NoItem
<1>2. \A d \in Device : \A k \in cache.state[d] : k[2] = 0
  <2>1. \A d \in Device : cache.state[d] = NoKey
    BY DEF Init, NoCache
  <2>2. \A k \in NoKey : k[2] = 0
    BY DEF NoKey
  <2> QED
    BY <2>1, <2>2
<1>3. Copies
  BY <1>1 DEF Init, Copies, Stamped, Thread, IdleThread
<1>4. Brought
  BY <1>1, StoredGroups DEF Brought
<1>5. ASSUME NEW d \in Device, NEW g, NEW n \in 1 .. MaxFrame, <<g, n>> \in cache.state[d] PROVE FALSE
  <2>1. <<g, n>>[2] = 0
    BY <1>2, <1>5
  <2>2. n = 0
    BY <2>1
  <2> QED
    BY <2>2
<1>6. Remembered
  BY <1>5 DEF Init, IdleSink, Remembered, Writing
<1> QED
  BY <1>3, <1>4, <1>6

\* Every step keeps track of the readings.
LEMMA ReadStep ==
  ASSUME LInv, Copies, Brought, Remembered, [Next]_vars PROVE Copies' /\ Brought' /\ Remembered'
<1>1. CASE Upstream
  BY <1>1, UpstreamRemembered, AnswerRead, MirrorRead, GoesOfflineRead, AggregateRead, ReadHealthRead,
     MergeRead, TakeSnapshotRead DEF Upstream
<1>2. CASE \E t \in Thread : \E due \in BOOLEAN : FileOnSnapshot(t, due)
  BY <1>2, FileRead
<1>3. CASE \E refused \in BOOLEAN : Begin(refused)
  BY <1>3, BeginRead
<1>4. CASE \E refused \in BOOLEAN : InsertMain(refused)
  BY <1>4, InsertMainRead
<1>5. CASE \E refused \in BOOLEAN : InsertHealth(refused)
  BY <1>5, InsertHealthRead
<1>6. CASE \E d \in Device : \E refused \in BOOLEAN : InsertDevice(d, refused)
  BY <1>6, InsertDeviceRead
<1>7. CASE \E refused \in BOOLEAN : Commit(refused)
  BY <1>7, CommitRead
<1>8. CASE Crash
  <2>1. /\ item' = NoSnap /\ cache' = NoCache /\ sink'.at = "idle"
        /\ \A t \in Thread : thread'[t].at = "idle"
    BY <1>8 DEF Crash, IdleSink, IdleThread
  <2> QED
    BY <2>1, Afresh
<1>9. CASE UNCHANGED vars
  <2>1. UNCHANGED <<frame, item, thread, sink, cache, tx, db, lost>> /\ snap' = snap
    BY <1>9 DEF vars, snap
  <2>2. Copies' /\ Brought'
    BY <2>1 DEF Copies, Brought, InFlight, GasArchived, Archived
  <2>3. Remembered'
    BY <2>1 DEF Remembered, ToWrite, Archived
  <2> QED
    BY <2>2, <2>3
<1> QED
  BY <1>1, <1>2, <1>3, <1>4, <1>5, <1>6, <1>7, <1>8, <1>9 DEF Next, Upstream

\* No reading that a device brought is passed over: once AppManager's onParsed has
\* returned, the reading has its row, or its transaction was rolled back.  Neither the timer
\* thread's older snapshot, written later, nor the gas detector's rule of writing only the
\* channel of the last answer makes the change detection skip one.
THEOREM ReadingsStoredAlways == Spec => []ReadingsStored
<1>1. WholeInv /\ Copies /\ Brought /\ Remembered /\ [Next]_vars => (Copies /\ Brought /\ Remembered)'
  BY ReadStep DEF WholeInv
<1>2. Init => Copies /\ Brought /\ Remembered
  BY ReadInit
<1>3. Brought => ReadingsStored
  BY DEF Brought, ReadingsStored, InFlight, Archived, RowOf
<1> QED
  BY <1>1, <1>2, <1>3, WholeAlways, PTL DEF Spec

-----------------------------------------------------------------------------
\* The log of snapshots.

\* Rows R under the number n.
Under(n, R) == {[snap |-> n, row |-> r] : r \in R}

\* The rows a snapshot s has when the devices ds have changed.
SnapshotRows(s, ds) == {MainRow(s)} \cup HealthRows(s) \cup UNION {StateRows(d, s[d]) : d \in ds}

\* What the open transaction holds, row by row.
Held ==
  /\ sink.at \in {"main", "health"} => sink.todo = sink.changed
  /\ sink.at = "health" => tx = Under(sink.id, {MainRow(snap)})
  /\ sink.at = "devices" => tx = Under(sink.id, SnapshotRows(snap, sink.changed \ sink.todo))

\* The numbers in the database are those up to the last snapshot's.
Numbered == {r.snap : r \in db} = 1 .. NextId - 1

\* A step outside the sinks leaves the offer alone.
LEMMA OutsideSinks ==
  ASSUME UNCHANGED <<sink, tx, db>>, sink.at # "idle" => thread'[sink.by] = thread[sink.by]
  PROVE  /\ UNCHANGED HandedIn
         /\ Held => Held'
<1>1. sink.at # "idle" => snap' = snap
  BY DEF snap
<1>2. HandedIn' = HandedIn
  BY <1>1 DEF HandedIn
<1>3. Held => Held'
  BY <1>1 DEF Held
<1> QED
  BY <1>2, <1>3

\* A step that frees the mutex without touching the committed rows drops the snapshot.
LEMMA Dropped ==
  ASSUME db' = db, sink'.at = "idle"
  PROVE  [Log!Next]_(Log!vars) /\ Held'
<1>1. HandedIn' = NoSnap
  BY DEF HandedIn
<1>2. Held'
  BY DEF Held
<1>3. CASE sink.at = "idle"
  <2>1. HandedIn = NoSnap
    BY <1>3 DEF HandedIn
  <2> QED
    BY <1>1, <1>2, <1>3, <2>1 DEF Log!vars
<1>4. CASE sink.at # "idle"
  BY <1>2, <1>4 DEF Log!Next, Log!Finish, Log!Drop
<1> QED
  BY <1>3, <1>4

\* A step within a transaction leaves log and offer alone.
LEMMA Inside ==
  ASSUME sink.at # "idle", sink'.at # "idle", sink'.by = sink.by, thread' = thread, db' = db
  PROVE  snap' = snap /\ UNCHANGED Log!vars
<1>1. snap' = snap
  BY DEF snap
<1>2. HandedIn' = HandedIn
  BY <1>1 DEF HandedIn
<1> QED
  BY <1>1, <1>2 DEF Log!vars

\* Rows that are added under a number.
LEMMA UnderMore == \A n, R, S : Under(n, R) \cup Under(n, S) = Under(n, R \cup S)
BY DEF Under

\* A statement writes its rows, or the snapshot is dropped.
LEMMA Statement ==
  ASSUME LInv, NEW R, NEW refused, NEW n, sink.at # "idle", n.at # "idle", n.by = sink.by, Insert(R, refused, n)
  PROVE  \/ [Log!Next]_(Log!vars) /\ Held'
         \/ /\ tx' = tx \cup Under(n.id, R) /\ sink' = n
            /\ snap' = snap /\ UNCHANGED Log!vars
<1>1. db' = db
  BY DEF Insert
<1>2. CASE Rollback(sink.changed)
  <2>1. sink'.at = "idle"
    BY <1>2 DEF Rollback, Return, IdleSink
  <2> QED
    BY <1>1, <2>1, Dropped
<1>3. CASE tx' = tx \cup {[snap |-> n.id, row |-> r] : r \in R} /\ sink' = n /\ UNCHANGED <<thread, lost>>
  BY <1>1, <1>3, Inside DEF Under
<1> QED
  BY <1>2, <1>3 DEF Insert

\* The main row.
LEMMA MainHeld ==
  ASSUME WholeInv, Held, NEW refused \in BOOLEAN, InsertMain(refused)
  PROVE  [Log!Next]_(Log!vars) /\ Held'
<1> DEFINE n == [sink EXCEPT !.at = "health", !.id = NextId]
<1>1. LInv /\ sink.at = "main" /\ tx = {} /\ sink.todo = sink.changed
  BY DEF InsertMain, WholeInv, Transaction, Held
<1>2. n.at = "health" /\ n.by = sink.by /\ n.todo = sink.todo /\ n.changed = sink.changed
  BY <1>1 DEF LInv, Types, SinkType
<1>3. Insert({MainRow(snap)}, refused, n)
  BY DEF InsertMain
<1> HIDE DEF n
<1>4. CASE tx' = tx \cup Under(n.id, {MainRow(snap)}) /\ sink' = n /\ snap' = snap /\ UNCHANGED Log!vars
  <2>1. tx' = Under(n.id, {MainRow(snap)})
    BY <1>1, <1>4
  <2>2. Held'
    BY <1>1, <1>2, <1>4, <2>1 DEF Held
  <2> QED
    BY <1>4, <2>2
<1> QED
  BY <1>1, <1>2, <1>3, <1>4, Statement

\* The health rows.
LEMMA HealthHeld ==
  ASSUME WholeInv, Held, NEW refused \in BOOLEAN, InsertHealth(refused)
  PROVE  [Log!Next]_(Log!vars) /\ Held'
<1> DEFINE n == [sink EXCEPT !.at = "devices"]
<1>1. LInv /\ sink.at = "health" /\ tx = Under(sink.id, {MainRow(snap)}) /\ sink.todo = sink.changed
  BY DEF InsertHealth, WholeInv, Held
<1>2. n.at = "devices" /\ n.by = sink.by /\ n.todo = sink.todo /\ n.changed = sink.changed /\ n.id = sink.id
  BY <1>1 DEF LInv, Types, SinkType
<1>3. Insert(HealthRows(snap), refused, n)
  BY DEF InsertHealth
<1> HIDE DEF n
<1>4. CASE tx' = tx \cup Under(n.id, HealthRows(snap)) /\ sink' = n /\ snap' = snap /\ UNCHANGED Log!vars
  <2>1. tx' = Under(sink.id, {MainRow(snap)} \cup HealthRows(snap))
    BY <1>1, <1>2, <1>4, UnderMore
  <2>2. n.changed \ n.todo = {}
    BY <1>1, <1>2
  <2>3. SnapshotRows(snap, {}) = {MainRow(snap)} \cup HealthRows(snap)
    BY DEF SnapshotRows
  <2>4. Held'
    BY <1>2, <1>4, <2>1, <2>2, <2>3 DEF Held
  <2> QED
    BY <1>4, <2>4
<1> QED
  BY <1>1, <1>2, <1>3, <1>4, Statement

\* The rows of one changed device.
LEMMA DeviceHeld ==
  ASSUME WholeInv, Held, NEW d \in Device, NEW refused \in BOOLEAN, InsertDevice(d, refused)
  PROVE  [Log!Next]_(Log!vars) /\ Held'
<1> DEFINE n == [sink EXCEPT !.todo = @ \ {d}]
           done == sink.changed \ sink.todo
<1>1. LInv /\ sink.at = "devices" /\ tx = Under(sink.id, SnapshotRows(snap, done))
      /\ d \in sink.todo /\ sink.todo \subseteq sink.changed
  BY DEF InsertDevice, WholeInv, Held, LInv, Mutex
<1>2. n.at = "devices" /\ n.by = sink.by /\ n.todo = sink.todo \ {d} /\ n.changed = sink.changed /\ n.id = sink.id
  BY <1>1 DEF LInv, Types, SinkType
<1>3. Insert(StateRows(d, snap[d]), refused, n)
  BY DEF InsertDevice
<1> HIDE DEF n, done
<1>4. CASE tx' = tx \cup Under(n.id, StateRows(d, snap[d])) /\ sink' = n /\ snap' = snap /\ UNCHANGED Log!vars
  <2>1. tx' = Under(sink.id, SnapshotRows(snap, done) \cup StateRows(d, snap[d]))
    BY <1>1, <1>2, <1>4, UnderMore
  <2>2. n.changed \ n.todo = done \cup {d}
    BY <1>1, <1>2 DEF done
  <2>3. SnapshotRows(snap, done \cup {d}) = SnapshotRows(snap, done) \cup StateRows(d, snap[d])
    BY DEF SnapshotRows
  <2>4. tx' = Under(sink.id, SnapshotRows(snap, n.changed \ n.todo))
    BY <2>1, <2>2, <2>3
  <2>5. Held'
    BY <1>2, <1>4, <2>4 DEF Held
  <2> QED
    BY <1>4, <2>5
<1> QED
  BY <1>1, <1>2, <1>3, <1>4, Statement

\* Numbers change only with the rows.
LEMMA SameNumbers == ASSUME Numbered, db' = db PROVE Numbered'
BY DEF Numbered, NextId

\* Only a commit changes the rows.
LEMMA OnlyCommit == ASSUME [Next]_vars PROVE db' = db \/ \E refused \in BOOLEAN : Commit(refused)
BY DEF Next, Upstream, vars, Answer, Aggregate, Mirror, GoesOffline, ReadHealth, Merge,
   TakeSnapshot, FileOnSnapshot, Begin, InsertMain, InsertHealth, InsertDevice, Insert, Crash

\* The commit appends the whole snapshot.
LEMMA CommitStores ==
  ASSUME WholeInv, Held, Numbered, NEW refused \in BOOLEAN, Commit(refused)
  PROVE  [Log!Next]_(Log!vars) /\ Held' /\ Numbered'
<1>1. LInv /\ Committed /\ Transaction /\ sink.at = "devices" /\ sink.todo = {} /\ sink'.at = "idle"
  BY DEF Commit, WholeInv, Rollback, Return, IdleSink
<1>2. CASE db' = db
  BY <1>1, <1>2, Dropped, SameNumbers
<1>3. CASE db' = db \cup tx
  <2> DEFINE k == Cardinality(MainRows(db))
             R == SnapshotRows(snap, sink.changed)
  <2>1. k \in Nat /\ \A r \in db : r.snap \in 1 .. k
    BY <1>1, FS_CardinalityType DEF Committed
  <2>2. NextId = k + 1 /\ sink.id = k + 1
    BY <1>1, <2>1 DEF NextId, MainRows, Transaction
  <2>3. sink.changed \ {} = sink.changed
    OBVIOUS
  <2>4. tx = Under(k + 1, R)
    BY <1>1, <2>2, <2>3 DEF Held
  <2>5. NextId' = k + 2
    <3>1. MainRows(tx) = {[snap |-> sink.id, row |-> MainRow(snap)]}
      BY <1>1 DEF Transaction
    <3> DEFINE m == [snap |-> sink.id, row |-> MainRow(snap)]
    <3>2. m.snap = k + 1 /\ m \in MainRows(tx)
      BY <2>2, <3>1
    <3> HIDE DEF m
    <3>3. m \notin MainRows(db) /\ IsFiniteSet(MainRows(db))
      <4>1. m \notin db
        BY <2>1, <3>2
      <4> QED
        BY <1>1, <4>1 DEF MainRows, Committed
    <3>4. MainRows(db') = MainRows(db) \cup {m}
      BY <1>3, <3>1 DEF MainRows, m
    <3>5. Cardinality(MainRows(db')) = k + 1
      BY <3>3, <3>4, FS_AddElement
    <3>6. NextId' = 1 + Cardinality(MainRows(db'))
      BY DEF NextId, MainRows
    <3> HIDE DEF k
    <3> QED
      BY <2>1, <3>5, <3>6
  <2>6. Numbered'
    <3> HIDE DEF k
    <3>1. {r.snap : r \in db} = 1 .. k
      BY <2>1, <2>2 DEF Numbered
    <3>2. {r.snap : r \in tx} = {k + 1}
      <4>1. \A r \in tx : r.snap = k + 1
        BY <2>4 DEF Under
      <4>2. tx # {}
        BY <1>1 DEF Transaction, MainRows
      <4> QED
        BY <4>1, <4>2
    <3>3. {r.snap : r \in db'} = {r.snap : r \in db} \cup {r.snap : r \in tx}
      BY <1>3
    <3>4. 1 .. NextId' - 1 = (1 .. k) \cup {k + 1}
      BY <2>1, <2>5
    <3> QED
      BY <3>1, <3>2, <3>3, <3>4 DEF Numbered
  <2>7. k + 1 \in Log!NextNumber
    <3> HIDE DEF k
    <3>1. Log!Numbers = 1 .. k
      BY <2>1, <2>2 DEF Numbered, Log!Numbers
    <3>2. k + 1 = 1 \/ k \in 1 .. k
      BY <2>1
    <3>3. k + 1 \notin 1 .. k
      BY <2>1
    <3> QED
      BY <3>1, <3>2, <3>3 DEF Log!NextNumber
  <2> HIDE DEF k
  <2>8. HandedIn = snap
    BY <1>1 DEF HandedIn
  <2>9. R = AlwaysRows(HandedIn) \cup UNION {DeviceRows(HandedIn, d) : d \in sink.changed}
    BY <2>8 DEF SnapshotRows, AlwaysRows, DeviceRows
  <2> HIDE DEF R
  <2>10. Log!Store(k + 1, sink.changed)
    BY <1>3, <2>4, <2>9 DEF Log!Store, Under
  <2>11. sink.changed \in SUBSET Device
    BY <1>1 DEF LInv, Types, SinkType
  <2>12. Held'
    BY <1>1 DEF Held
  <2> QED
    BY <1>1, <2>6, <2>7, <2>10, <2>11, <2>12 DEF Log!Next, Log!Finish
<1> QED
  BY <1>2, <1>3 DEF Commit

\* Every step of the archive is a step of the log, or none.
LEMMA LogStep ==
  WholeInv /\ Held /\ Numbered /\ [Next]_vars => [Log!Next]_(Log!vars) /\ Held' /\ Numbered'
<1> SUFFICES ASSUME WholeInv, Held, Numbered, [Next]_vars
             PROVE  [Log!Next]_(Log!vars) /\ Held' /\ Numbered'
  OBVIOUS
<1>0. LInv
  BY DEF WholeInv
<1>1. ASSUME UNCHANGED <<sink, tx, db>>, sink.at # "idle" => thread'[sink.by] = thread[sink.by]
      PROVE  [Log!Next]_(Log!vars) /\ Held'
  BY <1>1, OutsideSinks DEF Log!vars
<1>2. ASSUME Upstream PROVE [Log!Next]_(Log!vars) /\ Held'
  BY <1>0, <1>1, <1>2, UpstreamFrame
<1>3. ASSUME NEW t \in Thread, NEW due \in BOOLEAN, FileOnSnapshot(t, due)
      PROVE  [Log!Next]_(Log!vars) /\ Held'
  <2>1. sink.at = "idle" /\ sink'.at = "collect" /\ db' = db
    BY <1>3 DEF FileOnSnapshot, IdleSink
  <2>2. Log!HandIn
    BY <2>1 DEF Log!HandIn
  <2>3. Held'
    BY <2>1 DEF Held
  <2> QED
    BY <2>2, <2>3 DEF Log!Next
<1>4. ASSUME NEW refused \in BOOLEAN, Begin(refused)
      PROVE  [Log!Next]_(Log!vars) /\ Held'
  <2>1. sink.at = "collect" /\ db' = db
    BY <1>4 DEF Begin
  <2>2. CASE Return
    <3>1. sink'.at = "idle"
      BY <2>2 DEF Return, IdleSink
    <3> QED
      BY <2>1, <3>1, Dropped
  <2>3. ASSUME NEW ch, sink' = [sink EXCEPT !.at = "main", !.changed = ch, !.todo = ch], thread' = thread
        PROVE  [Log!Next]_(Log!vars) /\ Held'
    <3>1. sink'.at = "main" /\ sink'.by = sink.by /\ sink'.todo = ch /\ sink'.changed = ch
      BY <1>0, <2>3 DEF LInv, Types, SinkType
    <3>2. UNCHANGED Log!vars
      BY <2>1, <2>3, <3>1, Inside
    <3>3. Held'
      BY <3>1 DEF Held
    <3> QED
      BY <3>2, <3>3
  <2> QED
    BY <1>4, <2>2, <2>3 DEF Begin, Rollback
<1>5. ASSUME Crash PROVE [Log!Next]_(Log!vars) /\ Held'
  <2>1. db' = db /\ sink'.at = "idle"
    BY <1>5 DEF Crash, IdleSink
  <2> QED
    BY <2>1, Dropped
<1>6. ASSUME UNCHANGED vars PROVE [Log!Next]_(Log!vars) /\ Held'
  BY <1>1, <1>6 DEF vars
<1>7. [Log!Next]_(Log!vars) /\ Held'
  BY <1>2, <1>3, <1>4, <1>5, <1>6, MainHeld, HealthHeld, DeviceHeld, CommitStores DEF Next, Upstream
<1>8. Numbered'
  BY OnlyCommit, SameNumbers, CommitStores
<1> QED
  BY <1>7, <1>8

\* At the start the log is empty and nothing is handed in.
LEMMA LogInit == Init => Log!Init /\ Held /\ Numbered
<1> SUFFICES ASSUME Init PROVE Log!Init /\ Held /\ Numbered
  OBVIOUS
<1>1. sink.at = "idle" /\ db = {}
  BY DEF Init, IdleSink
<1>2. NextId = 1
  <2>1. {r \in db : r.row.table = "snapshot_main"} = {}
    BY <1>1
  <2>2. NextId = 1 + Cardinality({})
    BY <2>1 DEF NextId
  <2> QED
    BY <2>2, FS_EmptySet
<1>3. Numbered
  <2>1. 1 .. NextId - 1 = {}
    BY <1>2
  <2> QED
    BY <1>1, <2>1 DEF Numbered
<1> QED
  BY <1>1, <1>3 DEF Log!Init, Held

\* The archive implements a log of whole snapshots (SnapshotLog): onSnapshot of the flat
\* SQLite sink appends the rows of the snapshot it was handed, under the next number and
\* all at once, or none of them, whatever is refused and whenever the program dies; and
\* nothing changes what is in the log.
THEOREM Refinement == Spec => ImplementsLog
BY LogInit, LogStep, WholeAlways, PTL DEF Spec, ImplementsLog, Log!Spec
=============================================================================
