------------------------ MODULE DeviceScheduler_proofs ------------------------
(***************************************************************************)
(* Proofs about DeviceScheduler for any devices, windows and periods and   *)
(* any delays of the two threads.                                          *)
(*                                                                         *)
(* IInv (types, the device a thread has in hand, the spacing of due times) *)
(* carries type correctness and PollSpacing.  TInv adds what bounds the    *)
(* delays: Clock (ticks come in time), Polled (a due time follows a poll   *)
(* or an answer) and Reported (a device shown online is online in the      *)
(* scheduler, will be at the next lock, or has a copy of its health        *)
(* outstanding).  It carries KeepsPolling and SilentIsReported; Reported,  *)
(* and SilentIsReported with it, holds where neither a tick nor a frame    *)
(* takes longer than a window (Timely), and nothing else needs that.       *)
(***************************************************************************)
EXTENDS DeviceScheduler, TLAPS

-----------------------------------------------------------------------------
(* Type correctness.                                                       *)

TimerType == [at : {"idle", "lock", "send", "merge"}, now : Nat, polls : SUBSET Task,
              changed : SUBSET Device, dev : Device \cup {None}, online : BOOLEAN]
ParserType == [at : {"idle", "aggregate", "read", "merge"}, dev : Device \cup {None},
               merges : 0..2, online : BOOLEAN, since : Nat]

\* The ageing of a context keeps its type.
LEMMA AgedType ==
  ASSUME NEW c \in PollCtx, NEW d \in Device, NEW t \in Nat
  PROVE  [c EXCEPT !.online = c.known /\ Recent(c, d, t)] \in PollCtx
<1>1. (c.known /\ Recent(c, d, t)) \in BOOLEAN
  BY DEF Recent
<1>2. QED
  BY <1>1 DEF PollCtx

\* A thread that merges has a device in hand.
DeviceInHand ==
  /\ timer.at = "merge" => timer.dev \in Device
  /\ parser.at # "idle" => parser.dev \in Device
  /\ parser.at # "idle" => parser.merges \in 1..2

\* Due times lie a period after the poll they follow, and polls lie in the past.
Spacing ==
  /\ timer.now <= now
  /\ \A d \in Task :
       /\ ctx[d].lastSend <= now
       /\ ctx[d].lastSend # 0 => due[d] >= ctx[d].lastSend + Period[d]

IInv == TypeOK /\ DeviceInHand /\ Spacing

\* The started scheduler satisfies the invariant.
LEMMA SchedulerInit == Init => IInv
<1> SUFFICES ASSUME Init PROVE IInv
  OBVIOUS
<1>1. ctx \in [Device -> PollCtx]
  BY DEF Init, PollCtx
<1>2. timer \in TimerType
  BY DEF Init, IdleTimer, TimerType
<1>3. parser \in ParserType
  BY DEF Init, IdleParser, ParserType
<1>4. agg \in [Device -> BOOLEAN] /\ due \in [Task -> Nat]
  BY DEF Init
<1>5. /\ now \in Nat /\ tickAt \in Nat /\ running \in BOOLEAN /\ timerOn \in BOOLEAN
      /\ driverUp \in BOOLEAN /\ stopper \in {"up", "scheduler", "parser", "driver"}
  BY DEF Init
<1>6. TypeOK
  BY <1>1, <1>2, <1>3, <1>4, <1>5 DEF TypeOK, TimerType, ParserType
<1>7. DeviceInHand
  BY DEF Init, IdleTimer, IdleParser, DeviceInHand
<1>8. Spacing
  <2>1. timer.now = 0 /\ now = 1
    BY DEF Init, IdleTimer
  <2>2. \A d \in Task : ctx[d].lastSend = 0
    BY SchedulerAssumption DEF Init
  <2>3. QED
    BY <2>1, <2>2 DEF Spacing
<1>9. QED
  BY <1>6, <1>7, <1>8 DEF IInv

\* pollTick's critical section keeps the invariant, and polls only tasks whose last
\* poll is a period old.
LEMMA LockedStep ==
  ASSUME IInv, TickLocked
  PROVE  /\ IInv'
         /\ \A d \in Task : ctx'[d].lastSend # ctx[d].lastSend /\ ctx[d].lastSend # 0 =>
              ctx'[d].lastSend >= ctx[d].lastSend + Period[d]
<1> DEFINE t == timer.now
           aged == [d \in Device |->
                      [ctx[d] EXCEPT !.online = ctx[d].known /\ Recent(ctx[d], d, t)]]
           polls == {d \in Task : IsDue(d, t)}
           changed == {d \in Device : aged[d].online # ctx[d].online}
<1>1. /\ ctx' = [d \in Device |->
                   IF d \in polls THEN [aged[d] EXCEPT !.lastSend = t] ELSE aged[d]]
      /\ due' = [d \in Task |-> IF d \in polls THEN t + Period[d] ELSE due[d]]
      /\ timer' = [timer EXCEPT !.at = "send", !.polls = polls, !.changed = changed]
      /\ UNCHANGED <<now, agg, parser, tickAt, stopVars>>
  BY DEF TickLocked
<1>2. /\ t \in Nat /\ timer \in TimerType /\ ctx \in [Device -> PollCtx] /\ due \in [Task -> Nat]
      /\ now \in Nat /\ t <= now
  BY DEF IInv, TypeOK, TimerType, Spacing
<1>3. \A d \in Device : aged[d] \in PollCtx /\ aged[d].lastSend = ctx[d].lastSend
  <2> SUFFICES ASSUME NEW d \in Device
               PROVE  aged[d] \in PollCtx /\ aged[d].lastSend = ctx[d].lastSend
    OBVIOUS
  <2>1. aged[d] = [ctx[d] EXCEPT !.online = ctx[d].known /\ Recent(ctx[d], d, t)]
    OBVIOUS
  <2>2. ctx[d] \in PollCtx
    BY <1>2
  <2>3. aged[d] \in PollCtx
    BY <1>2, <2>1, <2>2, AgedType
  <2>4. aged[d].lastSend = ctx[d].lastSend
    BY <2>1, <2>2 DEF PollCtx
  <2>5. QED
    BY <2>3, <2>4
<1>4. polls \subseteq Task /\ changed \subseteq Device
  OBVIOUS
<1>5. \A d \in Task : d \in polls <=> due[d] = 0 \/ due[d] <= t
  BY DEF IsDue
<1> HIDE DEF aged, polls, changed, t
<1>6. ctx' \in [Device -> PollCtx]
  BY <1>1, <1>2, <1>3 DEF PollCtx
<1>7. due' \in [Task -> Nat]
  BY <1>1, <1>2, SchedulerAssumption
<1>8. timer' \in TimerType /\ timer'.at = "send" /\ timer'.now = t
  BY <1>1, <1>2, <1>4 DEF TimerType, t
<1>9. TypeOK'
  BY <1>1, <1>6, <1>7, <1>8 DEF IInv, TypeOK, TimerType, stopVars
<1>10. DeviceInHand'
  BY <1>1, <1>8 DEF IInv, DeviceInHand
<1>11. \A d \in Task : /\ ctx[d].lastSend \in Nat /\ due[d] \in Nat /\ Period[d] \in Nat
                       /\ ctx[d].lastSend <= now
                       /\ ctx[d].lastSend # 0 => due[d] >= ctx[d].lastSend + Period[d]
  BY <1>2, SchedulerAssumption DEF IInv, Spacing, PollCtx
<1>12. ASSUME NEW d \in Task
       PROVE  /\ ctx'[d].lastSend <= now
              /\ ctx'[d].lastSend # 0 => due'[d] >= ctx'[d].lastSend + Period[d]
              /\ ctx'[d].lastSend # ctx[d].lastSend /\ ctx[d].lastSend # 0 =>
                   ctx'[d].lastSend >= ctx[d].lastSend + Period[d]
  <2>1. d \in Device
    BY SchedulerAssumption
  <2>2. CASE d \in polls
    <3>1. ctx'[d].lastSend = t /\ due'[d] = t + Period[d]
      BY <1>1, <1>3, <2>1, <2>2 DEF PollCtx
    <3>2. due[d] = 0 \/ due[d] <= t
      BY <1>5, <2>2
    <3>3. QED
      BY <1>2, <1>11, <3>1, <3>2
  <2>3. CASE d \notin polls
    <3>1. ctx'[d].lastSend = ctx[d].lastSend /\ due'[d] = due[d]
      BY <1>1, <1>3, <2>1, <2>3
    <3>2. QED
      BY <1>11, <3>1
  <2>4. QED
    BY <2>2, <2>3
<1>13. Spacing'
  BY <1>1, <1>2, <1>8, <1>12 DEF Spacing
<1>14. QED
  BY <1>9, <1>10, <1>12, <1>13 DEF IInv

\* The section of onDeviceData keeps the invariant and no poll is recorded by it.
LEMMA DataStep ==
  ASSUME IInv, NEW d \in Device, OnDeviceData(d)
  PROVE  IInv' /\ \A e \in Task : ctx'[e].lastSend = ctx[e].lastSend
<1>1. /\ ctx' = [ctx EXCEPT ![d].known = TRUE, ![d].online = TRUE, ![d].lastOk = now]
      /\ due' = IF d \in Task THEN [due EXCEPT ![d] = now + Period[d]] ELSE due
      /\ parser' = [at |-> "aggregate", dev |-> d, merges |-> IF ctx[d].online THEN 1 ELSE 2,
                    online |-> FALSE, since |-> now]
      /\ UNCHANGED <<now, agg, timer, tickAt, stopVars>>
  BY DEF OnDeviceData
<1>2. ctx \in [Device -> PollCtx] /\ due \in [Task -> Nat] /\ now \in Nat
  BY DEF IInv, TypeOK
<1>3. ctx' \in [Device -> PollCtx]
  BY <1>1, <1>2 DEF PollCtx
<1>4. \A e \in Device : ctx'[e].lastSend = ctx[e].lastSend
  BY <1>1, <1>2 DEF PollCtx
<1>5. due' \in [Task -> Nat]
  BY <1>1, <1>2, SchedulerAssumption
<1>6. parser' \in ParserType /\ parser'.dev = d /\ parser'.merges \in 1..2
  BY <1>1, <1>2 DEF ParserType
<1>7. TypeOK'
  BY <1>1, <1>3, <1>5, <1>6 DEF IInv, TypeOK, ParserType, stopVars
<1>8. DeviceInHand'
  BY <1>1, <1>6 DEF IInv, DeviceInHand
<1>9. Spacing'
  <2>1. \A e \in Task : due'[e] = due[e] \/ due'[e] = now + Period[e]
    BY <1>1, <1>2
  <2>2. \A e \in Task : /\ ctx[e].lastSend \in Nat /\ due[e] \in Nat /\ Period[e] \in Nat
                        /\ ctx[e].lastSend <= now
                        /\ ctx[e].lastSend # 0 => due[e] >= ctx[e].lastSend + Period[e]
    BY <1>2, SchedulerAssumption DEF IInv, Spacing, PollCtx
  <2>3. \A e \in Task : ctx'[e].lastSend = ctx[e].lastSend
    BY <1>4, SchedulerAssumption
  <2>4. timer'.now <= now'
    BY <1>1 DEF IInv, Spacing
  <2>5. \A e \in Task : /\ ctx'[e].lastSend <= now
                        /\ ctx'[e].lastSend # 0 => due'[e] >= ctx'[e].lastSend + Period[e]
    BY <1>2, <2>1, <2>2, <2>3
  <2>6. QED
    BY <1>1, <2>4, <2>5 DEF Spacing
<1>10. QED
  BY <1>4, <1>7, <1>8, <1>9, SchedulerAssumption DEF IInv

\* Steps that leave the contexts and the due times alone.
QuietStep == UNCHANGED <<ctx, due>> /\ timer'.now <= now' /\ now <= now'

\* A quiet step keeps the spacing of the polls.
LEMMA QuietSpacing ==
  ASSUME IInv, QuietStep, now' \in Nat
  PROVE  Spacing'
<1>1. \A d \in Task : ctx[d].lastSend \in Nat
  BY SchedulerAssumption DEF IInv, TypeOK, PollCtx
<1>2. \A d \in Task : /\ ctx[d].lastSend <= now
                      /\ ctx[d].lastSend # 0 => due[d] >= ctx[d].lastSend + Period[d]
  BY DEF IInv, Spacing
<1>3. now \in Nat /\ now <= now' /\ timer'.now <= now' /\ ctx' = ctx /\ due' = due
  BY DEF QuietStep, IInv, TypeOK
<1>4. \A d \in Task : ctx[d].lastSend <= now'
  BY <1>1, <1>2, <1>3
<1>5. QED
  BY <1>2, <1>3, <1>4 DEF Spacing

\* The other steps of the timer thread.
LEMMA TimerStep ==
  ASSUME IInv,
         \/ TickBegin \/ TickWriteHealth \/ TickEnd
         \/ \E d \in Device : TickSend(d) \/ TickReadHealth(d)
  PROVE  IInv' /\ ctx' = ctx
<1> USE DEF healthVars, stopVars
<1>0. /\ timer \in TimerType /\ now \in Nat /\ timer.now \in Nat /\ timer.now <= now
      /\ agg \in [Device -> BOOLEAN] /\ ctx \in [Device -> PollCtx] /\ tickAt \in Nat
  BY DEF IInv, TypeOK, TimerType, Spacing
<1>1. /\ UNCHANGED <<now, ctx, due, parser, stopVars>>
      /\ timer' \in TimerType /\ timer'.now <= now
      /\ timer'.at = "merge" => timer'.dev \in Device
      /\ agg' \in [Device -> BOOLEAN] /\ tickAt' \in Nat
  <2>1. CASE TickBegin
    <3>1. timer' = [timer EXCEPT !.at = "lock", !.now = now]
      BY <2>1 DEF TickBegin
    <3>2. timer' \in TimerType /\ timer'.now = now /\ timer'.at = "lock"
      BY <1>0, <3>1 DEF TimerType
    <3>3. UNCHANGED <<now, ctx, due, agg, parser, stopVars>> /\ tickAt' = now
      BY <2>1 DEF TickBegin
    <3>4. QED
      BY <1>0, <3>2, <3>3
  <2>2. CASE TickWriteHealth
    <3>1. timer.online \in BOOLEAN
      BY <1>0 DEF TimerType
    <3>2. agg' \in [Device -> BOOLEAN]
      BY <1>0, <2>2, <3>1 DEF TickWriteHealth
    <3>3. timer' \in TimerType /\ timer'.now <= now /\ timer'.at = "send"
      BY <1>0, <2>2 DEF TickWriteHealth, TimerType
    <3>4. QED
      BY <1>0, <2>2, <3>2, <3>3 DEF TickWriteHealth
  <2>3. CASE TickEnd
    BY <1>0, <2>3 DEF TickEnd, TimerType, IdleTimer
  <2>4. ASSUME NEW d \in Device, TickSend(d)
        PROVE  <1>1!1 /\ <1>1!2 /\ <1>1!3 /\ <1>1!4
    BY <1>0, <2>4 DEF TickSend, TimerType
  <2>5. ASSUME NEW d \in Device, TickReadHealth(d)
        PROVE  <1>1!1 /\ <1>1!2 /\ <1>1!3 /\ <1>1!4
    <3>1. ctx[d].online \in BOOLEAN
      BY <1>0 DEF PollCtx
    <3>2. timer' \in TimerType /\ timer'.now <= now /\ timer'.dev = d
      BY <1>0, <2>5, <3>1 DEF TickReadHealth, TimerType
    <3>3. QED
      BY <1>0, <2>5, <3>2 DEF TickReadHealth
  <2>6. QED
    BY <2>1, <2>2, <2>3, <2>4, <2>5
<1>2. TypeOK'
  BY <1>1 DEF IInv, TypeOK, TimerType
<1>3. DeviceInHand'
  BY <1>1 DEF IInv, DeviceInHand
<1>4. Spacing'
  BY <1>0, <1>1, QuietSpacing DEF QuietStep
<1>5. QED
  BY <1>1, <1>2, <1>3, <1>4 DEF IInv

\* The other steps of the parser thread.
LEMMA ParserStep ==
  ASSUME IInv, AggregatorOnDeviceData \/ ReadHealth \/ WriteHealth
  PROVE  IInv' /\ ctx' = ctx
<1> USE DEF healthVars, stopVars
<1>0. /\ parser \in ParserType /\ now \in Nat /\ timer.now <= now
      /\ agg \in [Device -> BOOLEAN] /\ ctx \in [Device -> PollCtx]
      /\ parser.at # "idle" => parser.dev \in Device /\ parser.merges \in 1..2
  BY DEF IInv, TypeOK, ParserType, Spacing, DeviceInHand
<1>1. /\ UNCHANGED <<now, ctx, due, timer, tickAt, stopVars>>
      /\ parser' \in ParserType
      /\ parser'.at # "idle" => parser'.dev \in Device /\ parser'.merges \in 1..2
      /\ agg' \in [Device -> BOOLEAN]
  <2>1. CASE AggregatorOnDeviceData
    BY <1>0, <2>1 DEF AggregatorOnDeviceData, ParserType
  <2>2. CASE ReadHealth
    <3>1. ctx[parser.dev].online \in BOOLEAN
      BY <1>0, <2>2 DEF PollCtx, ReadHealth
    <3>2. parser' \in ParserType /\ parser'.dev = parser.dev /\ parser'.merges = parser.merges
      BY <1>0, <2>2, <3>1 DEF ReadHealth, ParserType
    <3>3. QED
      BY <1>0, <2>2, <3>2 DEF ReadHealth
  <2>3. CASE WriteHealth
    <3>1. parser.online \in BOOLEAN
      BY <1>0 DEF ParserType
    <3>2. agg' \in [Device -> BOOLEAN]
      BY <1>0, <2>3, <3>1 DEF WriteHealth
    <3>3. CASE parser.merges > 1
      <4>1. parser' = [parser EXCEPT !.at = "read", !.merges = parser.merges - 1]
        BY <2>3, <3>3 DEF WriteHealth
      <4>2. parser.merges - 1 \in 1..2 /\ parser.merges - 1 \in 0..2 /\ parser.dev \in Device
        BY <1>0, <2>3, <3>3 DEF WriteHealth
      <4>3. parser' \in ParserType /\ parser'.dev = parser.dev /\ parser'.merges = parser.merges - 1
        BY <1>0, <4>1, <4>2 DEF ParserType
      <4>4. QED
        BY <2>3, <3>2, <4>2, <4>3 DEF WriteHealth
    <3>4. CASE ~(parser.merges > 1)
      BY <1>0, <2>3, <3>2, <3>4 DEF WriteHealth, ParserType, IdleParser
    <3>5. QED
      BY <3>3, <3>4
  <2>4. QED
    BY <2>1, <2>2, <2>3
<1>2. TypeOK'
  BY <1>1 DEF IInv, TypeOK, ParserType
<1>3. DeviceInHand'
  BY <1>1 DEF IInv, DeviceInHand
<1>4. Spacing'
  BY <1>0, <1>1, QuietSpacing DEF QuietStep
<1>5. QED
  BY <1>1, <1>2, <1>3, <1>4 DEF IInv

\* The clock and the stages of stop.
LEMMA OtherStep ==
  ASSUME IInv, Advance \/ SchedulerStop \/ ParserStop \/ DriverStop \/ UNCHANGED vars
  PROVE  IInv' /\ ctx' = ctx
<1> USE DEF healthVars, stopVars
<1>0. /\ now \in Nat /\ timer.now \in Nat /\ timer.now <= now
      /\ running \in BOOLEAN /\ timerOn \in BOOLEAN
  BY DEF IInv, TypeOK, Spacing
<1>1. UNCHANGED <<ctx, due, agg, timer, parser, tickAt>>
  BY DEF Advance, SchedulerStop, ParserStop, DriverStop, vars
<1>2. now' \in Nat /\ now <= now'
  <2>1. now' = now + 1 \/ now' = now
    BY DEF Advance, SchedulerStop, ParserStop, DriverStop, vars
  <2>2. QED
    BY <1>0, <2>1
<1>3. /\ running' \in BOOLEAN /\ timerOn' \in BOOLEAN /\ driverUp' \in BOOLEAN
      /\ stopper' \in {"up", "scheduler", "parser", "driver"}
  <2>1. CASE SchedulerStop
    BY <1>0, <2>1 DEF SchedulerStop, IInv, TypeOK
  <2>2. CASE Advance \/ ParserStop \/ DriverStop \/ UNCHANGED vars
    BY <2>2 DEF Advance, ParserStop, DriverStop, vars, IInv, TypeOK
  <2>3. QED
    BY <2>1, <2>2
<1>4. TypeOK'
  BY <1>1, <1>2, <1>3 DEF IInv, TypeOK
<1>5. DeviceInHand'
  BY <1>1 DEF IInv, DeviceInHand
<1>6. Spacing'
  BY <1>0, <1>1, <1>2, QuietSpacing DEF QuietStep
<1>7. QED
  BY <1>1, <1>4, <1>5, <1>6 DEF IInv

-----------------------------------------------------------------------------
(* The theorems.                                                           *)

\* What PollSpacing says of one step.
SpacedStep ==
  \A d \in Task : ctx'[d].lastSend # ctx[d].lastSend /\ ctx[d].lastSend # 0 =>
    ctx'[d].lastSend >= ctx[d].lastSend + Period[d]

\* Every step of the two threads, of the clock and of stop keeps the invariant and
\* the spacing.
LEMMA NextStep == IInv /\ [Next]_vars => IInv' /\ SpacedStep
<1> SUFFICES ASSUME IInv, [Next]_vars PROVE IInv' /\ SpacedStep
  OBVIOUS
<1>1. CASE TickLocked
  BY <1>1, LockedStep DEF SpacedStep
<1>2. CASE \E d \in Device : OnDeviceData(d)
  BY <1>2, DataStep DEF SpacedStep
<1>3. CASE \/ TickBegin \/ TickWriteHealth \/ TickEnd
           \/ \E d \in Device : TickSend(d) \/ TickReadHealth(d)
  BY <1>3, TimerStep DEF SpacedStep
<1>4. CASE AggregatorOnDeviceData \/ ReadHealth \/ WriteHealth
  BY <1>4, ParserStep DEF SpacedStep
<1>5. CASE Advance \/ SchedulerStop \/ ParserStop \/ DriverStop \/ UNCHANGED vars
  BY <1>5, OtherStep DEF SpacedStep
<1>6. QED
  BY <1>1, <1>2, <1>3, <1>4, <1>5 DEF Next

\* The scheduler's tables keep their types however the timer thread, the parser
\* thread and stop interleave.
THEOREM TypeCorrect == Spec => []TypeOK
<1>1. IInv => TypeOK
  BY DEF IInv
<1>2. QED
  BY <1>1, SchedulerInit, NextStep, PTL DEF Spec

\* Two polls of a device are at least its period apart, although onDeviceData moves
\* the due time from the other thread and pollTick uses a time read before the lock.
THEOREM PollsAreSpaced == Spec => PollSpacing
<1>1. IInv /\ [Next]_vars => [SpacedStep]_vars
  BY NextStep
<1>2. [][SpacedStep]_vars => PollSpacing
  BY PTL DEF PollSpacing, SpacedStep
<1>3. QED
  BY <1>1, <1>2, SchedulerInit, NextStep, PTL DEF Spec

-----------------------------------------------------------------------------
(* Timeliness.                                                             *)

\* A tick and the handling of a frame take no longer than any window.
Timely ==
  \A d \in Device : TickLatency <= Window[d] /\ ParserStall <= Window[d]

\* The timer thread is never stopped and no tick is later than TickLatency; a
\* tick that has not locked yet has the time of its start.
Clock ==
  /\ timerOn /\ 1 <= now /\ tickAt <= now /\ now <= tickAt + TickLatency
  /\ timer.at = "lock" => timer.now = tickAt
  /\ timer.at \in {"idle", "lock"} => timer.changed = {}
  /\ \A d \in Device : ctx[d].lastOk <= now

\* How long ago the last tick that locked may have started: one latency more
\* while another has started and waits for the lock.
Slack == IF timer.at = "lock" THEN TickLatency ELSE 0

\* A due time follows a poll or an answer, and a tick polls what is due.
Polled ==
  \A d \in Task :
    /\ due[d] <= ctx[d].lastSend + Period[d] \/ due[d] <= ctx[d].lastOk + Period[d]
    /\ \/ tickAt <= ctx[d].lastSend + Period[d] + Slack
       \/ tickAt <= ctx[d].lastOk + Period[d] + Slack

\* The tick that locks next will find the device recent.
Coming(d) ==
  /\ ctx[d].known /\ ctx[d].lastOk # 0
  /\ IF timer.at = "lock" THEN Recent(ctx[d], d, timer.now)
                          ELSE tickAt + TickLatency <= ctx[d].lastOk + Window[d]

\* The timer thread still has to copy the health of the device.
Pending(d) == d \in timer.changed \/ (timer.at = "merge" /\ timer.dev = d)

\* A device the aggregator shows online is online in the scheduler, or will be
\* at the next tick, or is about to be copied; each of these ends in time.
Reported ==
  /\ parser.at # "idle" =>
       /\ parser.since = ctx[parser.dev].lastOk /\ now <= parser.since + ParserStall
       /\ ctx[parser.dev].online \/ Coming(parser.dev)
       /\ ctx[parser.dev].known /\ ctx[parser.dev].lastOk # 0
  /\ timer.at = "merge" /\ timer.online => ctx[timer.dev].online
  /\ \A d \in Device :
       /\ agg[d] => ctx[d].online \/ Coming(d) \/ Pending(d)
       /\ ctx[d].online => tickAt <= ctx[d].lastOk + Window[d] + Slack
       /\ Pending(d) => tickAt <= ctx[d].lastOk + Window[d] + TickLatency

TInv == IInv /\ Clock /\ Polled /\ (Timely => Reported)

\* The numbers and flags the bounds are made of.
LEMMA Numbers ==
  IInv => /\ now \in Nat /\ tickAt \in Nat /\ timer.now \in Nat /\ TickLatency \in Nat /\ ParserStall \in Nat
          /\ \A d \in Device : /\ ctx[d] \in PollCtx /\ ctx[d].lastOk \in Nat /\ ctx[d].lastSend \in Nat
                               /\ ctx[d].online \in BOOLEAN /\ ctx[d].known \in BOOLEAN
                               /\ agg[d] \in BOOLEAN /\ Window[d] \in Nat
          /\ \A d \in Task : d \in Device /\ due[d] \in Nat /\ Period[d] \in Nat /\ 1 <= Period[d]
<1> SUFFICES ASSUME IInv PROVE Numbers!2
  OBVIOUS
<1>1. now \in Nat /\ tickAt \in Nat /\ timer.now \in Nat /\ TickLatency \in Nat /\ ParserStall \in Nat
  BY SchedulerAssumption DEF IInv, TypeOK
<1>2. \A d \in Device : ctx[d] \in PollCtx /\ agg[d] \in BOOLEAN
  BY DEF IInv, TypeOK
<1>3. \A d \in Device : /\ ctx[d].lastOk \in Nat /\ ctx[d].lastSend \in Nat
                        /\ ctx[d].online \in BOOLEAN /\ ctx[d].known \in BOOLEAN
  BY <1>2 DEF PollCtx
<1>4. \A d \in Device : Window[d] \in Nat
  BY SchedulerAssumption
<1>5. \A d \in Task : d \in Device /\ due[d] \in Nat
  BY SchedulerAssumption DEF IInv, TypeOK
<1>6. \A d \in Task : Period[d] \in Nat /\ 1 <= Period[d]
  <2>1. \A d \in Task : Period[d] \in Nat \ {0}
    BY SchedulerAssumption
  <2> QED
    BY <2>1
<1> QED
  BY <1>1, <1>2, <1>3, <1>4, <1>5, <1>6

\* At the start nothing is due, online or in flight.
LEMMA TimelyInit == Init => TInv
<1> SUFFICES ASSUME Init PROVE TInv
  OBVIOUS
<1>1. IInv
  BY SchedulerInit
<1>2. /\ now = 1 /\ tickAt = 1 /\ timerOn /\ timer = IdleTimer /\ parser = IdleParser
      /\ \A d \in Device : ~ctx[d].online /\ ctx[d].lastOk = 0 /\ ctx[d].lastSend = 0 /\ ~agg[d]
      /\ \A d \in Task : due[d] = 0
  BY DEF Init
<1>3. timer.at = "idle" /\ timer.changed = {} /\ parser.at = "idle" /\ Slack = 0
  BY <1>2 DEF IdleTimer, IdleParser, Slack
<1>4. Clock
  BY <1>1, <1>2, <1>3, Numbers DEF Clock
<1>5. Polled
  <2> SUFFICES ASSUME NEW d \in Task
               PROVE  due[d] <= ctx[d].lastSend + Period[d] /\ tickAt <= ctx[d].lastSend + Period[d] + Slack
    BY DEF Polled
  <2>1. due[d] = 0 /\ ctx[d].lastSend = 0 /\ Period[d] \in Nat /\ 1 <= Period[d]
    BY <1>1, <1>2, Numbers
  <2> QED
    BY <2>1, <1>2, <1>3
<1>6. Reported
  BY <1>2, <1>3 DEF Reported, Pending
<1> QED
  BY <1>1, <1>4, <1>5, <1>6 DEF TInv

\* Time passes only while neither thread is late.
LEMMA TimelyAdvance == ASSUME TInv, Advance PROVE Clock' /\ Polled' /\ (Timely => Reported')
<1>1. /\ now' = now + 1 /\ UNCHANGED <<ctx, due, agg, timer, parser, tickAt, timerOn>>
      /\ timerOn => now < tickAt + TickLatency
      /\ parser.at # "idle" => now < parser.since + ParserStall
  BY DEF Advance, healthVars, stopVars
<1>2. IInv /\ Clock
  BY DEF TInv
<1>3. Clock'
  <2>1. now + 1 <= tickAt + TickLatency /\ tickAt <= now + 1 /\ 1 <= now + 1
    BY <1>1, <1>2, Numbers DEF Clock
  <2>2. ASSUME NEW d \in Device PROVE ctx[d].lastOk <= now + 1
    <3>1. ctx[d].lastOk <= now /\ ctx[d].lastOk \in Nat /\ now \in Nat
      BY <1>2, Numbers DEF Clock
    <3> QED
      BY <3>1
  <2> QED
    BY <1>1, <1>2, <2>1, <2>2 DEF Clock
<1>4. Polled'
  BY <1>1 DEF TInv, Polled, Slack
<1>5. ASSUME Timely PROVE Reported'
  <2>1. parser.at # "idle" => now + 1 <= parser.since + ParserStall
    <3>1. parser.since \in Nat
      BY <1>2 DEF IInv, TypeOK
    <3> QED
      BY <1>1, <1>2, <3>1, Numbers
  <2> QED
    BY <1>1, <1>5, <2>1 DEF TInv, Reported, Slack, Coming, Pending, Recent
<1> QED
  BY <1>3, <1>4, <1>5

\* A tick reads the clock: what was recent enough for the next tick is recent for it.
LEMMA TimelyBegin == ASSUME TInv, TickBegin PROVE Clock' /\ Polled' /\ (Timely => Reported')
<1>1. /\ timer.at = "idle" /\ timer' = [timer EXCEPT !.at = "lock", !.now = now] /\ tickAt' = now
      /\ UNCHANGED <<now, ctx, due, agg, parser, timerOn>>
  BY DEF TickBegin, healthVars, stopVars
<1>2. IInv /\ Clock
  BY DEF TInv
<1>3. /\ timer'.at = "lock" /\ timer'.now = now /\ timer'.changed = {} /\ timer.changed = {}
  <2>1. timer \in TimerType
    BY <1>2 DEF IInv, TypeOK, TimerType
  <2> QED
    BY <1>1, <1>2, <2>1 DEF TimerType, Clock
<1>4. Clock'
  BY <1>1, <1>2, <1>3, Numbers DEF Clock
<1>5. Slack = 0 /\ Slack' = TickLatency /\ now <= tickAt + TickLatency
  BY <1>1, <1>2, <1>3 DEF Slack, Clock
<1>6. Polled'
  BY <1>1, <1>2, <1>5, Numbers DEF TInv, Polled
<1>7. ASSUME NEW d \in Device, Coming(d) PROVE Coming(d)'
  <2>1. /\ ctx[d].known /\ ctx[d].lastOk # 0 /\ tickAt + TickLatency <= ctx[d].lastOk + Window[d]
        /\ ctx[d].lastOk <= now
    BY <1>1, <1>2, <1>7 DEF Coming, Clock
  <2>2. now - ctx[d].lastOk <= Window[d]
    BY <1>2, <1>5, <2>1, Numbers
  <2> QED
    BY <1>1, <1>3, <2>1, <2>2 DEF Coming, Recent
<1>8. \A d \in Device : ~Pending(d) /\ ~Pending(d)'
  BY <1>1, <1>3 DEF Pending
<1>9. ASSUME Timely, NEW d \in Device, ctx[d].online PROVE now <= ctx[d].lastOk + Window[d] + TickLatency
  BY <1>2, <1>5, <1>9, Numbers DEF TInv, Reported
<1>10. parser.at # "idle" => parser.dev \in Device
  BY <1>2 DEF IInv, DeviceInHand
<1>11. ASSUME Timely PROVE Reported'
  BY <1>1, <1>3, <1>5, <1>7, <1>8, <1>9, <1>10, <1>11 DEF TInv, Reported
<1> QED
  BY <1>4, <1>6, <1>11

\* The ticks after their critical section, and its end.
LEMMA TimelyTimer ==
  ASSUME TInv, TickWriteHealth \/ TickEnd \/ \E d \in Device : TickSend(d) \/ TickReadHealth(d)
  PROVE  Clock' /\ Polled' /\ (Timely => Reported')
<1>1. /\ timer.at \in {"send", "merge"} /\ UNCHANGED <<now, ctx, due, parser, tickAt, timerOn>>
  BY DEF TickWriteHealth, TickEnd, TickSend, TickReadHealth, healthVars, stopVars
<1>2. IInv /\ Clock /\ timer \in TimerType
  BY DEF TInv, IInv, TypeOK, TimerType
<1> DEFINE Left(d) == d \in timer'.changed \/ (timer'.at = "merge" /\ timer'.dev = d)
<1>3. /\ timer'.at # "lock"
      /\ timer'.at = "idle" => timer'.changed = {}
      /\ \A d \in Device : Left(d) => Pending(d)
      /\ Reported =>
           /\ timer'.at = "merge" /\ timer'.online => ctx[timer'.dev].online
           /\ \A d \in Device : agg'[d] => ctx[d].online \/ Coming(d) \/ Left(d)
  <2>1. CASE TickWriteHealth
    <3>1. /\ timer'.at = "send" /\ timer'.changed = timer.changed /\ timer.at = "merge"
          /\ agg' = [agg EXCEPT ![timer.dev] = timer.online] /\ timer.dev \in Device
      BY <1>2, <2>1 DEF TickWriteHealth, TimerType, IInv, DeviceInHand
    <3>2. ASSUME Reported, NEW d \in Device, agg'[d] PROVE ctx[d].online \/ Coming(d) \/ d \in timer.changed
      <4>1. CASE d = timer.dev
        <5>1. timer.online
          BY <3>1, <3>2, <4>1, <1>2 DEF IInv, TypeOK
        <5> QED
          BY <3>1, <3>2, <4>1, <5>1 DEF Reported
      <4>2. CASE d # timer.dev
        BY <3>1, <3>2, <4>2, <1>2 DEF Reported, Pending, IInv, TypeOK
      <4> QED
        BY <4>1, <4>2
    <3> QED
      BY <3>1, <3>2 DEF Pending
  <2>2. CASE TickEnd
    BY <1>2, <2>2 DEF TickEnd, IdleTimer, Pending, Reported, healthVars
  <2>3. ASSUME NEW e \in Device, TickSend(e) PROVE <1>3
    <3>1. /\ timer'.at = "send" /\ timer'.changed = timer.changed /\ agg' = agg
          /\ timer.at = "send" /\ timer'.dev = timer.dev
      BY <1>2, <2>3 DEF TickSend, TimerType, healthVars
    <3> QED
      BY <1>2, <3>1 DEF Pending, Reported
  <2>4. ASSUME NEW e \in Device, TickReadHealth(e) PROVE <1>3
    <3>1. /\ timer'.at = "merge" /\ timer'.changed = timer.changed \ {e} /\ agg' = agg
          /\ timer.at = "send" /\ timer'.dev = e /\ timer'.online = ctx[e].online /\ e \in timer.changed
      BY <1>2, <2>4 DEF TickReadHealth, TimerType, healthVars
    <3> QED
      BY <1>2, <3>1 DEF Pending, Reported
  <2> QED
    BY <2>1, <2>2, <2>3, <2>4
<1>4. Slack = 0 /\ Slack' = 0
  BY <1>1, <1>3 DEF Slack
<1>5. \A d : Coming(d)' <=> Coming(d)
  BY <1>1, <1>3 DEF Coming
<1>6. \A d : Pending(d)' <=> Left(d)
  BY DEF Pending
<1> HIDE DEF Left
<1>7. Clock'
  BY <1>1, <1>2, <1>3 DEF Clock
<1>8. Polled'
  BY <1>1, <1>4 DEF TInv, Polled
<1>9. ASSUME Timely PROVE Reported'
  <2>1. Reported
    BY <1>9 DEF TInv
  <2> QED
    BY <1>1, <1>2, <1>3, <1>4, <1>5, <1>6, <2>1 DEF Reported
<1> QED
  BY <1>7, <1>8, <1>9

\* The parser thread writes TRUE only for the device it has just heard from.
LEMMA TimelyParser ==
  ASSUME TInv, AggregatorOnDeviceData \/ ReadHealth \/ WriteHealth
  PROVE  Clock' /\ Polled' /\ (Timely => Reported')
<1>1. /\ parser.at # "idle" /\ UNCHANGED <<now, ctx, due, timer, tickAt, timerOn>>
  BY DEF AggregatorOnDeviceData, ReadHealth, WriteHealth, healthVars, stopVars
<1>2. IInv /\ Clock /\ parser \in ParserType /\ agg \in [Device -> BOOLEAN] /\ parser.dev \in Device
  BY <1>1 DEF TInv, IInv, TypeOK, ParserType, DeviceInHand
<1>3. parser'.at # "idle" => parser'.dev = parser.dev /\ parser'.since = parser.since
  <2>1. CASE AggregatorOnDeviceData \/ ReadHealth
    BY <1>2, <2>1 DEF AggregatorOnDeviceData, ReadHealth, ParserType
  <2>2. CASE WriteHealth
    <3>1. parser' = [parser EXCEPT !.at = "read", !.merges = parser.merges - 1] \/ parser' = IdleParser
      BY <2>2 DEF WriteHealth
    <3>2. CASE parser' = [parser EXCEPT !.at = "read", !.merges = parser.merges - 1]
      BY <1>2, <3>2 DEF ParserType
    <3>3. CASE parser' = IdleParser
      BY <3>3 DEF IdleParser
    <3> QED
      BY <3>1, <3>2, <3>3
  <2> QED
    BY <2>1, <2>2
<1>4. \A d \in Device : agg'[d] => agg[d] \/ d = parser.dev
  BY <1>2 DEF AggregatorOnDeviceData, ReadHealth, WriteHealth, healthVars
<1>5. Clock' /\ Polled'
  BY <1>1, <1>2 DEF TInv, Clock, Polled, Slack
<1>6. Slack' = Slack /\ \A d : (Coming(d)' <=> Coming(d)) /\ (Pending(d)' <=> Pending(d))
  BY <1>1 DEF Slack, Coming, Pending, Recent
<1>7. ASSUME Timely PROVE Reported'
  <2>1. Reported
    BY <1>7 DEF TInv
  <2> QED
    BY <1>1, <1>2, <1>3, <1>4, <1>6, <2>1 DEF Reported
<1> QED
  BY <1>5, <1>7

\* stop never reaches the timer.
LEMMA TimelyStop ==
  ASSUME TInv, SchedulerStop \/ ParserStop \/ DriverStop \/ UNCHANGED vars
  PROVE  Clock' /\ Polled' /\ (Timely => Reported')
<1>1. UNCHANGED <<now, ctx, due, agg, timer, parser, tickAt>>
  BY DEF SchedulerStop, ParserStop, DriverStop, vars, healthVars, stopVars
<1>2. timerOn' = timerOn
  <2>1. CASE SchedulerStop
    BY <2>1 DEF SchedulerStop
  <2>2. CASE ParserStop \/ DriverStop \/ UNCHANGED vars
    BY <2>2 DEF ParserStop, DriverStop, vars, stopVars
  <2> QED
    BY <2>1, <2>2
<1> QED
  BY <1>1, <1>2 DEF TInv, Clock, Polled, Reported, Slack, Coming, Pending, Recent

\* pollTick's critical section: what is due is polled, every device is judged by
\* the time of the tick, and the devices whose judgement changed are left to copy.
LEMMA TimelyLocked == ASSUME TInv, TickLocked PROVE Clock' /\ Polled' /\ (Timely => Reported')
<1> DEFINE t == timer.now
           aged == [d \in Device |->
                      [ctx[d] EXCEPT !.online = ctx[d].known /\ Recent(ctx[d], d, t)]]
           polls == {d \in Task : IsDue(d, t)}
           changed == {d \in Device : aged[d].online # ctx[d].online}
<1>1. /\ timer.at = "lock"
      /\ ctx' = [d \in Device |->
                   IF d \in polls THEN [aged[d] EXCEPT !.lastSend = t] ELSE aged[d]]
      /\ due' = [d \in Task |-> IF d \in polls THEN t + Period[d] ELSE due[d]]
      /\ timer' = [timer EXCEPT !.at = "send", !.polls = polls, !.changed = changed]
      /\ UNCHANGED <<now, agg, parser, tickAt, timerOn>>
  BY DEF TickLocked, stopVars
<1>2. IInv /\ Clock /\ Polled /\ timer \in TimerType /\ t = tickAt
  BY <1>1 DEF TInv, IInv, TypeOK, TimerType, Clock
<1>3. ASSUME NEW d \in Device
      PROVE  /\ aged[d] \in PollCtx
             /\ aged[d].known = ctx[d].known /\ aged[d].lastOk = ctx[d].lastOk
             /\ aged[d].online = (ctx[d].known /\ Recent(ctx[d], d, t))
             /\ aged[d].lastSend = ctx[d].lastSend
  <2>1. aged[d] = [ctx[d] EXCEPT !.online = ctx[d].known /\ Recent(ctx[d], d, t)]
    OBVIOUS
  <2>2. ctx[d] \in PollCtx /\ t \in Nat
    BY <1>2, Numbers
  <2>3. aged[d] \in PollCtx
    BY <2>1, <2>2, AgedType
  <2> QED
    BY <2>1, <2>2, <2>3 DEF PollCtx
<1>4. \A d \in Device : d \in changed <=> aged[d].online # ctx[d].online
  OBVIOUS
<1>5. \A d \in Task : d \in polls <=> due[d] = 0 \/ due[d] <= t
  BY DEF IsDue
<1> HIDE DEF aged, polls, changed, t
<1>6. ASSUME NEW d \in Device
      PROVE  /\ ctx'[d].known = ctx[d].known /\ ctx'[d].lastOk = ctx[d].lastOk
             /\ ctx'[d].online = (ctx[d].known /\ Recent(ctx[d], d, t))
             /\ ctx'[d].lastSend = IF d \in polls THEN t ELSE ctx[d].lastSend
  BY <1>1, <1>3 DEF PollCtx
<1>7. /\ timer'.at = "send" /\ timer'.changed = changed
  BY <1>1, <1>2 DEF TimerType
<1>8. Slack = TickLatency /\ Slack' = 0
  BY <1>1, <1>7 DEF Slack
<1>9. Clock'
  BY <1>1, <1>2, <1>6, <1>7 DEF Clock
<1>10. Polled'
  <2> SUFFICES ASSUME NEW d \in Task
               PROVE  \/ due'[d] <= ctx'[d].lastSend + Period[d] /\ tickAt <= ctx'[d].lastSend + Period[d]
                      \/ due'[d] <= ctx'[d].lastOk + Period[d] /\ tickAt <= ctx'[d].lastOk + Period[d]
    <3>1. \A d \in Task : \/ due'[d] <= ctx'[d].lastSend + Period[d] /\ tickAt <= ctx'[d].lastSend + Period[d]
                          \/ due'[d] <= ctx'[d].lastOk + Period[d] /\ tickAt <= ctx'[d].lastOk + Period[d]
      OBVIOUS
    <3>2. \A d \in Task : ctx'[d].lastSend + Period[d] \in Nat /\ ctx'[d].lastOk + Period[d] \in Nat
      <4>1. \A d \in Task : ctx'[d].lastSend \in Nat /\ ctx'[d].lastOk \in Nat /\ Period[d] \in Nat
        BY <1>2, <1>6, Numbers
      <4> QED
        BY <4>1
    <3>3. \A d \in Task : /\ ctx'[d].lastSend + Period[d] + Slack' = ctx'[d].lastSend + Period[d]
                          /\ ctx'[d].lastOk + Period[d] + Slack' = ctx'[d].lastOk + Period[d]
      BY <1>8, <3>2
    <3> QED
      BY <1>1, <3>1, <3>3 DEF Polled
  <2>1. /\ d \in Device /\ due[d] \in Nat /\ Period[d] \in Nat /\ ctx[d].lastSend \in Nat
        /\ ctx[d].lastOk \in Nat /\ tickAt \in Nat
    BY <1>2, Numbers
  <2>2. due[d] <= ctx[d].lastSend + Period[d] \/ due[d] <= ctx[d].lastOk + Period[d]
    BY <1>2 DEF Polled
  <2>3. CASE d \in polls
    <3>1. ctx'[d].lastSend = tickAt /\ due'[d] = tickAt + Period[d]
      BY <1>1, <1>2, <1>6, <2>1, <2>3
    <3> QED
      BY <2>1, <3>1
  <2>4. CASE d \notin polls
    <3>1. ctx'[d].lastSend = ctx[d].lastSend /\ due'[d] = due[d] /\ ctx'[d].lastOk = ctx[d].lastOk
      BY <1>1, <1>6, <2>1, <2>4
    <3>2. ~(due[d] <= tickAt)
      BY <1>2, <1>5, <2>4
    <3> QED
      BY <2>1, <2>2, <3>1, <3>2
  <2> QED
    BY <2>3, <2>4
<1>11. ASSUME NEW d \in Device
       PROVE  Coming(d)' <=> /\ ctx[d].known /\ ctx[d].lastOk # 0
                             /\ tickAt + TickLatency <= ctx[d].lastOk + Window[d]
  BY <1>1, <1>6, <1>7 DEF Coming
<1>12. ASSUME NEW d \in Device PROVE Coming(d) <=> ctx'[d].online
  BY <1>1, <1>6 DEF Coming, Recent, t
<1>13. ASSUME NEW d \in Device PROVE Pending(d)' <=> d \in changed
  BY <1>7 DEF Pending
<1>14. ASSUME NEW d \in Device PROVE d \in changed <=> ctx'[d].online # ctx[d].online
  BY <1>3, <1>4, <1>6
<1>15. ASSUME NEW d \in Device, ctx'[d].online PROVE tickAt <= ctx[d].lastOk + Window[d]
  <2>1. ctx[d].lastOk <= tickAt /\ tickAt - ctx[d].lastOk <= Window[d]
    BY <1>2, <1>6, <1>15 DEF Recent
  <2> QED
    BY <1>2, <2>1, Numbers
<1>16. ASSUME Timely, NEW d \in Device, d = parser.dev, parser.at # "idle", ~ctx'[d].online
       PROVE  Coming(d)'
  <2>1. ctx[d].known /\ ctx[d].lastOk # 0 /\ now <= ctx[d].lastOk + ParserStall
    BY <1>16 DEF TInv, Reported
  <2>2. /\ ctx[d].lastOk \in Nat /\ Window[d] \in Nat /\ ParserStall <= Window[d] /\ TickLatency <= Window[d]
        /\ now \in Nat /\ tickAt \in Nat /\ TickLatency \in Nat /\ ParserStall \in Nat /\ tickAt <= now
    BY <1>2, <1>16, Numbers DEF Clock, Timely
  <2>3. ~Recent(ctx[d], d, tickAt)
    BY <1>2, <1>6, <1>16, <2>1
  <2>4. ~(ctx[d].lastOk <= tickAt)
    BY <2>1, <2>2, <2>3 DEF Recent
  <2>5. tickAt + TickLatency <= ctx[d].lastOk + Window[d]
    BY <2>2, <2>4
  <2> QED
    BY <1>11, <2>1, <2>5
<1>17. ASSUME Timely, NEW d \in Device, agg[d] PROVE ctx'[d].online \/ d \in changed
  <2>1. ctx[d].online \/ Coming(d)
    BY <1>1, <1>2, <1>17 DEF TInv, Reported, Pending, Clock
  <2> QED
    BY <1>12, <1>14, <2>1
<1>18. ASSUME Timely, NEW d \in Device, d \in changed PROVE tickAt <= ctx[d].lastOk + Window[d] + TickLatency
  <2>1. CASE ctx'[d].online
    BY <1>2, <1>15, <2>1, Numbers
  <2>2. CASE ctx[d].online
    BY <1>8, <1>18, <2>2 DEF TInv, Reported
  <2>3. ctx'[d].online \in BOOLEAN /\ ctx[d].online \in BOOLEAN
    BY <1>2, <1>6, Numbers DEF Recent
  <2> QED
    BY <1>14, <1>18, <2>1, <2>2, <2>3
<1>19. ASSUME NEW d \in Device, ctx'[d].online PROVE tickAt <= ctx[d].lastOk + Window[d] + Slack'
  BY <1>2, <1>8, <1>15, <1>19, Numbers
<1>20. ASSUME Timely, parser.at # "idle"
       PROVE  /\ ctx'[parser.dev].online \/ Coming(parser.dev)'
              /\ parser.since = ctx'[parser.dev].lastOk /\ now <= parser.since + ParserStall
              /\ ctx'[parser.dev].known /\ ctx'[parser.dev].lastOk # 0
  <2>1. parser.dev \in Device
    BY <1>2, <1>20 DEF IInv, DeviceInHand
  <2>2. ctx'[parser.dev].online \/ Coming(parser.dev)'
    BY <1>1, <1>16, <1>20, <2>1 DEF Coming
  <2>3. /\ parser.since = ctx[parser.dev].lastOk /\ now <= parser.since + ParserStall
        /\ ctx[parser.dev].known /\ ctx[parser.dev].lastOk # 0
    BY <1>20 DEF TInv, Reported
  <2> QED
    BY <1>6, <2>1, <2>2, <2>3
<1>21. ASSUME Timely PROVE Reported'
  <2>1. \A d \in Device : /\ agg[d] => ctx'[d].online \/ Coming(d)' \/ Pending(d)'
                          /\ ctx'[d].online => tickAt <= ctx'[d].lastOk + Window[d] + Slack'
                          /\ Pending(d)' => tickAt <= ctx'[d].lastOk + Window[d] + TickLatency
    BY <1>6, <1>13, <1>17, <1>18, <1>19, <1>21
  <2> QED
    BY <1>1, <1>7, <1>20, <1>21, <2>1 DEF Reported
<1> QED
  BY <1>9, <1>10, <1>21

\* An answer: the device is online and its due time is a period away.
LEMMA TimelyData == ASSUME TInv, NEW d \in Device, OnDeviceData(d) PROVE Clock' /\ Polled' /\ (Timely => Reported')
<1>1. /\ ctx' = [ctx EXCEPT ![d].known = TRUE, ![d].online = TRUE, ![d].lastOk = now]
      /\ due' = IF d \in Task THEN [due EXCEPT ![d] = now + Period[d]] ELSE due
      /\ parser'.at = "aggregate" /\ parser'.dev = d /\ parser'.since = now
      /\ UNCHANGED <<now, agg, timer, tickAt, timerOn>>
  BY DEF OnDeviceData, stopVars
<1>2. IInv /\ Clock /\ Polled /\ ctx \in [Device -> PollCtx] /\ due \in [Task -> Nat]
  BY DEF TInv, IInv, TypeOK
<1>3. /\ ctx'[d].known /\ ctx'[d].online /\ ctx'[d].lastOk = now /\ ctx'[d].lastSend = ctx[d].lastSend
      /\ \A e \in Device : e # d => ctx'[e] = ctx[e]
  BY <1>1, <1>2 DEF PollCtx
<1>4. Slack' = Slack /\ Slack \in Nat /\ Slack <= TickLatency
  BY <1>1, <1>2, Numbers DEF Slack
<1>5. \A e \in Device : /\ Pending(e)' <=> Pending(e)
                        /\ e # d => (Coming(e)' <=> Coming(e))
  BY <1>1, <1>3 DEF Pending, Coming, Recent
<1>6. Clock'
  BY <1>1, <1>2, <1>3, Numbers DEF Clock
<1>7. /\ now \in Nat /\ tickAt \in Nat /\ tickAt <= now /\ 1 <= now /\ Window[d] \in Nat /\ TickLatency \in Nat
      /\ ParserStall \in Nat
  BY <1>2, Numbers DEF Clock
<1>8. Polled'
  <2> SUFFICES ASSUME NEW e \in Task
               PROVE  /\ \/ due'[e] <= ctx'[e].lastSend + Period[e]
                         \/ due'[e] <= ctx'[e].lastOk + Period[e]
                      /\ \/ tickAt <= ctx'[e].lastSend + Period[e] + Slack
                         \/ tickAt <= ctx'[e].lastOk + Period[e] + Slack
    BY <1>1, <1>4 DEF Polled
  <2>1. CASE e = d
    <3>1. due'[e] = now + Period[e] /\ Period[e] \in Nat /\ ctx'[e].lastOk = now
      BY <1>1, <1>2, <1>3, <2>1, Numbers
    <3> QED
      BY <1>4, <1>7, <3>1
  <2>2. CASE e # d
    <3>1. due'[e] = due[e] /\ ctx'[e] = ctx[e]
      BY <1>1, <1>2, <1>3, <2>2, Numbers
    <3> QED
      BY <1>2, <3>1 DEF Polled
  <2> QED
    BY <2>1, <2>2
<1>9. ASSUME Timely, NEW e \in Device
      PROVE  /\ agg[e] => ctx'[e].online \/ Coming(e)' \/ Pending(e)'
             /\ ctx'[e].online => tickAt <= ctx'[e].lastOk + Window[e] + Slack
             /\ Pending(e)' => tickAt <= ctx'[e].lastOk + Window[e] + TickLatency
  <2>1. CASE e = d
    BY <1>3, <1>4, <1>7, <2>1
  <2>2. CASE e # d
    BY <1>3, <1>4, <1>5, <1>9, <2>2 DEF TInv, Reported
  <2> QED
    BY <2>1, <2>2
<1>10. Timely /\ timer.at = "merge" /\ timer.online => ctx'[timer.dev].online
  BY <1>2, <1>3 DEF TInv, Reported, IInv, DeviceInHand
<1>11. now # 0 /\ now <= now + ParserStall
  BY <1>7
<1>12. ASSUME Timely PROVE Reported'
  BY <1>1, <1>3, <1>4, <1>9, <1>10, <1>11, <1>12 DEF Reported
<1> QED
  BY <1>6, <1>8, <1>12

\* Every step keeps the two bounds.
LEMMA TimelyStep == TInv /\ [Next]_vars => TInv'
<1> SUFFICES ASSUME TInv, [Next]_vars PROVE TInv'
  OBVIOUS
<1>1. IInv'
  BY NextStep DEF TInv
<1>2. Clock' /\ Polled' /\ (Timely => Reported')
  BY TimelyAdvance, TimelyBegin, TimelyLocked, TimelyTimer, TimelyData, TimelyParser, TimelyStop DEF Next
<1> QED
  BY <1>1, <1>2 DEF TInv

\* The invariant bounds the time since the last poll or answer of a task.
LEMMA TimelyPolls == TInv => KeepsPolling
<1> SUFFICES ASSUME TInv, NEW d \in Task
             PROVE  \/ now <= ctx[d].lastSend + Period[d] + 2 * TickLatency
                    \/ now <= ctx[d].lastOk + Period[d] + 2 * TickLatency
  BY DEF KeepsPolling
<1>1. /\ now \in Nat /\ tickAt \in Nat /\ TickLatency \in Nat /\ ctx[d].lastSend \in Nat
      /\ ctx[d].lastOk \in Nat /\ Period[d] \in Nat /\ now <= tickAt + TickLatency
  BY Numbers DEF TInv, Clock
<1>2. Slack \in Nat /\ Slack <= TickLatency
  BY <1>1 DEF Slack
<1>3. \/ tickAt <= ctx[d].lastSend + Period[d] + Slack
      \/ tickAt <= ctx[d].lastOk + Period[d] + Slack
  BY DEF TInv, Polled
<1> QED
  BY <1>1, <1>2, <1>3

\* The invariant bounds how long a silent device is shown online.
LEMMA TimelyReports == TInv /\ Timely => SilentIsReported
<1> SUFFICES ASSUME TInv, Timely PROVE SilentIsReported
  OBVIOUS
<1> SUFFICES ASSUME NEW d \in Device, agg[d]
             PROVE  now <= ctx[d].lastOk + Window[d] + 2 * TickLatency
  <2>1. \A d \in Device : ctx[d].lastOk \in Nat /\ Window[d] \in Nat /\ now \in Nat /\ TickLatency \in Nat
    BY Numbers DEF TInv
  <2>2. \A d \in Device : agg[d] => now <= ctx[d].lastOk + Window[d] + 2 * TickLatency
    OBVIOUS
  <2>3. \A d \in Device : agg[d] => ~(now > ctx[d].lastOk + Window[d] + 2 * TickLatency)
    BY <2>1, <2>2
  <2> QED
    BY <2>3 DEF SilentIsReported
<1>1. /\ now \in Nat /\ tickAt \in Nat /\ TickLatency \in Nat /\ ctx[d].lastOk \in Nat
      /\ Window[d] \in Nat /\ now <= tickAt + TickLatency
  BY Numbers DEF TInv, Clock
<1>2. Slack \in Nat /\ Slack <= TickLatency
  BY <1>1 DEF Slack
<1>3. ctx[d].online \/ Coming(d) \/ Pending(d)
  BY DEF TInv, Reported
<1>4. CASE ctx[d].online
  <2>1. tickAt <= ctx[d].lastOk + Window[d] + Slack
    BY <1>4 DEF TInv, Reported
  <2> QED
    BY <1>1, <1>2, <2>1
<1>5. CASE Pending(d)
  <2>1. tickAt <= ctx[d].lastOk + Window[d] + TickLatency
    BY <1>5 DEF TInv, Reported
  <2> QED
    BY <1>1, <2>1
<1>6. CASE Coming(d)
  <2>1. tickAt <= ctx[d].lastOk + Window[d]
    <3>1. CASE timer.at = "lock"
      <4>1. ctx[d].lastOk <= tickAt /\ tickAt - ctx[d].lastOk <= Window[d]
        BY <1>6, <3>1 DEF Coming, Recent, TInv, Clock
      <4> QED
        BY <1>1, <4>1
    <3>2. CASE timer.at # "lock"
      <4>1. tickAt + TickLatency <= ctx[d].lastOk + Window[d]
        BY <1>6, <3>2 DEF Coming
      <4> QED
        BY <1>1, <4>1
    <3> QED
      BY <3>1, <3>2
  <2> QED
    BY <1>1, <2>1
<1> QED
  BY <1>3, <1>4, <1>5, <1>6

\* pollTick forgets no task, although onDeviceData moves due times from the parser
\* thread between the tick's reading of the clock and its lock.
THEOREM KeepsPollingAlways == Spec => []KeepsPolling
  BY TimelyInit, TimelyStep, TimelyPolls, PTL DEF Spec

\* A silent device is offline in the aggregator after its window and two ticks,
\* whatever copies of its health the timer and the parser thread had in hand, as
\* long as a tick and onParsed take no longer than its window.
THEOREM SilentIsReportedAlways == ASSUME Timely PROVE Spec => []SilentIsReported
<1>1. TInv => SilentIsReported
  BY TimelyReports
<1> QED
  BY TimelyInit, TimelyStep, <1>1, PTL DEF Spec
=============================================================================
