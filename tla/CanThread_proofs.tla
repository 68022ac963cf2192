-------------------------- MODULE CanThread_proofs --------------------------
(***************************************************************************)
(* The frames a port is given reach the bus once each and in order, for    *)
(* every queue length, every numbering and every pair of reconnect delays. *)
(* InOrder is inductive together with the types: the queue is the stretch  *)
(* of numbers from the next one the bus will see to the next one queued,   *)
(* send() lengthens it at one end and a successful write shortens it at    *)
(* the other, and nothing else touches it.                                 *)
(***************************************************************************)
EXTENDS CanThread, TLAPS

\* Numbers wrap once at most within a queue.
LEMMA ModOnce ==
  ASSUME NEW m \in Nat \ {0}, NEW a \in Nat, a < 2 * m
  PROVE  a % m = IF a < m THEN a ELSE a - m
<1>1. CASE a < m
  BY <1>1
<1>2. CASE a >= m
  <2>1. (a - m) \in Nat /\ a - m < m
    BY <1>2
  <2>2. a = 1 * m + (a - m)
    OBVIOUS
  <2> QED
    BY <1>2, <2>1, <2>2
<1> QED
  BY <1>1, <1>2

\* Len and the elements of a queue that send() lengthens and a write shortens.
LEMMA QueueGrows ==
  ASSUME NEW S, NEW q \in Seq(S), NEW x \in S
  PROVE  /\ Append(q, x) \in Seq(S) /\ Len(Append(q, x)) = Len(q) + 1
         /\ \A i \in 1..Len(q) : Append(q, x)[i] = q[i]
         /\ Append(q, x)[Len(q) + 1] = x
OBVIOUS

\* A write takes the first frame of the queue.
LEMMA QueueShrinks ==
  ASSUME NEW S, NEW q \in Seq(S), q # <<>>
  PROVE  /\ Tail(q) \in Seq(S) /\ Len(q) \in Nat \ {0} /\ Len(Tail(q)) = Len(q) - 1
         /\ \A i \in 1..Len(q) - 1 : Tail(q)[i] = q[i + 1]
         /\ Head(q) = q[1] /\ q[1] \in S
OBVIOUS

\* The number after a number.
LEMMA NumberType == \A n \in 0..FrameMod - 1 : (n + 1) % FrameMod \in 0..FrameMod - 1
BY CanAssumption, ModOnce

-----------------------------------------------------------------------------
(* Types.                                                                  *)

\* The initial state is of the right type.
LEMMA TypeInit == Init => TypeOK
<1> SUFFICES ASSUME Init PROVE TypeOK
  OBVIOUS
<1>1. tx \in Seq(0..FrameMod - 1) /\ Len(tx) = 0
  BY DEF Init
<1>2. thr \in [at : ThrAt, want : BOOLEAN, ret : {"loop", "evwrite", "tail"}]
  BY DEF Init, ThrAt
<1>3. /\ delay \in ReconnectMin..ReconnectMax /\ cool \in 0..ReconnectMax
      /\ next \in 0..FrameMod - 1 /\ bus \in 0..FrameMod - 1 /\ Len(tx) <= MaxQueue
  BY <1>1, CanAssumption DEF Init
<1>4. /\ running \in BOOLEAN /\ open \in BOOLEAN /\ need_reconnect \in BOOLEAN
      /\ out_flag \in BOOLEAN /\ out_armed \in BOOLEAN /\ evfd \in BOOLEAN
      /\ snd \in SndAt /\ link \in BOOLEAN /\ full \in BOOLEAN
  BY DEF Init, SndAt
<1> QED
  BY <1>1, <1>2, <1>3, <1>4 DEF TypeOK

\* Every step keeps the types.
LEMMA TypeStep == TypeOK /\ [Next]_vars => TypeOK'
<1> SUFFICES ASSUME TypeOK, [Next]_vars PROVE TypeOK'
  OBVIOUS
<1> USE CanAssumption DEF TypeOK, ThrAt, SndAt, backoff, envVars
<1>1. CASE Send
  BY <1>1, QueueGrows, NumberType DEF Send
<1>2. CASE SendOutTest
  BY <1>2 DEF SendOutTest
<1>3. CASE SendOutCtl
  BY <1>3 DEF SendOutCtl
<1>4. CASE SendOutFlag
  BY <1>4 DEF SendOutFlag
<1>5. CASE Wakeup
  BY <1>5 DEF Wakeup
<1>6. CASE StopJoin
  BY <1>6 DEF StopJoin
<1>7. CASE StopCall
  <2>1. running' \in BOOLEAN /\ snd' \in SndAt
    BY <1>7 DEF StopCall
  <2>2. UNCHANGED <<open, backoff, tx, out_flag, out_armed, evfd, thr, next, bus, envVars>>
    BY <1>7 DEF StopCall
  <2> QED
    BY <2>1, <2>2
<1>8. CASE LoopTest
  <2>1. thr' \in [at : ThrAt, want : BOOLEAN, ret : {"loop", "evwrite", "tail"}]
    BY <1>8 DEF LoopTest, Goto
  <2> QED
    BY <1>8, <2>1 DEF LoopTest
<1>9. CASE ReconnectNotNow
  <2>1. thr' \in [at : ThrAt, want : BOOLEAN, ret : {"loop", "evwrite", "tail"}]
    BY <1>9 DEF ReconnectNotNow, Goto, ReconnectReturn
  <2> QED
    BY <1>9, <2>1 DEF ReconnectNotNow
<1>10. CASE ReopenFails
  <2>1. delay' \in ReconnectMin..ReconnectMax /\ cool' \in 0..ReconnectMax
    BY <1>10 DEF ReopenFails, Least
  <2>2. thr' \in [at : ThrAt, want : BOOLEAN, ret : {"loop", "evwrite", "tail"}]
    BY <1>10 DEF ReopenFails, Goto, ReconnectReturn
  <2> QED
    BY <1>10, <2>1, <2>2 DEF ReopenFails
<1>11. CASE ReopenWorks
  <2>1. thr' \in [at : ThrAt, want : BOOLEAN, ret : {"loop", "evwrite", "tail"}]
    BY <1>11 DEF ReopenWorks, ReconnectReturn
  <2>2. out_armed' \in BOOLEAN
    BY <1>11 DEF ReopenWorks
  <2> QED
    BY <1>11, <2>1, <2>2 DEF ReopenWorks
<1>12. CASE SetupFlag
  <2>1. thr' \in [at : ThrAt, want : BOOLEAN, ret : {"loop", "evwrite", "tail"}]
    BY <1>12 DEF SetupFlag, Goto
  <2>2. out_flag' \in BOOLEAN
    BY <1>12 DEF SetupFlag
  <2> QED
    BY <1>12, <2>1, <2>2 DEF SetupFlag
<1>29. CASE Recovered
  <2>1. thr' \in [at : ThrAt, want : BOOLEAN, ret : {"loop", "evwrite", "tail"}]
    <3>1. CASE thr' = [thr EXCEPT !.at = "out", !.want = TRUE]
      BY <3>1
    <3>2. CASE Goto(thr.ret)
      BY <3>2 DEF Goto
    <3> QED
      BY <1>29, <3>1, <3>2 DEF Recovered
  <2>2. delay' \in ReconnectMin..ReconnectMax
    BY <1>29 DEF Recovered
  <2> QED
    BY <1>29, <2>1, <2>2 DEF Recovered
<1>13. CASE OutTest
  <2>1. thr' \in [at : ThrAt, want : BOOLEAN, ret : {"loop", "evwrite", "tail"}]
    BY <1>13 DEF OutTest, Goto
  <2> QED
    BY <1>13, <2>1 DEF OutTest
<1>14. CASE OutCtl
  <2>1. thr' \in [at : ThrAt, want : BOOLEAN, ret : {"loop", "evwrite", "tail"}]
    BY <1>14 DEF OutCtl, Goto
  <2> QED
    BY <1>14, <2>1 DEF OutCtl
<1>15. CASE OutFlag
  <2>1. thr' \in [at : ThrAt, want : BOOLEAN, ret : {"loop", "evwrite", "tail"}]
    BY <1>15 DEF OutFlag, Goto
  <2> QED
    BY <1>15, <2>1 DEF OutFlag
<1>16. CASE OutReturn
  BY <1>16 DEF OutReturn
<1>17. CASE EventFdWrite
  <2>1. thr' \in [at : ThrAt, want : BOOLEAN, ret : {"loop", "evwrite", "tail"}]
    BY <1>17 DEF EventFdWrite, Goto
  <2> QED
    BY <1>17, <2>1 DEF EventFdWrite
<1>18. CASE WriteFrame
  <2>1. CASE open /\ link /\ ~full
    <3>1. /\ tx # <<>> /\ tx' = Tail(tx) /\ bus' = (Head(tx) + 1) % FrameMod
          /\ UNCHANGED <<running, open, out_flag, out_armed, evfd, snd, next, thr, envVars, backoff>>
      BY <1>18, <2>1 DEF WriteFrame
    <3>2. tx' \in Seq(0..FrameMod - 1) /\ Len(tx') <= MaxQueue
      BY <3>1, QueueShrinks
    <3>3. bus' \in 0..FrameMod - 1
      BY <3>1, QueueShrinks, NumberType
    <3> QED
      BY <3>1, <3>2, <3>3
  <2>2. CASE ~(open /\ link /\ ~full)
    <3>1. /\ UNCHANGED <<running, open, out_flag, out_armed, evfd, snd, next, tx, bus, envVars>>
          /\ thr' = [thr EXCEPT !.at = "wrote"]
          /\ \/ UNCHANGED <<need_reconnect, delay, cool>>
             \/ MarkNeedReconnect
      BY <1>18, <2>2 DEF WriteFrame
    <3>2. /\ delay' \in ReconnectMin..ReconnectMax /\ cool' \in 0..ReconnectMax
          /\ need_reconnect' \in BOOLEAN
      <4>1. CASE UNCHANGED <<need_reconnect, delay, cool>>
        BY <4>1
      <4>2. CASE MarkNeedReconnect
        BY <4>2 DEF MarkNeedReconnect
      <4> QED
        BY <3>1, <4>1, <4>2
    <3>0. thr' = [thr EXCEPT !.at = "wrote"]
      BY <3>1
    <3>3. thr' \in [at : ThrAt, want : BOOLEAN, ret : {"loop", "evwrite", "tail"}]
      BY <3>0
    <3> QED
      BY <3>1, <3>2, <3>3
  <2> QED
    BY <2>1, <2>2
<1>19. CASE WriteEnd
  <2>1. thr' \in [at : ThrAt, want : BOOLEAN, ret : {"loop", "evwrite", "tail"}]
    BY <1>19 DEF WriteEnd, Goto
  <2> QED
    BY <1>19, <2>1 DEF WriteEnd
<1>20. CASE WriteOut
  BY <1>20 DEF WriteOut
<1>21. CASE WaitTimeout
  <2>1. thr' \in [at : ThrAt, want : BOOLEAN, ret : {"loop", "evwrite", "tail"}]
    BY <1>21 DEF WaitTimeout, Goto
  <2> QED
    BY <1>21, <2>1 DEF WaitTimeout
<1>22. CASE WaitEventFd
  <2>1. thr' \in [at : ThrAt, want : BOOLEAN, ret : {"loop", "evwrite", "tail"}]
    BY <1>22 DEF WaitEventFd, Goto
  <2> QED
    BY <1>22, <2>1 DEF WaitEventFd
<1>23. CASE WaitError
  <2>1. thr' \in [at : ThrAt, want : BOOLEAN, ret : {"loop", "evwrite", "tail"}]
    BY <1>23 DEF WaitError, Goto
  <2>2. /\ need_reconnect' \in BOOLEAN
        /\ delay' \in ReconnectMin..ReconnectMax /\ cool' \in 0..ReconnectMax
    BY <1>23 DEF WaitError, MarkNeedReconnect
  <2>3. UNCHANGED <<running, open, tx, out_flag, out_armed, evfd, snd, next, bus, envVars>>
    BY <1>23 DEF WaitError
  <2> QED
    BY <2>1, <2>2, <2>3
<1>24. CASE WaitOut
  <2>1. thr' \in [at : ThrAt, want : BOOLEAN, ret : {"loop", "evwrite", "tail"}]
    BY <1>24 DEF WaitOut, Goto
  <2> QED
    BY <1>24, <2>1 DEF WaitOut
<1>25. CASE LinkChange
  BY <1>25 DEF LinkChange
<1>26. CASE BufferChange
  BY <1>26 DEF BufferChange
<1>27. CASE TimePasses
  BY <1>27 DEF TimePasses
<1>28. CASE UNCHANGED vars
  BY <1>28 DEF vars
<1> QED
  BY <1>1, <1>2, <1>3, <1>4, <1>5, <1>6, <1>7, <1>8, <1>9, <1>10, <1>11, <1>12, <1>13, <1>14, <1>15, <1>16, <1>17, <1>18, <1>19, <1>20, <1>21, <1>22, <1>23, <1>24, <1>25, <1>26, <1>27, <1>28, <1>29 DEF Next, SenderStep, ThreadStep

\* The driver's queues, flags and program counters keep their types and the back-off
\* (tryReconnect) stays between its limits, for all limits and queue lengths.
THEOREM TypeCorrect == Spec => []TypeOK
BY TypeInit, TypeStep, PTL DEF Spec

-----------------------------------------------------------------------------
(* Order.                                                                  *)

\* One number further, then k more.
LEMMA ModShift ==
  ASSUME NEW m \in Nat \ {0, 1}, NEW b \in 0..m - 1, NEW k \in 1..m - 1
  PROVE  (((b + 1) % m) + k - 1) % m = (b + k) % m
<1>1. CASE b + 1 < m
  <2>1. (b + 1) % m = b + 1
    BY <1>1
  <2> QED
    BY <2>1
<1>2. CASE b + 1 = m
  <2>1. (b + 1) % m = 0
    BY <1>2, ModOnce
  <2>2. (k - 1) % m = k - 1
    OBVIOUS
  <2>5. b + k \in Nat /\ b + k < 2 * m /\ ~(b + k < m) /\ b + k - m = k - 1
    BY <1>2
  <2>6. \A c \in Nat : c < 2 * m /\ ~(c < m) => c % m = c - m
    BY ModOnce
  <2>3. (b + k) % m = k - 1
    BY <2>5, <2>6
  <2>4. 0 + k - 1 = k - 1
    OBVIOUS
  <2> QED
    BY <2>1, <2>2, <2>3, <2>4
<1> QED
  BY <1>1, <1>2

\* Counting on after a sum, with numbers that wrap.
LEMMA ModSucc ==
  ASSUME NEW m \in Nat \ {0, 1}, NEW a \in Nat, a + 1 < 2 * m
  PROVE  ((a % m) + 1) % m = (a + 1) % m
<1>1. CASE a < m
  BY <1>1
<1>2. CASE a >= m
  <2>4. a < 2 * m /\ ~(a < m) /\ a + 1 \in Nat /\ ~(a + 1 < m)
    BY <1>2
  <2>1. a % m = a - m
    BY <2>4, ModOnce
  <2>7. \A c \in Nat : c < 2 * m /\ ~(c < m) => c % m = c - m
    BY ModOnce
  <2>2. (a + 1) % m = a + 1 - m
    BY <2>4, <2>7
  <2>5. a - m + 1 \in Nat /\ a - m + 1 < m
    BY <1>2
  <2>3. (a - m + 1) % m = a - m + 1
    BY <2>5
  <2>6. a - m + 1 = a + 1 - m
    OBVIOUS
  <2> QED
    BY <2>1, <2>2, <2>3, <2>6
<1> QED
  BY <1>1, <1>2

\* send() queues the number after the last one waiting.
LEMMA SendInOrder == TypeOK /\ InOrder /\ Send => InOrder'
<1> SUFFICES ASSUME TypeOK, InOrder, Send PROVE InOrder'
  OBVIOUS
<1>1. /\ bus \in 0..FrameMod - 1 /\ next \in 0..FrameMod - 1 /\ tx \in Seq(0..FrameMod - 1)
      /\ Len(tx) \in Nat /\ Len(tx) < MaxQueue
      /\ tx' = Append(tx, next) /\ next' = (next + 1) % FrameMod /\ bus' = bus
  BY DEF TypeOK, Send
<1>2. /\ next = (bus + Len(tx)) % FrameMod
      /\ \A i \in 1..Len(tx) : tx[i] = (bus + i - 1) % FrameMod
  BY DEF InOrder
<1>3. FrameMod \in Nat \ {0, 1} /\ bus + Len(tx) \in Nat /\ bus + Len(tx) + 1 < 2 * FrameMod
  BY <1>1, CanAssumption
<1>4. /\ Len(tx') = Len(tx) + 1
      /\ \A i \in 1..Len(tx) : tx'[i] = tx[i]
      /\ tx'[Len(tx) + 1] = next
  BY <1>1, QueueGrows
<1>5. \A i \in 1..Len(tx') : tx'[i] = (bus' + i - 1) % FrameMod
  <2> SUFFICES ASSUME NEW i \in 1..Len(tx') PROVE tx'[i] = (bus' + i - 1) % FrameMod
    OBVIOUS
  <2>1. CASE i \in 1..Len(tx)
    BY <1>1, <1>2, <1>4, <2>1
  <2>2. CASE i = Len(tx) + 1
    <3>1. bus + i - 1 = bus + Len(tx)
      BY <1>1, <2>2
    <3> QED
      BY <1>1, <1>2, <1>4, <2>2, <3>1
  <2> QED
    BY <1>1, <1>4, <2>1, <2>2
<1>6. next' = (bus' + Len(tx')) % FrameMod
  <2>1. next' = (bus + Len(tx) + 1) % FrameMod
    BY <1>1, <1>2, <1>3, ModSucc
  <2>2. bus' + Len(tx') = bus + Len(tx) + 1
    BY <1>1, <1>4
  <2> QED
    BY <2>1, <2>2
<1> QED
  BY <1>5, <1>6 DEF InOrder

\* handleWrite pops the frame it has written, and only that one.
LEMMA WriteInOrder == TypeOK /\ InOrder /\ WriteFrame => InOrder'
<1> SUFFICES ASSUME TypeOK, InOrder, WriteFrame PROVE InOrder'
  OBVIOUS
<1>1. CASE UNCHANGED <<tx, bus, next>>
  BY <1>1 DEF InOrder
<1>2. CASE tx' = Tail(tx) /\ bus' = (Head(tx) + 1) % FrameMod /\ next' = next
  <2>1. /\ bus \in 0..FrameMod - 1 /\ tx \in Seq(0..FrameMod - 1) /\ tx # <<>>
        /\ Len(tx) \in Nat /\ Len(tx) <= MaxQueue
    BY DEF TypeOK, WriteFrame
  <2>2. /\ next = (bus + Len(tx)) % FrameMod
        /\ \A i \in 1..Len(tx) : tx[i] = (bus + i - 1) % FrameMod
    BY DEF InOrder
  <2>3. FrameMod \in Nat \ {0, 1} /\ Len(tx) < FrameMod
    BY <2>1, CanAssumption
  <2>4. /\ Len(tx) \in Nat \ {0} /\ Len(tx') = Len(tx) - 1
        /\ \A i \in 1..Len(tx) - 1 : tx'[i] = tx[i + 1]
        /\ Head(tx) = tx[1]
    BY <1>2, <2>1, QueueShrinks
  <2>5. bus' = (bus + 1) % FrameMod
    <3>1. 1 \in 1..Len(tx) /\ bus + 1 - 1 = bus
      BY <2>1, <2>4
    <3>3. bus % FrameMod = bus
      BY <2>1, <2>3
    <3>2. tx[1] = bus
      BY <2>2, <3>1, <3>3
    <3> QED
      BY <1>2, <2>4, <3>2
  <2>6. \A k \in 1..Len(tx) : (bus' + k - 1) % FrameMod = (bus + k) % FrameMod
    <3>1. \A k \in 1..Len(tx) : k \in 1..FrameMod - 1
      BY <2>1, <2>3
    <3>2. \A k \in 1..FrameMod - 1 : (((bus + 1) % FrameMod) + k - 1) % FrameMod = (bus + k) % FrameMod
      BY <2>1, <2>3, ModShift
    <3> QED
      BY <2>5, <3>1, <3>2
  <2>7. bus' \in Nat
    BY <2>1, <2>3, <2>5
  <2>8. \A i \in 1..Len(tx') : tx'[i] = (bus' + i - 1) % FrameMod
    <3> SUFFICES ASSUME NEW i \in 1..Len(tx') PROVE tx'[i] = (bus' + i - 1) % FrameMod
      OBVIOUS
    <3>1. i \in 1..Len(tx) /\ i \in 1..Len(tx) - 1 /\ i + 1 \in 1..Len(tx)
      BY <2>4
    <3>2. bus + (i + 1) - 1 = bus + i
      BY <2>1, <3>1
    <3>3. tx'[i] = (bus + i) % FrameMod
      BY <2>2, <2>4, <3>1, <3>2
    <3> QED
      BY <2>6, <3>1, <3>3
  <2>9. next' = (bus' + Len(tx')) % FrameMod
    <3>1. Len(tx) \in 1..Len(tx) /\ bus' + Len(tx') = bus' + Len(tx) - 1
      BY <2>4, <2>7
    <3> QED
      BY <1>2, <2>2, <2>6, <3>1
  <2> QED
    BY <2>8, <2>9 DEF InOrder
<1> QED
  BY <1>1, <1>2 DEF WriteFrame

\* At the start the queue is empty and the numbers agree.
LEMMA InOrderInit == Init => InOrder
<1> SUFFICES ASSUME Init PROVE InOrder
  OBVIOUS
<1>1. Len(tx) = 0 /\ bus = 0 /\ next = 0
  BY DEF Init
<1>2. 0 % FrameMod = 0
  BY CanAssumption
<1> QED
  BY <1>1, <1>2 DEF InOrder

\* Every step keeps the queue the stretch between the two numbers.
LEMMA InOrderStep == TypeOK /\ InOrder /\ [Next]_vars => InOrder'
<1> SUFFICES ASSUME TypeOK, InOrder, [Next]_vars PROVE InOrder'
  OBVIOUS
<1>1. CASE Send
  BY <1>1, SendInOrder
<1>2. CASE WriteFrame
  BY <1>2, WriteInOrder
<1>3. CASE UNCHANGED <<tx, bus, next>>
  BY <1>3 DEF InOrder
<1> QED
  BY <1>1, <1>2, <1>3 DEF Next, SenderStep, ThreadStep, vars,
     SendOutTest, SendOutCtl, SendOutFlag, Wakeup, StopCall, StopJoin, LoopTest, WaitTimeout,
     WaitEventFd, WaitError, WaitOut, ReconnectNotNow, ReopenFails, ReopenWorks, SetupFlag,
     Recovered, OutTest, OutCtl, OutFlag, OutReturn, EventFdWrite, WriteEnd, WriteOut, LinkChange,
     BufferChange, TimePasses

\* No frame given to CanThread::send is lost, doubled or overtaken on its way to the
\* bus, through any number of failed writes, full buffers and reconnections.
THEOREM InOrderAlways == Spec => []InOrder
<1>1. TypeOK /\ InOrder /\ [Next]_vars => (TypeOK /\ InOrder)'
  BY TypeStep, InOrderStep
<1>2. Init => TypeOK /\ InOrder
  BY TypeInit, InOrderInit
<1> QED
  BY <1>1, <1>2, PTL DEF Spec

=============================================================================
