----------------------------- MODULE CanThread -----------------------------
(***************************************************************************)
(* One CAN port (driver/can): the thread that owns the socket, and the     *)
(* control thread, which queues frames with send() and finally stops the   *)
(* port.  The CAN thread blocks in epoll_wait on the socket and on an      *)
(* eventfd; a fatal error makes it close and reopen the socket with a      *)
(* delay that doubles up to a limit.                                       *)
(*                                                                         *)
(* epollout_enabled_ is a plain bool that both threads test and write      *)
(* around their epoll_ctl calls, so test, call and write are steps of      *)
(* their own.  epoll_wait returns one event at a time here; several events *)
(* are as many rounds, each ending in tryReconnect.  Registering a new     *)
(* socket with epoll is taken to succeed.                                  *)
(***************************************************************************)
EXTENDS Naturals, Sequences

CONSTANTS
  ReconnectMin,   \* kReconnectMin
  ReconnectMax,   \* kReconnectMax
  MaxQueue,       \* bound on the frames waiting at a send()
  FrameMod        \* frames are numbered modulo this

ASSUME CanAssumption ==
  /\ ReconnectMin \in Nat \ {0} /\ ReconnectMax \in Nat /\ ReconnectMin <= ReconnectMax
  /\ MaxQueue \in Nat \ {0} /\ FrameMod \in Nat /\ FrameMod > MaxQueue + 1

VARIABLES
  running,        \* running_
  open,           \* driver_.getFd() >= 0
  need_reconnect, \* need_reconnect_
  delay,          \* reconnect_delay_
  cool,           \* time left until next_reconnect_tp_
  tx,             \* tx_queue_
  out_flag,       \* epollout_enabled_
  out_armed,      \* EPOLLOUT is registered for the socket in the kernel
  evfd,           \* the eventfd is readable
  thr,            \* where the CAN thread is
  snd,            \* where the control thread is
  next,           \* number of the next frame queued
  bus,            \* number of the next frame the bus has not seen
  link,           \* the interface is up
  full            \* the socket's send buffer is full

envVars == <<link, full>>
backoff == <<need_reconnect, delay, cool>>
vars == <<running, open, backoff, tx, out_flag, out_armed, evfd, thr, snd, next, bus,
          envVars>>

ThrAt == {"loop", "wait", "tail", "evfd", "evwrite", "setflag", "reopened", "write",
          "wrote", "out", "outctl", "outflag", "wakeup", "exit"}
SndAt == {"idle", "out", "outctl", "outflag", "wakeup", "stopwake", "join", "stopped"}

Least(a, b) == IF a <= b THEN a ELSE b

\* start(): the socket was opened by DriverManager::init, the thread waits.
Init ==
  /\ running = TRUE /\ open = TRUE
  /\ need_reconnect = FALSE /\ delay = ReconnectMin /\ cool = 0
  /\ tx = <<>> /\ out_flag = FALSE /\ out_armed = FALSE /\ evfd = FALSE
  /\ thr = [at |-> "loop", want |-> FALSE, ret |-> "loop"]
  /\ snd = "idle" /\ next = 0 /\ bus = 0
  /\ link = TRUE /\ full = FALSE

-----------------------------------------------------------------------------
(* The control thread: send() and, at the end, stop().                     *)

\* Push under tx_mutex_, then setEpollOut(true) without it.
Send ==
  /\ snd = "idle" /\ running /\ Len(tx) < MaxQueue
  /\ tx' = Append(tx, next) /\ next' = (next + 1) % FrameMod
  /\ snd' = "out"
  /\ UNCHANGED <<running, open, backoff, out_flag, out_armed, evfd, thr, bus, envVars>>

\* setEpollOut returns at once without a socket or when the flag is set already.
SendOutTest ==
  /\ snd = "out"
  /\ snd' = IF open /\ ~out_flag THEN "outctl" ELSE "wakeup"
  /\ UNCHANGED <<running, open, backoff, tx, out_flag, out_armed, evfd, thr, next, bus, envVars>>

\* epoll_ctl on a socket the other thread has closed fails and leaves the flag.
SendOutCtl ==
  /\ snd = "outctl"
  /\ out_armed' = (open \/ out_armed)
  /\ snd' = IF open THEN "outflag" ELSE "wakeup"
  /\ UNCHANGED <<running, open, backoff, tx, out_flag, evfd, thr, next, bus, envVars>>

SendOutFlag ==
  /\ snd = "outflag"
  /\ out_flag' = TRUE /\ snd' = "wakeup"
  /\ UNCHANGED <<running, open, backoff, tx, out_armed, evfd, thr, next, bus, envVars>>

\* wakeup(), the last step of send() and of stop() before its join.
Wakeup ==
  /\ snd \in {"wakeup", "stopwake"}
  /\ evfd' = TRUE
  /\ snd' = IF snd = "wakeup" THEN "idle" ELSE "join"
  /\ UNCHANGED <<running, open, backoff, tx, out_flag, out_armed, thr, next, bus, envVars>>

\* Mutant: stop() joins without waking the thread.
StopCall_NoWake ==
  /\ snd = "idle" /\ running
  /\ running' = FALSE /\ snd' = "join"
  /\ UNCHANGED <<open, backoff, tx, out_flag, out_armed, evfd, thr, next, bus, envVars>>

\* The control loop is stopped before the drivers are, so no send() is under way.
StopCall ==
  /\ snd = "idle" /\ running
  /\ running' = FALSE /\ snd' = "stopwake"
  /\ UNCHANGED <<open, backoff, tx, out_flag, out_armed, evfd, thr, next, bus, envVars>>

StopJoin ==
  /\ snd = "join" /\ thr.at = "exit"
  /\ snd' = "stopped"
  /\ UNCHANGED <<running, open, backoff, tx, out_flag, out_armed, evfd, thr, next, bus, envVars>>

-----------------------------------------------------------------------------
(* The CAN thread.                                                         *)

Goto(a) == thr' = [thr EXCEPT !.at = a]

\* The test at the head of the loop; then epoll_wait.
LoopTest ==
  /\ thr.at = "loop"
  /\ Goto(IF running THEN "wait" ELSE "exit")
  /\ UNCHANGED <<running, open, backoff, tx, out_flag, out_armed, evfd, snd, next, bus, envVars>>

\* Mutant: epoll_wait blocks although a reconnection is wanted.
WaitTimeout_Never ==
  /\ thr.at = "wait" /\ need_reconnect /\ ~open /\ delay < ReconnectMin
  /\ Goto("tail")
  /\ UNCHANGED <<running, open, backoff, tx, out_flag, out_armed, evfd, snd, next, bus, envVars>>

\* epoll_wait times out only while a reconnection is wanted; otherwise it blocks.
WaitTimeout ==
  /\ thr.at = "wait" /\ need_reconnect
  /\ Goto("tail")
  /\ UNCHANGED <<running, open, backoff, tx, out_flag, out_armed, evfd, snd, next, bus, envVars>>

\* The eventfd is drained; on a stop the round ends.
WaitEventFd ==
  /\ thr.at = "wait" /\ evfd
  /\ evfd' = FALSE
  /\ Goto(IF running THEN "evfd" ELSE "tail")
  /\ UNCHANGED <<running, open, backoff, tx, out_flag, out_armed, snd, next, bus, envVars>>

\* markNeedReconnect: only the first call counts, and allows an attempt at once.
MarkNeedReconnect ==
  /\ need_reconnect' = TRUE
  /\ delay' = IF need_reconnect THEN delay ELSE ReconnectMin
  /\ cool' = IF need_reconnect THEN cool ELSE 0

\* EPOLLERR or EPOLLHUP of the socket.
WaitError ==
  /\ thr.at = "wait" /\ open /\ ~link
  /\ MarkNeedReconnect
  /\ Goto("tail")
  /\ UNCHANGED <<running, open, tx, out_flag, out_armed, evfd, snd, next, bus, envVars>>

\* EPOLLOUT of the socket.
WaitOut ==
  /\ thr.at = "wait" /\ open /\ out_armed /\ link /\ ~full
  /\ Goto("write")
  /\ UNCHANGED <<running, open, backoff, tx, out_flag, out_armed, evfd, snd, next, bus, envVars>>

\* tryReconnect in the eventfd branch and at the end of the round, where it returns.
Reconnecting == need_reconnect /\ cool = 0
ReconnectReturn == IF thr.at = "evfd" THEN "evwrite" ELSE "loop"

ReconnectNotNow ==
  /\ thr.at \in {"evfd", "tail"} /\ ~Reconnecting
  /\ Goto(ReconnectReturn)
  /\ UNCHANGED <<running, open, backoff, tx, out_flag, out_armed, evfd, snd, next, bus, envVars>>

\* Mutant: a failed attempt leaves the time of the next one.
ReopenFails_NoBackoff ==
  /\ thr.at \in {"evfd", "tail"} /\ Reconnecting /\ ~link
  /\ open' = FALSE /\ out_armed' = FALSE
  /\ cool' = cool /\ delay' = 2 * delay
  /\ evfd' = TRUE
  /\ Goto(ReconnectReturn)
  /\ UNCHANGED <<running, need_reconnect, tx, out_flag, snd, next, bus, envVars>>

\* reopen() fails: the socket stays closed, the delay doubles.
ReopenFails ==
  /\ thr.at \in {"evfd", "tail"} /\ Reconnecting /\ ~link
  /\ open' = FALSE /\ out_armed' = FALSE
  /\ cool' = delay /\ delay' = Least(2 * delay, ReconnectMax)
  /\ evfd' = TRUE
  /\ Goto(ReconnectReturn)
  /\ UNCHANGED <<running, need_reconnect, tx, out_flag, snd, next, bus, envVars>>

\* reopen() succeeds, and may do so on an interface that is down: bind() only wants it
\* to exist.  setupEpollForCanFd asks for EPOLLOUT if a frame waits ...
ReopenWorks ==
  /\ thr.at \in {"evfd", "tail"} /\ Reconnecting
  /\ open' = TRUE /\ out_armed' = (tx # <<>>)
  /\ need_reconnect' = FALSE
  /\ thr' = [thr EXCEPT !.at = "setflag", !.ret = ReconnectReturn]
  /\ UNCHANGED <<running, delay, cool, tx, out_flag, evfd, snd, next, bus, envVars>>

\* ... and looks at the queue a second time for the flag.
SetupFlag ==
  /\ thr.at = "setflag"
  /\ out_flag' = (tx # <<>>)
  /\ Goto("reopened")
  /\ UNCHANGED <<running, open, backoff, tx, out_armed, evfd, snd, next, bus, envVars>>

\* tryReconnect resets the delay and, if by now a frame waits, has the queue served.
Recovered ==
  /\ thr.at = "reopened"
  /\ delay' = ReconnectMin
  /\ \/ tx # <<>> /\ thr' = [thr EXCEPT !.at = "out", !.want = TRUE]
     \/ tx = <<>> /\ Goto(thr.ret)
  /\ UNCHANGED <<running, open, need_reconnect, cool, tx, out_flag, out_armed, evfd, snd, next,
                 bus, envVars>>

\* setEpollOut in the CAN thread.
OutTest ==
  /\ thr.at = "out"
  /\ Goto(IF open /\ thr.want # out_flag THEN "outctl" ELSE "wakeup")
  /\ UNCHANGED <<running, open, backoff, tx, out_flag, out_armed, evfd, snd, next, bus, envVars>>

OutCtl ==
  /\ thr.at = "outctl"
  /\ out_armed' = thr.want
  /\ Goto("outflag")
  /\ UNCHANGED <<running, open, backoff, tx, out_flag, evfd, snd, next, bus, envVars>>

OutFlag ==
  /\ thr.at = "outflag"
  /\ out_flag' = thr.want
  /\ Goto("wakeup")
  /\ UNCHANGED <<running, open, backoff, tx, out_armed, evfd, snd, next, bus, envVars>>

\* Only tryReconnect, which leaves a place to return to, wakes the thread itself.
OutReturn ==
  /\ thr.at = "wakeup"
  /\ evfd' = (evfd \/ thr.ret # "tail")
  /\ thr' = [at |-> thr.ret, want |-> FALSE, ret |-> "loop"]
  /\ UNCHANGED <<running, open, backoff, tx, out_flag, out_armed, snd, next, bus, envVars>>

\* Mutant: the eventfd only wakes the thread, frames wait for EPOLLOUT.
EventFdWrite_OnlyWakes ==
  /\ thr.at = "evwrite"
  /\ Goto("tail")
  /\ UNCHANGED <<running, open, backoff, tx, out_flag, out_armed, evfd, snd, next, bus, envVars>>

\* After an eventfd event the queue is served whatever EPOLLOUT says.
EventFdWrite ==
  /\ thr.at = "evwrite"
  /\ Goto(IF ~need_reconnect /\ tx # <<>> THEN "write" ELSE "tail")
  /\ UNCHANGED <<running, open, backoff, tx, out_flag, out_armed, evfd, snd, next, bus, envVars>>

\* Mutant: the frame is popped before it is known to be written.
WriteFrame_PopFirst ==
  /\ thr.at = "write" /\ running /\ ~need_reconnect /\ tx # <<>>
  /\ tx' = Tail(tx)
  /\ \/ /\ open /\ link /\ ~full
        /\ bus' = (Head(tx) + 1) % FrameMod
        /\ UNCHANGED <<thr, backoff>>
     \/ /\ ~(open /\ link /\ ~full)
        /\ IF open /\ link THEN UNCHANGED backoff ELSE MarkNeedReconnect
        /\ thr' = [thr EXCEPT !.at = "wrote"]
        /\ UNCHANGED bus
  /\ UNCHANGED <<running, open, out_flag, out_armed, evfd, snd, next, envVars>>

\* One turn of handleWrite's loop: the front is written and popped, or the loop ends;
\* a fatal error asks for a reconnection, a full buffer waits for EPOLLOUT.
WriteFrame ==
  /\ thr.at = "write" /\ running /\ ~need_reconnect /\ tx # <<>>
  /\ \/ /\ open /\ link /\ ~full
        /\ tx' = Tail(tx) /\ bus' = (Head(tx) + 1) % FrameMod
        /\ UNCHANGED <<thr, backoff>>
     \/ /\ ~(open /\ link /\ ~full)
        /\ IF open /\ link THEN UNCHANGED backoff ELSE MarkNeedReconnect
        /\ thr' = [thr EXCEPT !.at = "wrote"]
        /\ UNCHANGED <<tx, bus>>
  /\ UNCHANGED <<running, open, out_flag, out_armed, evfd, snd, next, envVars>>

WriteEnd ==
  /\ thr.at = "write" /\ (~running \/ tx = <<>>)
  /\ Goto("wrote")
  /\ UNCHANGED <<running, open, backoff, tx, out_flag, out_armed, evfd, snd, next, bus, envVars>>

\* handleWrite ends by asking for EPOLLOUT exactly while frames wait.
WriteOut ==
  /\ thr.at = "wrote"
  /\ thr' = [at |-> "out", want |-> tx # <<>>, ret |-> "tail"]
  /\ UNCHANGED <<running, open, backoff, tx, out_flag, out_armed, evfd, snd, next, bus, envVars>>

-----------------------------------------------------------------------------
(* The interface and the time.                                             *)

LinkChange ==
  /\ link' = ~link
  /\ UNCHANGED <<running, open, backoff, tx, out_flag, out_armed, evfd, thr, snd, next, bus, full>>

BufferChange ==
  /\ full' = ~full
  /\ UNCHANGED <<running, open, backoff, tx, out_flag, out_armed, evfd, thr, snd, next, bus, link>>

TimePasses ==
  /\ cool > 0 /\ cool' = cool - 1
  /\ UNCHANGED <<running, open, need_reconnect, delay, tx, out_flag, out_armed, evfd, thr, snd,
                 next, bus, envVars>>

SenderStep == SendOutTest \/ SendOutCtl \/ SendOutFlag \/ Wakeup \/ StopJoin
ThreadStep ==
  \/ LoopTest \/ ReconnectNotNow \/ ReopenFails \/ ReopenWorks \/ SetupFlag \/ Recovered
  \/ OutTest \/ OutCtl \/ OutFlag \/ OutReturn
  \/ EventFdWrite \/ WriteFrame \/ WriteEnd \/ WriteOut

Next ==
  \/ Send \/ StopCall \/ SenderStep
  \/ ThreadStep \/ WaitTimeout \/ WaitEventFd \/ WaitError \/ WaitOut
  \/ LinkChange \/ BufferChange \/ TimePasses

Spec == Init /\ [][Next]_vars

(***************************************************************************)
(* Both threads are scheduled.  epoll_wait returns every ready event, so   *)
(* an event that is ready again and again is handled.                      *)
(***************************************************************************)
Fairness ==
  /\ WF_vars(SenderStep) /\ WF_vars(ThreadStep) /\ WF_vars(TimePasses)
  /\ WF_vars(WaitTimeout) /\ SF_vars(WaitEventFd) /\ SF_vars(WaitOut)

FairSpec == Spec /\ Fairness

-----------------------------------------------------------------------------
(* Properties.                                                             *)

\* The driver's queues, flags and program counters keep their types; the reconnect
\* back-off stays within its limits.
TypeOK ==
  /\ running \in BOOLEAN /\ open \in BOOLEAN /\ need_reconnect \in BOOLEAN
  /\ delay \in ReconnectMin..ReconnectMax /\ cool \in 0..ReconnectMax
  /\ tx \in Seq(0..FrameMod - 1) /\ Len(tx) <= MaxQueue
  /\ out_flag \in BOOLEAN /\ out_armed \in BOOLEAN /\ evfd \in BOOLEAN
  /\ thr \in [at : ThrAt, want : BOOLEAN, ret : {"loop", "evwrite", "tail"}]
  /\ snd \in SndAt /\ next \in 0..FrameMod - 1 /\ bus \in 0..FrameMod - 1
  /\ link \in BOOLEAN /\ full \in BOOLEAN

(* The frames waiting are exactly those queued and not yet on the bus, in    *)
(* order, through any number of failed writes and reconnections: no frame is *)
(* lost, doubled or overtaken (handleWrite pops only what was written).      *)
InOrder ==
  /\ \A i \in 1..Len(tx) : tx[i] = (bus + i - 1) % FrameMod
  /\ next = (bus + Len(tx)) % FrameMod

(* A wakeup serves the queue: if the interface is usable from then on, the   *)
(* frame at its head goes out, whatever the races on epollout_enabled_ have  *)
(* left registered and through a reconnection still to come.  Without a      *)
(* wakeup this fails: a full buffer met with the flag set and EPOLLOUT not   *)
(* registered strands the queue until the next send().                       *)
WakeupServes ==
  \A n \in 0..FrameMod - 1 :
    []( (evfd /\ tx # <<>> /\ Head(tx) = n) /\ [](link /\ ~full /\ running)
        => <>(tx = <<>> \/ Head(tx) # n) )

(* A port that has lost its socket gets it back once the interface is up     *)
(* again: the delay between attempts stays bounded and epoll_wait does not    *)
(* block for good (tryReconnect).                                            *)
Reconnects == <>[](link /\ running) => (need_reconnect ~> open /\ ~need_reconnect)

(* stop() ends although the CAN thread may be blocked in epoll_wait without  *)
(* a timeout.                                                                *)
StopReturns == ~running ~> snd = "stopped"
=============================================================================
