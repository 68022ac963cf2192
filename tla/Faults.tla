------------------------------- MODULE Faults -------------------------------
(***************************************************************************)
(* The stateful half of the fault subsystem.                               *)
(*                                                                         *)
(* The fault thread runs LogicEngine::refreshFaultPagesOnly every 100 ms:  *)
(* it evaluates the conditions, tells FaultCenter which codes are active   *)
(* (a rising or falling edge writes a row of fault_history in SQLite),     *)
(* refreshes the page cache and writes the two fault pages of the screen.  *)
(* The control thread turns the pages when a button of the screen is       *)
(* clicked.  The two share FaultCenter and FaultHistoryCache without a     *)
(* lock: their calls interleave.                                           *)
(*                                                                         *)
(* A row is [code, open] and its id is its index in `db'; numbers, names   *)
(* and times of a row are left out, and so is FaultCenter's own history_,  *)
(* which feeds pages that are no longer written.  Two activations are      *)
(* taken to have different millisecond stamps.                             *)
(***************************************************************************)
EXTENDS FaultRules, FiniteSets, TLC

CONSTANTS
  Loaded,      \* the codes of the fault map that is loaded
  Readings,    \* what the passes may find in LogicContext
  Steps,       \* time that may pass between two passes
  PageSize,    \* rows of the history page
  WindowPages, \* 3
  CurRows,     \* rows of the current page
  LoadLimit,   \* rows read back at start-up
  Prior,       \* closed rows in the database at the first start
  MaxRows,     \* bound on the rows of the database
  MaxFail,     \* bound on failures of SQLite
  MaxPress,    \* bound on clicks
  MaxRestart,  \* bound on restarts of the program
  MaxEvents    \* bound on failures, clicks and restarts together

ASSUME FaultsAssumption ==
  /\ Loaded \subseteq Code /\ Loaded # {} /\ IsFiniteSet(Loaded)
  /\ Steps \subseteq Nat \ {0} /\ Steps # {}
  /\ {PageSize, WindowPages, CurRows} \subseteq Nat \ {0}
  /\ {LoadLimit, Prior, MaxRows, MaxFail, MaxPress, MaxRestart, MaxEvents} \subseteq Nat

HotRows == 2 * PageSize
Cap == Max({CommDelay, ClearDelay, EstopDelay})   \* timers are not counted beyond

VARIABLES
  pc,        \* fault thread: "sleep", "apply", "window", "flush"
  cond, deb, \* condition engine; debounce states of FaultRuntimeMapper
  want,      \* the codes this pass finds confirmed
  active,    \* active_, the newest activation first
  rowid,     \* active_db_rowid_by_code_, 0 where there is none
  dirty,     \* history_dirty_
  cur_page,  \* current_page_, from 0
  page_no,   \* history_page_no, from 1
  arg,       \* the page the fault thread passes to refreshWindow, 0 for no call
  was_dirty, \* history_changed of this pass
  bound,     \* the database was opened
  db,        \* fault_history
  cache,     \* FaultHistoryCache
  btn,       \* control thread: "idle", "turn", "show", "load", "reload", "flush"
  go,        \* the page a click asks for while btn = "show", else 0
  hmi,       \* the pages as the screen reads them
  fails, presses, restarts,
  obs,       \* per code: what the last passes saw, and for how long
  dead,      \* open rows whose end the program can no longer tell
  rowless,   \* active codes whose insert failed
  missed,    \* the last refresh after a change did not succeed
  calm       \* since this pass began no click was handled and no read failed

center == <<active, rowid, dirty, cur_page>>
eval == <<cond, deb, want, obs>>
ghosts == <<dead, rowless>>
vars == <<pc, cond, deb, want, active, rowid, dirty, cur_page, page_no, arg, was_dirty, bound,
          db, cache, btn, go, hmi, fails, presses, restarts, obs, dead, rowless, missed, calm>>

Least(a, b) == IF a <= b THEN a ELSE b

One(b) == IF b THEN 1 ELSE 0
Room(n) == fails + presses + restarts + n <= MaxEvents
Failed(n) == fails' = fails + n /\ (n = 0 \/ (fails + n <= MaxFail /\ Room(n)))

-----------------------------------------------------------------------------
(***************************************************************************)
(* The loaded rules, and what a pass takes from the context.               *)
(***************************************************************************)
LoadedRules == Rules(Loaded)
RulesOf(source) == {r \in LoadedRules : r.source = source}
RuleOf == [c \in Loaded |-> Rule(RowOf(c))]
ShownCodes == {c \in Loaded : ShowInCurrent(c)}

\* Codes of the polled devices; codes looked up in the condition engine.
DirectCodes == {c \in Loaded : IsRuntimeDebounceSource(RuleOf[c].source)}
KeyedCodes == {c \in Loaded : RuleOf[c].source \in {"pcu", "logic"} /\ KeyOf(RuleOf[c]) # "none"}
KeysRead == {KeyOf(RuleOf[c]) : c \in KeyedCodes}

IsPcuReading(x) == x.online \in BOOLEAN /\ x.estop \in BOOLEAN
IsDevReading(x) == x.online \in BOOLEAN /\ x.bits \subseteq STRING
IsBmsReading(x) ==
  /\ {x.seen, x.online} \subseteq BOOLEAN
  /\ x.bits \subseteq STRING /\ x.tms \subseteq STRING
  /\ \A g \in DOMAIN x.level : x.level[g] \in 0..3

ASSUME ReadingsAssumption == \A in \in Readings :
  /\ \A p \in 0..1 : IsPcuReading(in.pcu[p])
  /\ \A d \in Device : IsDevReading(in.dev[d])
  /\ \A i \in 1..4 : IsBmsReading(in.bms[i])
  /\ in.logic \subseteq LogicFaults

\* What a code stands for by the name of its signal: for the properties.
OfflineSignal == [air_offline |-> "air", ups_offline |-> "ups", tss_offline |-> "smoke", gas_offline |-> "gas"]
AlarmBit == [gas_high_alarm |-> "high_alarm", tss_smoke_alarm |-> "smoke_alarm",
             compressor_fault |-> "compressor_fault", epo_active |-> "epo_active"]
MeantOfDevice(x, dev) == dev.online /\ AlarmBit[x.signal] \in dev.bits
MeantOfBms(x, bms) ==
  /\ bms.seen /\ bms.online
  /\ CASE x.signal = "bms1_cell_overvoltage_lvl1" -> LevelOf(bms, "cell_overvoltage") = 1
       [] x.signal = "bms1_soc_jump_alarm" -> "soc_jump_alarm" \in bms.bits
       [] OTHER -> LevelOf(bms, "cell_overvoltage") = 3
Meant(c, in) ==
  LET x == RowOf(c)
  IN  CASE x.signal \in {"pcu1_comm_fault", "pcu2_comm_fault"} -> ~in.pcu[x.instance - 1].online
        [] x.signal \in {"pcu1_emergency_stop", "pcu2_emergency_stop"} ->
             in.pcu[x.instance - 1].online /\ in.pcu[x.instance - 1].estop
        [] x.signal = "bms1_comm_fault" -> ~(in.bms[1].seen /\ in.bms[1].online)
        [] x.signal \in DOMAIN OfflineSignal -> ~in.dev[OfflineSignal[x.signal]].online
        [] x.signal \in DOMAIN AlarmBit -> MeantOfDevice(x, in.dev[NormalizeSource(x.source)])
        [] IsBmsCode(c) -> MeantOfBms(x, in.bms[x.instance])
        [] OTHER -> x.signal \in in.logic

\* What one pass takes from the context: by their place in the pass, the
\* evaluations whose key a loaded rule reads (the others have no effect), the
\* raw value of the devices' rules, and the codes that are not debounced.
Sample(in) ==
  [evals  |-> [i \in {i \in 1..Len(Evaluations(in)) : Evaluations(in)[i].key \in KeysRead} |->
                 Evaluations(in)[i]],
   raw    |-> [c \in DirectCodes |->
                 LET r == RuleOf[c]
                 IN  EvalDevice(r.source, in.dev[r.source], r.signal, BitsOf(r.source, r.signal))],
   direct |-> {c \in Loaded \ (DirectCodes \cup KeyedCodes) :
                 IF IsBmsCode(c) THEN BmsConfirmed(in.bms[BmsInstance(c)], BmsSignal(c))
                                 ELSE EvalFallback(RuleOf[c], in)},
   meant  |-> {c \in Loaded : Meant(c, in)}]

Samples == {Sample(in) : in \in Readings}

-----------------------------------------------------------------------------
(***************************************************************************)
(* SqliteFaultSink, and FaultHistoryCache above it.                        *)
(***************************************************************************)
OpenRowsOf(c) == {i \in DOMAIN db : db[i].code = c /\ db[i].open}
Latest(S) == CHOOSE i \in S : \A j \in S : j <= i

InsertHistoryBegin(c) == Append(db, [code |-> c, open |-> TRUE])
MarkHistoryClearedById_ByCode(i) ==   \* (mutant) closes the first open row of the code
  [db EXCEPT ![CHOOSE j \in OpenRowsOf(db[i].code) : \A k \in OpenRowsOf(db[i].code) : j <= k].open = FALSE]
MarkHistoryClearedById(i) == [db EXCEPT ![i].open = FALSE]
MarkHistoryCleared(c) ==
  IF OpenRowsOf(c) = {} THEN db ELSE MarkHistoryClearedById(Latest(OpenRowsOf(c)))

\* WHERE clear_ms != 0; ORDER BY id DESC: k - 1 rows are later than row k.
Cleared == {i \in DOMAIN db : ~db[i].open}
ClearedRows ==
  [k \in 1..Cardinality(Cleared) |->
     CHOOSE i \in Cleared : Cardinality({j \in Cleared : j > i}) = k - 1]
LoadHistoryRange(offset, limit) ==
  SubSeq(ClearedRows, offset + 1, Least(offset + limit, Len(ClearedRows)))

\* A query whose sqlite3_step fails ends bindRowsFromStmt_'s loop like the
\* last row does: it returns no row and true.  "fail" is a failed prepare.
RowsRead(o, offset, limit) == IF o = "short" THEN <<>> ELSE LoadHistoryRange(offset, limit)

NoCache == [total |-> 0, hot |-> <<>>, start |-> 0, end |-> 0, rows |-> <<>>]
Pages(c) == (c.total + PageSize - 1) \div PageSize
ClampPage(c, p) == IF Pages(c) = 0 \/ p < 1 THEN 1 ELSE Least(p, Pages(c))

RefreshMeta(c) == [c EXCEPT !.total = Cardinality(Cleared)]
RefreshHotCache(c, o) == [c EXCEPT !.hot = RowsRead(o, 0, HotRows)]

WindowAround_PastEnd(c, p) ==   \* (mutant) the last window is not cut at the last page
  LET half == WindowPages \div 2 IN <<IF p <= 1 + half THEN 1 ELSE p - half, p + half>>
WindowAround(c, p) ==
  LET half == WindowPages \div 2
  IN  CASE WindowPages <= 1 -> <<p, p>>
        [] WindowPages > 1 /\ p <= 1 + half -> <<1, Least(Pages(c), WindowPages)>>
        [] WindowPages > 1 /\ p > 1 + half /\ p + half >= Pages(c) ->
             <<IF Pages(c) > WindowPages - 1 THEN Pages(c) - WindowPages + 1 ELSE 1, Pages(c)>>
        [] OTHER -> <<p - half, p - half + WindowPages - 1>>

\* o is the outcome of the query for the rows; the count was read.
RefreshWindow(c, page, o) ==
  LET m == RefreshMeta(c)
      w == WindowAround(m, ClampPage(m, page))
  IN  CASE Pages(m) = 0 -> [m EXCEPT !.rows = <<>>, !.start = 0, !.end = 0]
        [] Pages(m) # 0 /\ o = "fail" -> m
        [] OTHER -> [m EXCEPT !.start = w[1], !.end = w[2],
                              !.rows = RowsRead(o, (w[1] - 1) * PageSize, (w[2] - w[1] + 1) * PageSize)]

HasPageInWindow_NoEnd(c, p) == c.start # 0 /\ p >= c.start   \* (mutant)
HasPageInWindow(c, p) == c.start # 0 /\ c.end # 0 /\ p \in c.start..c.end

EnsurePageLoaded(c, page, o) ==
  CASE Pages(c) = 0 -> [c EXCEPT !.rows = <<>>, !.start = 0, !.end = 0]
    [] Pages(c) # 0 /\ HasPageInWindow(c, ClampPage(c, page)) -> c
    [] OTHER -> RefreshWindow(c, ClampPage(c, page), o)

Slice(rows, from) == SubSeq(rows, from + 1, Least(from + PageSize, Len(rows)))
PageRows(c, page) ==
  LET p == ClampPage(c, page)
  IN  CASE Pages(c) = 0 -> <<>>
        [] Pages(c) # 0 /\ HasPageInWindow(c, p) -> Slice(c.rows, (p - c.start) * PageSize)
        [] OTHER -> Slice(c.hot, (p - 1) * PageSize)

-----------------------------------------------------------------------------
(***************************************************************************)
(* FaultCenter and the pages of the screen.                                *)
(***************************************************************************)
VisibleIn(codes) == SelectSeq(codes, LAMBDA c : c \in ShownCodes)
CurrentTotalPages(codes) == (Cardinality(Range(codes) \cap ShownCodes) + CurRows - 1) \div CurRows
ClampPages(codes, p) ==
  IF CurrentTotalPages(codes) = 0 THEN 0 ELSE Least(p, CurrentTotalPages(codes) - 1)

BuildCurrentRows(p) ==
  LET v == VisibleIn(active) IN SubSeq(v, p * CurRows + 1, Least((p + 1) * CurRows, Len(v)))

BlankHmi == [cur |-> <<>>, his |-> <<>>]
FlushToHmi ==
  hmi' = [cur |-> BuildCurrentRows(cur_page),
          his |-> IF bound THEN PageRows(cache, page_no) ELSE <<>>]

-----------------------------------------------------------------------------
(***************************************************************************)
(* Start-up: bindFaultDb, loadRecentHistory, restoreFaultHistory.          *)
(***************************************************************************)
Process(ok) ==   \* the state of a fresh process, database opened or not
  /\ pc' = "sleep" /\ btn' = "idle" /\ go' = 0
  /\ cond' = [k \in KeysRead |-> NoCondition] /\ deb' = [c \in DirectCodes |-> NoDebounce]
  /\ want' = {} /\ active' = <<>> /\ rowless' = {}
  /\ obs' = [c \in Loaded |-> [on |-> FALSE, age |-> 0]]
  /\ cur_page' = 0 /\ page_no' = 1 /\ arg' = 0 /\ was_dirty' = FALSE
  /\ hmi' = BlankHmi
  /\ bound' = ok /\ dirty' = ok /\ missed' = ~ok /\ calm' = FALSE

\* The row that is still open and was loaded last.
RestoredRow(c) ==
  LET loaded == {i \in OpenRowsOf(c) : i > Len(db) - LoadLimit}
  IN  IF loaded = {} THEN 0 ELSE Latest(loaded)

\* n of the reads count, hot rows, window succeed.  bindFaultDb makes them,
\* and restoreFaultHistory again on the same table where the history was
\* loaded: n is what the better of the two leaves.  loadHmiMapFile reloads
\* nothing, for it runs before the cache exists.
LoadCache(n) ==
  LET m == IF n >= 1 THEN RefreshMeta(NoCache) ELSE NoCache
      h == IF n >= 2 THEN RefreshHotCache(m, "ok") ELSE m
  IN  IF n >= 3 THEN RefreshWindow(h, 1, "ok") ELSE h

\* read = FALSE: loadRecentHistory fails, or returns no row.
Restart(ok, read, n) ==
  LET bad == One(~ok) + One(~read) + One(n < 3)
  IN  /\ restarts < MaxRestart /\ restarts' = restarts + 1
      /\ ~ok => read /\ n = 3
      /\ Room(bad + 1)
      /\ Failed(bad)
      /\ Process(ok)
      /\ rowid' = [c \in Loaded |-> IF ok /\ read THEN RestoredRow(c) ELSE 0]
      /\ cache' = IF ok THEN LoadCache(n) ELSE NoCache
      /\ dead' = {i \in DOMAIN db : db[i].open}
      /\ UNCHANGED <<db, presses>>

Init ==
  /\ pc = "sleep" /\ btn = "idle" /\ go = 0
  /\ cond = [k \in KeysRead |-> NoCondition] /\ deb = [c \in DirectCodes |-> NoDebounce]
  /\ want = {} /\ active = <<>> /\ rowless = {} /\ dead = {}
  /\ obs = [c \in Loaded |-> [on |-> FALSE, age |-> 0]]
  /\ rowid = [c \in Loaded |-> 0]
  /\ cur_page = 0 /\ page_no = 1 /\ arg = 0 /\ was_dirty = FALSE
  /\ bound = TRUE /\ dirty = TRUE /\ missed = FALSE /\ calm = FALSE
  /\ db = [i \in 1..Prior |-> [code |-> CHOOSE c \in Loaded : TRUE, open |-> FALSE]]
  /\ cache = LoadCache(3) /\ hmi = BlankHmi
  /\ fails = 0 /\ presses = 0 /\ restarts = 0

-----------------------------------------------------------------------------
(***************************************************************************)
(* The fault thread.                                                       *)
(***************************************************************************)
Later(t, d) == Least(t + d, Cap)
AgeCondition(st, d) == IF st.held = NotTimed THEN st ELSE [st EXCEPT !.held = Later(@, d)]
AgeDebounce(st, d) == [st EXCEPT !.since = Later(@, d)]

\* FaultLogicEvaluator::evaluateAll: After[n] is what the first n evaluations
\* of the pass leave.
EvaluateAll(evals, d) ==
  LET After[n \in 0..EvaluationsPerPass] ==
        IF n = 0 THEN [k \in KeysRead |-> AgeCondition(cond[k], d)]
        ELSE IF n \notin DOMAIN evals THEN After[n - 1]
        ELSE LET e == evals[n]
             IN  [After[n - 1] EXCEPT ![e.key] = UpdateWithClear(@, e.raw, ~e.raw, e.trigger, e.clear)]
  IN  After[EvaluationsPerPass]

DebounceAll(raw, d) ==
  [c \in DirectCodes |-> DebounceRule(RuleOf[c], AgeDebounce(deb[c], d), raw[c])]

\* FaultRuntimeMapper::applyAll: a debounced rule, else a rule with a
\* confirmed key, else the signal as it is.
Confirmed(c, direct, conds, debs) ==
  CASE c \in DirectCodes -> debs[c].out
    [] c \in KeyedCodes -> conds[KeyOf(RuleOf[c])].on
    [] OTHER -> c \in direct

\* The time a rule asks for, to raise its code and to drop it.
AtOnce(c) == IsBmsCode(c) \/ RowOf(c).signal = "sd_card_not_inserted"
Trigger(c) ==
  CASE AtOnce(c) -> 0
    [] RowOf(c).signal \in {"pcu1_emergency_stop", "pcu2_emergency_stop"} -> EstopDelay
    [] OTHER -> CommDelay
DropsAtOnce ==
  {"pcu1_comm_fault", "pcu2_comm_fault", "pcu1_emergency_stop", "pcu2_emergency_stop",
   "air_offline", "ups_offline", "tss_offline", "gas_offline", "sd_card_not_inserted"}
Clear(c) == IF IsBmsCode(c) \/ RowOf(c).signal \in DropsAtOnce THEN 0 ELSE ClearDelay

\* How long a code has been seen as it is; not counted for a code that follows
\* its signal at once.
Observe(c, on, d) ==
  IF on = obs[c].on /\ ~AtOnce(c) THEN [obs[c] EXCEPT !.age = Later(@, d)] ELSE [on |-> on, age |-> 0]

Evaluate(s, d) ==
  LET conds == EvaluateAll(s.evals, d)
      debs == DebounceAll(s.raw, d)
      now == {c \in Loaded : Confirmed(c, s.direct, conds, debs)}
  IN  /\ pc = "sleep" /\ pc' = "apply"
      /\ Len(db) + Cardinality(now \ Range(active)) <= MaxRows
      /\ cond' = conds /\ deb' = debs /\ want' = now
      /\ obs' = [c \in Loaded |-> Observe(c, c \in s.meant, d)]
      /\ calm' = (btn = "idle")
      /\ UNCHANGED <<center, page_no, arg, was_dirty, bound, db, cache, btn, go, hmi,
                     fails, presses, restarts, ghosts, missed>>

\* setActive is called for every code of the map, the batteries' first;
\* a call that is not an edge only clamps the page.
Edges == LET on == Range(active) IN {c \in Loaded : (c \in want) # (c \in on)}
Before(c, e) == IF IsBmsCode(c) = IsBmsCode(e) THEN c <= e ELSE IsBmsCode(c)
NextEdge(c) == pc = "apply" /\ c \in Edges /\ \A e \in Edges : Before(c, e)

SetActiveOn(c, ok) ==
  /\ NextEdge(c) /\ c \in want
  /\ active' = <<c>> \o active
  /\ cur_page' = ClampPages(active', cur_page)
  /\ ok => bound /\ ShouldRecordToDb(c)
  /\ Failed(IF ok \/ ~bound THEN 0 ELSE 1)
  /\ db' = IF ok THEN InsertHistoryBegin(c) ELSE db
  /\ rowid' = IF ok THEN [rowid EXCEPT ![c] = Len(db')] ELSE rowid
  /\ rowless' = IF ok THEN rowless ELSE rowless \cup {c}
  /\ dirty' = TRUE
  /\ UNCHANGED <<pc, eval, page_no, arg, was_dirty, bound, cache, btn, go, hmi,
                 presses, restarts, dead, missed, calm>>

SetActiveOff(c, ok) ==
  /\ NextEdge(c) /\ c \notin want
  /\ active' = RemoveFirst(active, c)
  /\ cur_page' = ClampPages(active', cur_page)
  /\ ok => bound
  /\ Failed(IF ok \/ ~bound THEN 0 ELSE 1)
  /\ db' = IF ~ok THEN db
           ELSE IF rowid[c] # 0 THEN MarkHistoryClearedById(rowid[c]) ELSE MarkHistoryCleared(c)
  /\ rowid' = [rowid EXCEPT ![c] = 0]
  /\ rowless' = rowless \ {c}
  /\ dead' = IF ok \/ c \in rowless THEN dead ELSE dead \cup {rowid[c]}
  /\ dirty' = TRUE
  /\ UNCHANGED <<pc, eval, page_no, arg, was_dirty, bound, cache, btn, go, hmi,
                 presses, restarts, missed, calm>>

\* o1, o2: outcomes of the count and of the query for the hot rows.
RefreshHead(o1, o2) ==
  LET meta == RefreshMeta(cache)
      away == ~HasPageInWindow(cache, page_no)
      bad == One(o1 # "ok") + One(o2 # "ok")
  IN  /\ pc = "apply"
      /\ Failed(bad)
      /\ ~bound \/ (~dirty /\ ~away) => o1 = "ok"
      /\ ~bound \/ ~dirty \/ o1 = "fail" => o2 = "ok"
      /\ Edges = {}
      /\ cur_page' = ClampPages(active, cur_page)
      /\ was_dirty' = (bound /\ dirty)
      /\ dirty' = IF bound THEN FALSE ELSE dirty
      /\ cache' = CASE ~bound \/ o1 = "fail" \/ (~dirty /\ ~away) -> cache
                    [] bound /\ o1 = "ok" /\ dirty /\ o2 # "fail" -> RefreshHotCache(meta, o2)
                    [] OTHER -> meta
      /\ arg' = IF bound /\ (dirty \/ away) /\ o1 = "ok" /\ o2 # "fail" THEN page_no ELSE 0
      /\ pc' = IF arg' = 0 THEN "flush" ELSE "window"
      /\ calm' = (calm /\ bad = 0)
      /\ missed' = IF was_dirty' THEN o1 # "ok" \/ o2 # "ok" ELSE missed
      /\ UNCHANGED <<eval, active, rowid, page_no, bound, db, btn, go, hmi, presses, restarts, ghosts>>

\* "count": refreshWindow's own refreshMeta fails.
FaultRefreshWindow(o) ==
  /\ pc = "window" /\ pc' = "flush"
  /\ Failed(IF o = "ok" THEN 0 ELSE 1)
  /\ cache' = IF o = "count" THEN cache ELSE RefreshWindow(cache, arg, o)
  /\ arg' = 0
  /\ calm' = (calm /\ o = "ok")
  /\ missed' = (missed \/ o = "short" \/ (was_dirty /\ o # "ok"))
  /\ UNCHANGED <<eval, center, page_no, was_dirty, bound, db, btn, go, hmi, presses, restarts, ghosts>>

Flush ==
  /\ pc = "flush" /\ pc' = "sleep"
  /\ FlushToHmi
  /\ was_dirty' = FALSE
  /\ UNCHANGED <<eval, center, page_no, arg, bound, db, cache, btn, go, fails, presses, restarts,
                 ghosts, missed, calm>>

-----------------------------------------------------------------------------
(***************************************************************************)
(* The control thread: LogicEngine::onHmiButtonClick_.                     *)
(***************************************************************************)
Press == btn = "idle" /\ presses < MaxPress /\ Room(1) /\ presses' = presses + 1 /\ calm' = FALSE

\* nextCurrentPage compares first and counts then; the others just set.
ClickCurNext ==
  /\ Press
  /\ btn' = IF cur_page + 1 < CurrentTotalPages(active) THEN "turn" ELSE "flush"
  /\ cur_page' = IF CurrentTotalPages(active) = 0 THEN 0 ELSE cur_page
  /\ UNCHANGED <<pc, eval, active, rowid, dirty, page_no, arg, was_dirty, bound, db, cache, go, hmi,
                 fails, restarts, ghosts, missed>>

TurnPage ==
  /\ btn = "turn" /\ btn' = "flush" /\ calm' = FALSE
  /\ cur_page' = cur_page + 1
  /\ UNCHANGED <<pc, eval, active, rowid, dirty, page_no, arg, was_dirty, bound, db, cache, go, hmi,
                 fails, presses, restarts, ghosts, missed>>

ClickCurPrev(first) ==
  /\ Press /\ btn' = "flush"
  /\ cur_page' = IF first \/ cur_page = 0 THEN 0 ELSE cur_page - 1
  /\ UNCHANGED <<pc, eval, active, rowid, dirty, page_no, arg, was_dirty, bound, db, cache, go, hmi,
                 fails, restarts, ghosts, missed>>

\* A click for the history also clamps the page of the current faults.
EnterHistoryView == Press /\ cur_page' = ClampPages(active, cur_page)

ClickHistoryEnter ==
  /\ EnterHistoryView
  /\ btn' = IF bound THEN "show" ELSE "flush"
  /\ go' = IF bound THEN 1 ELSE 0
  /\ page_no' = IF bound THEN page_no ELSE 1
  /\ UNCHANGED <<pc, eval, active, rowid, dirty, arg, was_dirty, bound, db, cache, hmi, fails,
                 restarts, ghosts, missed>>

Target(kind, pages) ==
  CASE kind = "next" -> IF page_no < pages THEN page_no + 1 ELSE pages
    [] kind = "prev" -> IF page_no > 1 THEN page_no - 1 ELSE 1
    [] kind = "first" -> 1

\* The count is read to find the page, and again to show it.
ClickHistory(kind, o) ==
  LET m == RefreshMeta(cache)
      read == bound /\ o = "ok"
      empty == read /\ kind # "first" /\ Pages(m) = 0
  IN  /\ EnterHistoryView
      /\ o = "fail" => bound /\ Room(2)
      /\ Failed(IF o = "fail" THEN 1 ELSE 0)
      /\ page_no' = IF empty THEN 1 ELSE page_no
      /\ cache' = IF read THEN m ELSE cache
      /\ go' = IF read /\ ~empty THEN Target(kind, Pages(m)) ELSE 0
      /\ btn' = CASE ~read -> "flush"
                  [] empty -> "reload"
                  [] OTHER -> "show"
      /\ UNCHANGED <<pc, eval, active, rowid, dirty, arg, was_dirty, bound, db, hmi, restarts,
                     ghosts, missed>>

\* refreshHistoryCacheForPage: the page number is set once the count is known.
ShowHistoryPage(o) ==
  LET m == RefreshMeta(cache)
  IN  /\ btn = "show" /\ go' = 0 /\ calm' = FALSE
      /\ Failed(IF o = "fail" THEN 1 ELSE 0)
      /\ page_no' = IF o = "ok" THEN ClampPage(m, go) ELSE page_no
      /\ cache' = IF o = "ok" THEN m ELSE cache
      /\ btn' = CASE o # "ok" -> "flush"
                  [] o = "ok" /\ Pages(m) = 0 -> "reload"
                  [] OTHER -> "load"
      /\ UNCHANGED <<pc, eval, center, arg, was_dirty, bound, db, hmi, presses, restarts, ghosts, missed>>

\* An empty history is read again, a page only if the window does not hold it.
ButtonLoad(o) ==
  /\ btn \in {"load", "reload"} /\ btn' = "flush" /\ calm' = FALSE
  /\ o # "ok" => \/ btn = "reload" /\ (o = "count" \/ ClearedRows # <<>>)
                 \/ btn = "load" /\ Pages(cache) # 0 /\ ~HasPageInWindow(cache, page_no)
  /\ Failed(IF o = "ok" THEN 0 ELSE 1)
  /\ cache' = CASE o = "count" -> cache
                [] o # "count" /\ btn = "load" -> EnsurePageLoaded(cache, page_no, o)
                [] OTHER -> RefreshWindow(cache, 1, o)
  /\ missed' = (missed \/ o = "short")
  /\ UNCHANGED <<pc, eval, center, page_no, arg, was_dirty, bound, db, go, hmi, presses, restarts, ghosts>>

ButtonFlush ==
  /\ btn = "flush" /\ btn' = "idle" /\ calm' = FALSE
  /\ FlushToHmi
  /\ UNCHANGED <<pc, eval, center, page_no, arg, was_dirty, bound, db, cache, go, fails, presses,
                 restarts, ghosts, missed>>

-----------------------------------------------------------------------------
FaultThread ==
  \/ \E s \in Samples, d \in Steps : Evaluate(s, d)
  \/ \E c \in Loaded, ok \in BOOLEAN : SetActiveOn(c, ok) \/ SetActiveOff(c, ok)
  \/ \E o1 \in {"ok", "fail"}, o2 \in {"ok", "fail", "short"} : RefreshHead(o1, o2)
  \/ \E o \in {"ok", "count", "fail", "short"} : FaultRefreshWindow(o)
  \/ Flush

Clicks ==
  \/ ClickCurNext
  \/ \E first \in BOOLEAN : ClickCurPrev(first)
  \/ ClickHistoryEnter
  \/ \E kind \in {"first", "next", "prev"}, o \in {"ok", "fail"} : ClickHistory(kind, o)

ControlThread ==
  \/ TurnPage
  \/ \E o \in {"ok", "fail"} : ShowHistoryPage(o)
  \/ \E o \in {"ok", "count", "fail", "short"} : ButtonLoad(o)
  \/ ButtonFlush

Next ==
  \/ FaultThread
  \/ Clicks
  \/ ControlThread
  \/ \E ok, read \in BOOLEAN, n \in 0..3 : Restart(ok, read, n)

Spec == Init /\ [][Next]_vars

-----------------------------------------------------------------------------
(***************************************************************************)
(* Properties.                                                             *)
(***************************************************************************)

\* The fault thread and a click in progress stay within the pages there
\* are, whatever reads fail and whoever changes the page meanwhile:
\* history_page_no within the pages counted last, the window within them,
\* the current page within the codes that are loaded.
TypeOK ==
  /\ pc \in {"sleep", "apply", "window", "flush"}
  /\ btn \in {"idle", "turn", "show", "load", "reload", "flush"}
  /\ IsInjective(active) /\ Range(active) \subseteq Loaded
  /\ want \subseteq Loaded /\ rowless \subseteq Range(active)
  /\ rowid \in [Loaded -> 0..Len(db)]
  /\ page_no = 1 \/ page_no \in 1..Pages(cache)
  /\ cache.start <= cache.end /\ cache.end <= Pages(cache)
  /\ cur_page \in 0..Cardinality(Loaded) - 1
  /\ dead \subseteq DOMAIN db

\* fault_history is a truthful log (FaultCenter::setActive): a row is open
\* only while its fault is active and is the row that fault will close,
\* except rows left behind by a restart or by a failed update; and the row
\* of an active fault stays open, except where its insert failed.  A
\* restored or stale row id never closes the row of a running fault.
LogIsTruthful ==
  /\ \A i \in DOMAIN db : db[i].open =>
       i \in dead \/ (db[i].code \in Range(active) /\ rowid[db[i].code] = i)
  /\ \A c \in Range(active) \ rowless : /\ rowid[c] \in DOMAIN db
                                        /\ db[rowid[c]] = [code |-> c, open |-> TRUE]

\* A code is raised exactly when the condition its signal names was seen
\* without a break for the time its rule asks, and dropped exactly when it
\* was gone for the time to clear: "online && estop" for 300 ms, a device
\* fault for 3000 ms, a battery fault at once.
Debounced ==
  /\ pc = "apply" =>
       /\ \A c \in want \ Range(active) : obs[c].on /\ obs[c].age >= Trigger(c)
       /\ \A c \in Range(active) \ want : ~obs[c].on /\ obs[c].age >= Clear(c)
  /\ pc = "sleep" =>
       /\ \A c \in Loaded : obs[c].on /\ obs[c].age >= Trigger(c) => c \in Range(active)
       /\ \A c \in Loaded : ~obs[c].on /\ obs[c].age >= Clear(c) => c \notin Range(active)

\* The rows a page should show, from the active faults and from the table.
CurrentPage == BuildCurrentRows(ClampPages(active, cur_page))
HistoryPage ==
  IF bound THEN SubSeq(ClearedRows, (page_no - 1) * PageSize + 1,
                       Least(page_no * PageSize, Len(ClearedRows)))
  ELSE <<>>

\* A pass that no click and no failed read disturbs leaves the screen on
\* the pages that were asked for, whatever was raced before it: a window
\* loaded for another page, a page turned beyond the last one, a list of
\* faults that shrank.  The history page is exempt after a refresh that
\* failed: its dirty flag is gone and only the next change of a fault asks
\* for another.
PagesCatchUp ==
  pc = "sleep" /\ calm => hmi.cur = CurrentPage /\ (missed \/ hmi.his = HistoryPage)
=============================================================================
