---------------------------- MODULE Faults_proofs ----------------------------
(***************************************************************************)
(* The fault log and the pages of the screen, for every fault map, every   *)
(* size of a page and of the window, every number of rows in the database  *)
(* at start-up, and any number of failures, clicks and restarts.           *)
(*                                                                         *)
(* The log.  What LogIsTruthful says of the rows is not inductive: a code  *)
(* whose insert failed may still hold the row id that a restart restored.  *)
(* Rows adds that such an id names a row of the same code, and that the    *)
(* open rows of a code without a row are ones a restart or a failed update *)
(* left behind; so closing "the row of the code" never hits another one.   *)
(*                                                                         *)
(* The pages.  The count a page number was checked against is never larger *)
(* than the number of cleared rows, which only grows; so a later count,    *)
(* whichever thread makes it, leaves the page and the window within the    *)
(* pages.  A click that has compared the current page and not yet turned   *)
(* it keeps its room, since the fault thread only moves the page back.     *)
(*                                                                         *)
(* What the screen shows.  Fresh: unless a change is still marked dirty or *)
(* a read failed, count and window of the cache are those of the table.    *)
(* Undisturbed: in a pass without a click the page asked for is in the     *)
(* window and the flag was taken before the window was read.  So the flush *)
(* that ends such a pass writes the pages of the table as it is, also      *)
(* where the pass changed the table itself.                                *)
(*                                                                         *)
(* The timers.  First one timer against an ideal stopwatch, apart from the *)
(* state machine.  Then the rules of the map: which of them are debounced, *)
(* which are looked up and under which key, and that each reads what the   *)
(* signal of its code names.  Then a pass, which may evaluate a key more   *)
(* than once.  TimesInv ties it together: the timer or condition of every  *)
(* code agrees with what was observed of it, the codes wanted are those    *)
(* whose output is on, between two passes they are the active ones, and    *)
(* during a pass every edge that is left is due.                           *)
(***************************************************************************)
EXTENDS Faults, TLAPS, FiniteSetTheorems, SequenceTheorems, WellFoundedInduction

LogTypes ==
  /\ active \in Seq(Loaded) /\ IsInjective(active)
  /\ want \subseteq Loaded /\ rowless \subseteq Range(active)
  /\ db \in Seq([code : Loaded, open : BOOLEAN])
  /\ rowid \in [Loaded -> 0 .. Len(db)] /\ dead \subseteq DOMAIN db

Rows ==
  /\ \A c \in Loaded : rowid[c] # 0 => db[rowid[c]].code = c
  /\ \A c \in rowless, i \in DOMAIN db : db[i].open /\ db[i].code = c => i \in dead

LogInv == LogTypes /\ Rows /\ LogIsTruthful

IsCache(c) ==
  /\ {"total", "hot", "start", "end", "rows"} \subseteq DOMAIN c
  /\ c.total \in Nat /\ c.start \in Nat /\ c.end \in Nat
  /\ c.start <= c.end /\ c.end <= Pages(c)

Steady ==
  /\ pc \in {"sleep", "apply", "window", "flush"}
  /\ btn \in {"idle", "turn", "show", "load", "reload", "flush"} /\ go \in Nat
  /\ IsCache(cache) /\ cache.total <= Cardinality(Cleared)
  /\ page_no \in Nat /\ (page_no = 1 \/ page_no \in 1 .. Pages(cache))
  /\ arg \in Nat
  /\ cur_page \in 0 .. Cardinality(Loaded) - 1
  /\ btn = "turn" => cur_page + 1 \in 0 .. Cardinality(Loaded) - 1

FInv == LogInv /\ Steady

\* A count and a window that are those of the table.
FreshCache(c) ==
  /\ c.total = Cardinality(Cleared)
  /\ c.start # 0 => c.rows = LoadHistoryRange((c.start - 1) * PageSize, (c.end - c.start + 1) * PageSize)

\* What a calm pass relies on: the dirty flag is taken before the window is
\* read, a count and a window that no failed read left behind are those of
\* the table, and the page asked for is in the window.
Fresh == bound /\ ~missed /\ ~dirty /\ ~(pc = "window" /\ was_dirty) => FreshCache(cache)

Undisturbed ==
  /\ {bound, missed, dirty, was_dirty, calm} \subseteq BOOLEAN
  /\ pc \in {"window", "flush"} /\ bound => ~dirty
  /\ pc = "window" => bound
  /\ calm /\ pc \in {"window", "flush"} => cur_page = ClampPages(active, cur_page)
  /\ calm /\ pc = "window" => arg = page_no
  /\ calm /\ pc = "flush" /\ bound /\ ~missed =>
       Pages(cache) = 0 \/ HasPageInWindow(cache, page_no)

CInv == FInv /\ Fresh /\ Undisturbed /\ PagesCatchUp

\* The strengthened invariant carries the type invariant.
LEMMA InvImpliesTypeOK == FInv => TypeOK
<1>1. ASSUME LogInv PROVE Range(active) \subseteq Loaded
  BY <1>1 DEF LogInv, LogTypes, Range
<1> QED
  BY <1>1 DEF FInv, LogInv, LogTypes, Steady, IsCache, TypeOK

-----------------------------------------------------------------------------
(* The list of the active faults.                                          *)

\* A code that rises is put in front of the active ones.
LEMMA Prepend ==
  ASSUME NEW T, NEW s \in Seq(T), IsInjective(s), NEW c \in T, c \notin Range(s)
  PROVE  /\ <<c>> \o s \in Seq(T) /\ IsInjective(<<c>> \o s)
         /\ Range(<<c>> \o s) = Range(s) \cup {c}
<1> DEFINE t == <<c>> \o s
<1>1. /\ t \in Seq(T) /\ Len(t) = Len(s) + 1 /\ t[1] = c
      /\ \A i \in 2 .. Len(t) : t[i] = s[i - 1]
  OBVIOUS
<1>2. DOMAIN t = 1 .. Len(s) + 1 /\ DOMAIN s = 1 .. Len(s) /\ Len(s) \in Nat
  BY <1>1
<1> HIDE DEF t
<1>3. \A i \in 2 .. Len(s) + 1 : t[i] = s[i - 1] /\ i - 1 \in DOMAIN s /\ s[i - 1] # c
  BY <1>1, <1>2 DEF Range
<1>4. IsInjective(t)
  <2> SUFFICES ASSUME NEW a \in DOMAIN t, NEW b \in DOMAIN t, t[a] = t[b] PROVE a = b
    BY DEF IsInjective
  <2>1. CASE a = 1 \/ b = 1
    BY <2>1, <1>1, <1>2, <1>3
  <2>2. CASE a # 1 /\ b # 1
    <3>1. a \in 2 .. Len(s) + 1 /\ b \in 2 .. Len(s) + 1
      BY <2>2, <1>2
    <3>2. a - 1 = b - 1
      BY <3>1, <1>3 DEF IsInjective
    <3> QED
      BY <3>1, <3>2
  <2> QED
    BY <2>1, <2>2
<1>5. Range(t) = Range(s) \cup {c}
  <2>1. ASSUME NEW x \in Range(s) PROVE x \in Range(t)
    <3>1. PICK i \in DOMAIN s : x = s[i]
      BY <2>1 DEF Range
    <3>2. i + 1 \in 2 .. Len(s) + 1 /\ (i + 1) - 1 = i /\ i + 1 \in DOMAIN t
      BY <1>2
    <3> QED
      BY <3>1, <3>2, <1>3 DEF Range
  <2>2. c \in Range(t)
    BY <1>1, <1>2 DEF Range
  <2>3. ASSUME NEW x \in Range(t) PROVE x \in Range(s) \cup {c}
    <3>1. PICK i \in DOMAIN t : x = t[i]
      BY <2>3 DEF Range
    <3>2. i = 1 \/ i \in 2 .. Len(s) + 1
      BY <1>2
    <3> QED
      BY <3>1, <3>2, <1>1, <1>3 DEF Range
  <2> QED
    BY <2>1, <2>2, <2>3
<1> QED
  BY <1>1, <1>4, <1>5 DEF t

\* A code that falls is taken out of the active ones.
LEMMA Erase ==
  ASSUME NEW T, NEW s \in Seq(T), IsInjective(s), NEW c \in Range(s)
  PROVE  /\ RemoveFirst(s, c) \in Seq(T) /\ IsInjective(RemoveFirst(s, c))
         /\ Range(RemoveFirst(s, c)) = Range(s) \ {c}
<1>0. DOMAIN s = 1 .. Len(s) /\ Len(s) \in Nat
  OBVIOUS
<1>1. PICK k \in 1 .. Len(s) : s[k] = c
  BY <1>0 DEF Range
<1>2. {i \in 1 .. Len(s) : s[i] = c} = {k}
  BY <1>0, <1>1 DEF IsInjective
<1>3. Min({k}) = k
  BY DEF Min
<1>4. SelectInSeq(s, LAMBDA v : v = c) = k
  BY <1>2, <1>3 DEF SelectInSeq
<1> DEFINE t == SubSeq(s, 1, k - 1) \o SubSeq(s, k + 1, Len(s))
<1>5. RemoveFirst(s, c) = t
  BY <1>1, <1>4 DEF RemoveFirst, RemoveAt
<1>6. /\ t \in Seq(T) /\ Len(t) = Len(s) - 1
      /\ \A i \in 1 .. k - 1 : t[i] = s[i]
      /\ \A i \in k .. Len(s) - 1 : t[i] = s[i + 1]
  <2>1. /\ SubSeq(s, 1, k - 1) \in Seq(T) /\ Len(SubSeq(s, 1, k - 1)) = k - 1
        /\ \A i \in 1 .. k - 1 : SubSeq(s, 1, k - 1)[i] = s[i]
    BY <1>0, <1>1
  <2>2. /\ SubSeq(s, k + 1, Len(s)) \in Seq(T) /\ Len(SubSeq(s, k + 1, Len(s))) = Len(s) - k
        /\ \A i \in 1 .. Len(s) - k : SubSeq(s, k + 1, Len(s))[i] = s[k + i]
    <3>1. /\ k + 1 \in Int /\ Len(s) \in Int /\ Len(s) - (k + 1) + 1 = Len(s) - k
          /\ \A i \in k + 1 .. Len(s) : s[i] \in T
      BY <1>0, <1>1
    <3>2. /\ SubSeq(s, k + 1, Len(s)) \in Seq(T)
          /\ Len(SubSeq(s, k + 1, Len(s))) = IF k + 1 <= Len(s) THEN Len(s) - (k + 1) + 1 ELSE 0
          /\ \A i \in 1 .. Len(s) - (k + 1) + 1 : SubSeq(s, k + 1, Len(s))[i] = s[k + 1 + i - 1]
      <4>1. \A m, n \in Int : (\A i \in m .. n : s[i] \in T) =>
              /\ SubSeq(s, m, n) \in Seq(T)
              /\ Len(SubSeq(s, m, n)) = IF m <= n THEN n - m + 1 ELSE 0
              /\ \A i \in 1 .. n - m + 1 : SubSeq(s, m, n)[i] = s[m + i - 1]
        BY SubSeqProperties
      <4> QED
        BY <3>1, <4>1
    <3>3. Len(s) - k = IF k + 1 <= Len(s) THEN Len(s) - (k + 1) + 1 ELSE 0
      <4>1. \A n \in Nat : \A j \in 1 .. n : n - j = IF j + 1 <= n THEN n - (j + 1) + 1 ELSE 0
        OBVIOUS
      <4> QED
        BY <4>1, <1>0, <1>1
    <3>4. \A i \in 1 .. Len(s) - k : k + 1 + i - 1 = k + i
      BY <1>0, <1>1
    <3> QED
      BY <3>1, <3>2, <3>3, <3>4
  <2> DEFINE a == SubSeq(s, 1, k - 1)
             b == SubSeq(s, k + 1, Len(s))
  <2> HIDE DEF a, b
  <2>3. /\ a \o b \in Seq(T) /\ Len(a \o b) = Len(s) - 1
        /\ \A i \in 1 .. k - 1 : (a \o b)[i] = s[i]
        /\ \A i \in k .. Len(s) - 1 : (a \o b)[i] = s[i + 1]
    <3>1. /\ a \in Seq(T) /\ b \in Seq(T) /\ Len(a) = k - 1 /\ Len(b) = Len(s) - k
          /\ \A i \in 1 .. k - 1 : a[i] = s[i]
          /\ \A i \in 1 .. Len(s) - k : b[i] = s[k + i]
      BY <2>1, <2>2 DEF a, b
    <3>2. a \o b \in Seq(T) /\ Len(a \o b) = Len(s) - 1
      <4>1. a \o b \in Seq(T) /\ Len(a \o b) = Len(a) + Len(b)
        BY <3>1, ConcatProperties
      <4> QED
        BY <3>1, <4>1, <1>0, <1>1
    <3>3. ASSUME NEW i \in 1 .. k - 1 PROVE (a \o b)[i] = s[i]
      BY <3>1, <1>0, <1>1
    <3>4. ASSUME NEW i \in k .. Len(s) - 1 PROVE (a \o b)[i] = s[i + 1]
      <4>1. (a \o b)[i] = b[i - (k - 1)]
        BY <3>1, <1>0, <1>1
      <4>2. i - (k - 1) \in 1 .. Len(s) - k /\ k + (i - (k - 1)) = i + 1
        BY <1>0, <1>1
      <4> QED
        BY <4>1, <4>2, <3>1
    <3> QED
      BY <3>2, <3>3, <3>4
  <2> QED
    BY <2>3 DEF a, b
<1> HIDE DEF t
<1> DEFINE Old(i) == IF i < k THEN i ELSE i + 1
<1>7. DOMAIN t = 1 .. Len(s) - 1
  BY <1>6
<1>8. \A i \in DOMAIN t : Old(i) \in DOMAIN s /\ Old(i) # k /\ t[i] = s[Old(i)]
  BY <1>0, <1>1, <1>6, <1>7
<1>9. \A i, j \in DOMAIN t : Old(i) = Old(j) => i = j
  BY <1>0, <1>1, <1>7
<1>10. \A m \in DOMAIN s : m # k => \E i \in DOMAIN t : Old(i) = m
  <2> SUFFICES ASSUME NEW m \in DOMAIN s, m # k PROVE \E i \in DOMAIN t : Old(i) = m
    OBVIOUS
  <2>1. CASE m < k
    BY <2>1, <1>0, <1>1, <1>7
  <2>2. CASE m > k
    <3>1. m - 1 \in DOMAIN t /\ Old(m - 1) = m
      BY <2>2, <1>0, <1>1, <1>7
    <3> QED
      BY <3>1
  <2> QED
    BY <2>1, <2>2, <1>0, <1>1
<1> HIDE DEF Old
<1>11. IsInjective(t)
  BY <1>8, <1>9 DEF IsInjective
<1>12. Range(t) = Range(s) \ {c}
  <2>1. ASSUME NEW x \in Range(t) PROVE x \in Range(s) \ {c}
    BY <2>1, <1>0, <1>1, <1>8 DEF Range, IsInjective
  <2>2. ASSUME NEW x \in Range(s) \ {c} PROVE x \in Range(t)
    <3>1. PICK m \in DOMAIN s : x = s[m]
      BY <2>2 DEF Range
    <3>2. PICK i \in DOMAIN t : Old(i) = m
      BY <3>1, <2>2, <1>1, <1>10
    <3> QED
      BY <3>1, <3>2, <1>8 DEF Range
  <2> QED
    BY <2>1, <2>2
<1> QED
  BY <1>5, <1>6, <1>11, <1>12
-----------------------------------------------------------------------------
(* The rows of the log.                                                    *)

\* A bounded set of numbers that is not empty has a largest one.
LEMMA Largest ==
  ASSUME NEW m \in Nat, NEW S \in SUBSET (0 .. m), S # {}
  PROVE  Latest(S) \in S
<1> DEFINE U == {m - n : n \in S}
<1>1. \A n \in S : n \in Nat /\ m - n \in Nat /\ m - n \in U
  OBVIOUS
<1>2. U \subseteq Nat /\ U # {}
  BY <1>1
<1>3. PICK x \in U : \A y \in U : ~ (<<y, x>> \in OpToRel(<, Nat))
  <2> HIDE DEF U
  <2> QED
    BY <1>2, NatLessThanWellFounded, WFMin
<1>4. \A y \in U : ~(y < x)
  BY <1>2, <1>3 DEF OpToRel
<1>5. PICK n \in S : x = m - n
  OBVIOUS
<1>6. ASSUME NEW k \in S PROVE k <= n
  <2>1. ~(m - k < m - n)
    BY <1>1, <1>4, <1>5
  <2> QED
    BY <1>1, <2>1
<1> QED
  BY <1>6 DEF Latest

\* The rows of the first start are closed.
LEMMA LogInit == Init => LogInv
<1> SUFFICES ASSUME Init PROVE LogInv
  OBVIOUS
<1> DEFINE first == CHOOSE c \in Loaded : TRUE
<1>1. first \in Loaded /\ Prior \in Nat
  BY FaultsAssumption
<1> HIDE DEF first
<1>2. db = [i \in 1 .. Prior |-> [code |-> first, open |-> FALSE]]
  BY DEF Init, first
<1>3. db \in Seq([code : Loaded, open : BOOLEAN]) /\ Len(db) = Prior /\ DOMAIN db = 1 .. Prior
  BY <1>1, <1>2
<1>4. \A i \in DOMAIN db : ~db[i].open
  BY <1>2
<1>5. active = <<>> /\ want = {} /\ rowless = {} /\ dead = {} /\ rowid = [c \in Loaded |-> 0]
  BY DEF Init
<1>6. active \in Seq(Loaded) /\ IsInjective(active) /\ Range(active) = {}
  BY <1>5 DEF IsInjective, Range
<1>7. rowid \in [Loaded -> 0 .. Len(db)]
  BY <1>1, <1>3, <1>5
<1> QED
  BY <1>3, <1>4, <1>5, <1>6, <1>7 DEF LogInv, LogTypes, Rows, LogIsTruthful

\* A step that leaves the log alone keeps its invariant.
LEMMA LogKept ==
  ASSUME LogInv, want' \subseteq Loaded, UNCHANGED <<active, rowid, db, dead, rowless>>
  PROVE  LogInv'
BY DEF LogInv, LogTypes, Rows, LogIsTruthful, Range, IsInjective

\* A restart forgets the active codes and leaves their rows behind.
LEMMA LogRestart ==
  ASSUME LogInv, NEW ok \in BOOLEAN, NEW read \in BOOLEAN, NEW n \in 0 .. 3, Restart(ok, read, n)
  PROVE  LogInv'
<1>1. /\ active' = <<>> /\ want' = {} /\ rowless' = {} /\ db' = db
      /\ dead' = {i \in DOMAIN db : db[i].open}
      /\ rowid' = [c \in Loaded |-> IF ok /\ read THEN RestoredRow(c) ELSE 0]
  BY DEF Restart, Process
<1>2. /\ db \in Seq([code : Loaded, open : BOOLEAN]) /\ Len(db) \in Nat /\ DOMAIN db = 1 .. Len(db)
  BY DEF LogInv, LogTypes
<1>3. ASSUME NEW c \in Loaded
      PROVE  /\ RestoredRow(c) \in 0 .. Len(db)
             /\ RestoredRow(c) # 0 => db[RestoredRow(c)].code = c
  <2> DEFINE S == {i \in OpenRowsOf(c) : i > Len(db) - LoadLimit}
  <2>1. S \in SUBSET (0 .. Len(db)) /\ \A i \in S : i \in 1 .. Len(db) /\ db[i].code = c
    BY <1>2 DEF OpenRowsOf
  <2>2. RestoredRow(c) = IF S = {} THEN 0 ELSE Latest(S)
    BY DEF RestoredRow
  <2> HIDE DEF S
  <2>3. CASE S = {}
    BY <2>2, <2>3, <1>2
  <2>4. CASE S # {}
    <3>1. Latest(S) \in S
      BY <2>1, <2>4, <1>2, Largest
    <3> QED
      BY <3>1, <2>1, <2>2, <2>4, <1>2
  <2> QED
    BY <2>3, <2>4
<1>4. rowid' \in [Loaded -> 0 .. Len(db)] /\ \A c \in Loaded : rowid'[c] # 0 => db[rowid'[c]].code = c
  BY <1>1, <1>2, <1>3
<1>5. <<>> \in Seq(Loaded) /\ IsInjective(<<>>) /\ Range(<<>>) = {}
  BY DEF IsInjective, Range
<1>6. LogTypes'
  BY <1>1, <1>2, <1>4, <1>5 DEF LogTypes
<1>7. Rows'
  BY <1>1, <1>4 DEF Rows
<1>8. LogIsTruthful'
  BY <1>1, <1>5 DEF LogIsTruthful
<1> QED
  BY <1>6, <1>7, <1>8 DEF LogInv

\* A rising edge inserts a row, or leaves the code without one.
LEMMA LogOn ==
  ASSUME LogInv, NEW c \in Loaded, NEW ok \in BOOLEAN, SetActiveOn(c, ok)
  PROVE  LogInv'
<1>1. c \notin Range(active) /\ active' = <<c>> \o active /\ want' = want /\ dead' = dead
  BY DEF SetActiveOn, NextEdge, Edges, eval
<1>2. active' \in Seq(Loaded) /\ IsInjective(active') /\ Range(active') = Range(active) \cup {c}
  <2>1. active \in Seq(Loaded) /\ IsInjective(active)
    BY DEF LogInv, LogTypes
  <2> QED
    BY <1>1, <2>1, Prepend
<1>3. /\ db \in Seq([code : Loaded, open : BOOLEAN]) /\ Len(db) \in Nat /\ DOMAIN db = 1 .. Len(db)
      /\ rowid \in [Loaded -> 0 .. Len(db)] /\ dead \subseteq DOMAIN db /\ rowless \subseteq Range(active)
      /\ want \subseteq Loaded /\ Range(active) \subseteq Loaded
  BY DEF LogInv, LogTypes, Range
<1>4. \A i \in DOMAIN db : db[i].open /\ db[i].code = c => i \in dead
  BY <1>1 DEF LogInv, LogIsTruthful
<1>5. CASE ~ok
  <2>1. db' = db /\ rowid' = rowid /\ rowless' = rowless \cup {c}
    BY <1>5 DEF SetActiveOn
  <2>2. LogTypes'
    BY <1>1, <1>2, <1>3, <2>1 DEF LogTypes
  <2>3. Rows'
    BY <1>1, <1>4, <2>1 DEF LogInv, Rows
  <2>4. LogIsTruthful'
    BY <1>1, <1>2, <2>1 DEF LogInv, LogIsTruthful
  <2> QED
    BY <2>2, <2>3, <2>4 DEF LogInv
<1>6. CASE ok
  <2> DEFINE new == [code |-> c, open |-> TRUE]
             n == Len(db) + 1
  <2>1. /\ db' = Append(db, new) /\ rowid' = [rowid EXCEPT ![c] = Len(db')] /\ rowless' = rowless
    BY <1>6 DEF SetActiveOn, InsertHistoryBegin
  <2>2. new \in [code : Loaded, open : BOOLEAN] /\ new.open /\ new.code = c
    OBVIOUS
  <2> HIDE DEF new
  <2>3. /\ db' \in Seq([code : Loaded, open : BOOLEAN]) /\ Len(db') = n
        /\ DOMAIN db' = 1 .. n /\ db'[n] = new
        /\ \A i \in DOMAIN db : i \in DOMAIN db' /\ db'[i] = db[i]
        /\ \A i \in DOMAIN db' : i \in DOMAIN db \/ i = n
    BY <1>3, <2>1, <2>2
  <2>4. n \notin DOMAIN db /\ n \in DOMAIN db' /\ n # 0
    BY <1>3, <2>3
  <2>5. /\ rowid'[c] = n /\ \A e \in Loaded : e # c => rowid'[e] = rowid[e]
        /\ rowid' \in [Loaded -> 0 .. n]
    <3>1. n \in 0 .. n /\ \A j \in 0 .. Len(db) : j \in 0 .. n
      BY <1>3
    <3> HIDE DEF n
    <3> QED
      BY <1>3, <2>1, <2>3, <3>1
  <2>6. \A e \in Loaded : rowid[e] # 0 => rowid[e] \in DOMAIN db
    BY <1>3
  <2> HIDE DEF n
  <2>7. LogTypes'
    BY <1>1, <1>2, <1>3, <2>1, <2>3, <2>5 DEF LogTypes
  <2>8. Rows'
    <3>1. ASSUME NEW e \in Loaded, rowid'[e] # 0 PROVE db'[rowid'[e]].code = e
      <4>1. CASE e = c
        BY <4>1, <2>2, <2>3, <2>5
      <4>2. CASE e # c
        BY <4>2, <3>1, <2>3, <2>5, <2>6 DEF LogInv, Rows
      <4> QED
        BY <4>1, <4>2
    <3>2. ASSUME NEW e \in rowless, NEW i \in DOMAIN db', db'[i].open, db'[i].code = e
          PROVE  i \in dead
      <4>1. i # n
        BY <3>2, <1>1, <1>3, <2>2, <2>3
      <4> QED
        BY <4>1, <3>2, <2>3 DEF LogInv, Rows
    <3> QED
      BY <3>1, <3>2, <1>1, <2>1 DEF Rows
  <2>9. LogIsTruthful'
    <3>1. ASSUME NEW i \in DOMAIN db', db'[i].open
          PROVE  i \in dead \/ (db'[i].code \in Range(active') /\ rowid'[db'[i].code] = i)
      <4>1. CASE i = n
        BY <4>1, <1>2, <2>2, <2>3, <2>5
      <4>2. CASE i \in DOMAIN db /\ i \notin dead
        <5>1. /\ db[i].open /\ db'[i] = db[i] /\ db[i].code \in Range(active)
              /\ rowid[db[i].code] = i /\ db[i].code # c
          BY <4>2, <3>1, <2>3, <1>4 DEF LogInv, LogIsTruthful
        <5> QED
          BY <5>1, <1>2, <1>3, <2>5
      <4> QED
        BY <4>1, <4>2, <2>3
    <3>2. ASSUME NEW e \in Range(active') \ rowless
          PROVE  rowid'[e] \in DOMAIN db' /\ db'[rowid'[e]] = [code |-> e, open |-> TRUE]
      <4>1. CASE e = c
        BY <4>1, <2>3, <2>4, <2>5 DEF new
      <4>2. CASE e # c
        <5>1. e \in Range(active) \ rowless /\ e \in Loaded
          BY <4>2, <3>2, <1>2, <1>3
        <5>2. rowid[e] \in DOMAIN db /\ db[rowid[e]] = [code |-> e, open |-> TRUE]
          BY <5>1 DEF LogInv, LogIsTruthful
        <5> QED
          BY <5>1, <5>2, <4>2, <2>3, <2>5
      <4> QED
        BY <4>1, <4>2
    <3> QED
      BY <3>1, <3>2, <1>1, <2>1 DEF LogIsTruthful
  <2> QED
    BY <2>7, <2>8, <2>9 DEF LogInv
<1> QED
  BY <1>5, <1>6
\* The row that is closed, by its id or by its code, is one of the code's.
LEMMA RowClosed ==
  ASSUME LogInv, NEW c \in Loaded,
         db' = IF rowid[c] # 0 THEN MarkHistoryClearedById(rowid[c]) ELSE MarkHistoryCleared(c)
  PROVE  /\ db' \in Seq([code : Loaded, open : BOOLEAN]) /\ Len(db') = Len(db)
         /\ DOMAIN db' = DOMAIN db
         /\ \A i \in DOMAIN db : /\ db'[i].code = db[i].code
                                 /\ db'[i].open => db[i].open
                                 /\ db[i].code # c => db'[i] = db[i]
         /\ rowid[c] # 0 => ~db'[rowid[c]].open
<1>1. /\ db \in Seq([code : Loaded, open : BOOLEAN]) /\ Len(db) \in Nat /\ DOMAIN db = 1 .. Len(db)
      /\ rowid \in [Loaded -> 0 .. Len(db)]
      /\ rowid[c] # 0 => rowid[c] \in DOMAIN db /\ db[rowid[c]].code = c
  BY DEF LogInv, LogTypes, Rows
<1>2. ASSUME NEW k \in DOMAIN db, db[k].code = c, db' = MarkHistoryClearedById(k)
      PROVE  /\ db' \in Seq([code : Loaded, open : BOOLEAN]) /\ Len(db') = Len(db)
             /\ DOMAIN db' = DOMAIN db
             /\ \A i \in DOMAIN db : /\ db'[i].code = db[i].code
                                     /\ db'[i].open => db[i].open
                                     /\ db[i].code # c => db'[i] = db[i]
             /\ ~db'[k].open
  <2>1. \A i \in DOMAIN db : db[i] \in [code : Loaded, open : BOOLEAN]
    BY <1>1, ElementOfSeq
  <2>2. db' = [db EXCEPT ![k] = [db[k] EXCEPT !.open = FALSE]]
    BY <1>2 DEF MarkHistoryClearedById
  <2>3. /\ [db[k] EXCEPT !.open = FALSE] \in [code : Loaded, open : BOOLEAN]
        /\ [db[k] EXCEPT !.open = FALSE].code = c /\ ~[db[k] EXCEPT !.open = FALSE].open
    BY <1>2, <2>1
  <2>4. db' \in Seq([code : Loaded, open : BOOLEAN]) /\ Len(db') = Len(db) /\ DOMAIN db' = DOMAIN db
    <3>1. ASSUME NEW R, NEW s \in Seq(R), NEW i \in DOMAIN s, NEW e \in R
          PROVE  LET t == [s EXCEPT ![i] = e]
                 IN  t \in Seq(R) /\ Len(t) = Len(s) /\ DOMAIN t = DOMAIN s
      OBVIOUS
    <3> DEFINE R == [code : Loaded, open : BOOLEAN]
               e == [db[k] EXCEPT !.open = FALSE]
    <3>2. db \in Seq(R) /\ e \in R /\ db' = [db EXCEPT ![k] = e]
      BY <1>1, <2>2, <2>3
    <3> HIDE DEF R, e
    <3>3. db' \in Seq(R) /\ Len(db') = Len(db) /\ DOMAIN db' = DOMAIN db
      BY <1>2, <3>1, <3>2
    <3> QED
      BY <3>3 DEF R
  <2> QED
    BY <1>2, <2>1, <2>2, <2>3, <2>4
<1>3. CASE rowid[c] # 0
  BY <1>1, <1>2, <1>3
<1>4. CASE rowid[c] = 0 /\ OpenRowsOf(c) = {}
  BY <1>1, <1>4 DEF MarkHistoryCleared
<1>5. CASE rowid[c] = 0 /\ OpenRowsOf(c) # {}
  <2>1. OpenRowsOf(c) \in SUBSET (0 .. Len(db)) /\ \A i \in OpenRowsOf(c) : i \in DOMAIN db /\ db[i].code = c
    BY <1>1 DEF OpenRowsOf
  <2>2. Latest(OpenRowsOf(c)) \in OpenRowsOf(c)
    BY <1>1, <1>5, <2>1, Largest
  <2>3. db' = MarkHistoryClearedById(Latest(OpenRowsOf(c)))
    BY <1>5 DEF MarkHistoryCleared
  <2> QED
    BY <1>2, <1>5, <2>1, <2>2, <2>3
<1> QED
  BY <1>3, <1>4, <1>5

\* A falling edge closes the row of the code and no other.
LEMMA LogOff ==
  ASSUME LogInv, NEW c \in Loaded, NEW ok \in BOOLEAN, SetActiveOff(c, ok)
  PROVE  LogInv'
<1>1. /\ c \in Range(active) /\ active' = RemoveFirst(active, c) /\ want' = want
      /\ rowid' = [rowid EXCEPT ![c] = 0] /\ rowless' = rowless \ {c}
      /\ dead' = IF ok \/ c \in rowless THEN dead ELSE dead \cup {rowid[c]}
  BY DEF SetActiveOff, NextEdge, Edges, eval
<1>2. active' \in Seq(Loaded) /\ IsInjective(active') /\ Range(active') = Range(active) \ {c}
  <2>1. active \in Seq(Loaded) /\ IsInjective(active)
    BY DEF LogInv, LogTypes
  <2> QED
    BY <1>1, <2>1, Erase
<1>3. /\ db \in Seq([code : Loaded, open : BOOLEAN]) /\ DOMAIN db = 1 .. Len(db)
      /\ rowid \in [Loaded -> 0 .. Len(db)] /\ dead \subseteq DOMAIN db /\ rowless \subseteq Range(active)
      /\ want \subseteq Loaded /\ Range(active) \subseteq Loaded
      /\ \A e \in Loaded : rowid[e] # 0 => db[rowid[e]].code = e
  BY DEF LogInv, LogTypes, Rows, Range
<1>4. c \notin rowless => rowid[c] \in DOMAIN db /\ rowid[c] # 0
  <2>1. c \notin rowless => rowid[c] \in DOMAIN db
    BY <1>1 DEF LogInv, LogIsTruthful
  <2> QED
    BY <1>3, <2>1
<1>5. /\ db' \in Seq([code : Loaded, open : BOOLEAN]) /\ Len(db') = Len(db)
      /\ DOMAIN db' = DOMAIN db
      /\ \A i \in DOMAIN db : /\ db'[i].code = db[i].code
                              /\ db'[i].open => db[i].open
                              /\ db[i].code # c => db'[i] = db[i]
      /\ ok /\ rowid[c] # 0 => ~db'[rowid[c]].open
  <2>1. CASE ok
    <3>1. db' = IF rowid[c] # 0 THEN MarkHistoryClearedById(rowid[c]) ELSE MarkHistoryCleared(c)
      BY <2>1 DEF SetActiveOff
    <3> QED
      BY <3>1, RowClosed
  <2>2. CASE ~ok
    BY <2>2, <1>3 DEF SetActiveOff
  <2> QED
    BY <2>1, <2>2
<1>6. ASSUME NEW i \in DOMAIN db, db'[i].open, db[i].code = c PROVE i \in dead'
  <2>1. db[i].open
    BY <1>5, <1>6
  <2>2. CASE c \in rowless
    BY <2>1, <2>2, <1>1, <1>6 DEF LogInv, Rows
  <2>3. CASE c \notin rowless
    <3>1. i \in dead \/ i = rowid[c]
      BY <2>1, <1>6 DEF LogInv, LogIsTruthful
    <3> QED
      BY <3>1, <2>3, <1>1, <1>4, <1>5, <1>6
  <2> QED
    BY <2>2, <2>3
<1>7. dead \subseteq dead' /\ dead' \subseteq DOMAIN db
  BY <1>1, <1>3, <1>4
<1>8. rowid' \in [Loaded -> 0 .. Len(db)] /\ rowid'[c] = 0 /\ \A e \in Loaded : e # c => rowid'[e] = rowid[e]
  BY <1>1, <1>3
<1>9. LogTypes'
  BY <1>1, <1>2, <1>3, <1>5, <1>7, <1>8 DEF LogTypes
<1>10. Rows'
  <2>1. ASSUME NEW e \in Loaded, rowid'[e] # 0 PROVE db'[rowid'[e]].code = e
    <3>1. e # c /\ rowid'[e] = rowid[e] /\ rowid[e] \in DOMAIN db
      BY <2>1, <1>3, <1>8
    <3> QED
      BY <3>1, <2>1, <1>3, <1>5
  <2>2. ASSUME NEW e \in rowless \ {c}, NEW i \in DOMAIN db', db'[i].open, db'[i].code = e
        PROVE  i \in dead'
    BY <2>2, <1>5, <1>7 DEF LogInv, Rows
  <2> QED
    BY <2>1, <2>2, <1>1 DEF Rows
<1>11. LogIsTruthful'
  <2>1. ASSUME NEW i \in DOMAIN db', db'[i].open
        PROVE  i \in dead' \/ (db'[i].code \in Range(active') /\ rowid'[db'[i].code] = i)
    <3>1. CASE db[i].code = c
      BY <3>1, <2>1, <1>5, <1>6
    <3>2. CASE db[i].code # c /\ i \notin dead
      <4>1. db[i].open /\ db'[i] = db[i] /\ db[i].code \in Range(active) /\ rowid[db[i].code] = i
        BY <3>2, <2>1, <1>5 DEF LogInv, LogIsTruthful
      <4> QED
        BY <4>1, <3>2, <1>2, <1>3, <1>8
    <3> QED
      BY <3>1, <3>2, <1>7
  <2>2. ASSUME NEW e \in Range(active') \ rowless'
        PROVE  rowid'[e] \in DOMAIN db' /\ db'[rowid'[e]] = [code |-> e, open |-> TRUE]
    <3>1. e # c /\ e \in Range(active) \ rowless /\ e \in Loaded
      BY <2>2, <1>1, <1>2, <1>3
    <3>2. rowid[e] \in DOMAIN db /\ db[rowid[e]] = [code |-> e, open |-> TRUE]
      BY <3>1 DEF LogInv, LogIsTruthful
    <3>3. db[rowid[e]].code # c
      BY <3>1, <3>2
    <3> QED
      BY <3>1, <3>2, <3>3, <1>5, <1>8
  <2> QED
    BY <2>1, <2>2 DEF LogIsTruthful
<1> QED
  BY <1>9, <1>10, <1>11 DEF LogInv

\* Every step keeps the log truthful.
LEMMA LogStep == LogInv /\ [Next]_vars => LogInv'
<1> SUFFICES ASSUME LogInv, [Next]_vars PROVE LogInv'
  OBVIOUS
<1>0. want \subseteq Loaded
  BY DEF LogInv, LogTypes
<1>1. ASSUME NEW s \in Samples, NEW d \in Steps, Evaluate(s, d) PROVE LogInv'
  <2>1. want' \subseteq Loaded /\ UNCHANGED <<active, rowid, db, dead, rowless>>
    BY <1>1 DEF Evaluate, center, ghosts
  <2> QED
    BY <2>1, LogKept
<1>2. ASSUME NEW c \in Loaded, NEW ok \in BOOLEAN, SetActiveOn(c, ok) \/ SetActiveOff(c, ok) PROVE LogInv'
  BY <1>2, LogOn, LogOff
<1>3. ASSUME NEW ok \in BOOLEAN, NEW read \in BOOLEAN, NEW n \in 0 .. 3, Restart(ok, read, n) PROVE LogInv'
  BY <1>3, LogRestart
<1>4. ASSUME UNCHANGED <<eval, active, rowid, db, ghosts>> PROVE LogInv'
  BY <1>0, <1>4, LogKept DEF eval, ghosts
<1>5. ASSUME NEW o1, NEW o2, RefreshHead(o1, o2) PROVE LogInv'
  BY <1>4, <1>5 DEF RefreshHead
<1>6. ASSUME NEW o, FaultRefreshWindow(o) \/ ButtonLoad(o) PROVE LogInv'
  BY <1>4, <1>6 DEF FaultRefreshWindow, ButtonLoad, center
<1>7. CASE Flush \/ ButtonFlush \/ TurnPage \/ ClickCurNext
  BY <1>4, <1>7 DEF Flush, ButtonFlush, TurnPage, ClickCurNext, center
<1>8. ASSUME NEW first, ClickCurPrev(first) PROVE LogInv'
  BY <1>4, <1>8 DEF ClickCurPrev
<1>9. ASSUME NEW kind, NEW o, ClickHistory(kind, o) PROVE LogInv'
  BY <1>4, <1>9 DEF ClickHistory
<1>11. ASSUME NEW o, ClickHistoryEnter \/ ShowHistoryPage(o) PROVE LogInv'
  BY <1>4, <1>11 DEF ClickHistoryEnter, ShowHistoryPage, center
<1>10. CASE UNCHANGED vars
  BY <1>4, <1>10 DEF vars, eval, ghosts
<1> QED
  BY <1>1, <1>2, <1>3, <1>5, <1>6, <1>7, <1>8, <1>9, <1>10, <1>11 DEF Next, FaultThread, Clicks, ControlThread

\* For every fault map, every failure of SQLite and every restart: a row of
\* fault_history is open only while its fault is active and is the row that
\* fault will close, or was left behind by a restart or a failed update; and
\* the row of an active fault stays open (FaultCenter::setActive).
THEOREM LogIsTruthfulAlways == Spec => []LogIsTruthful
<1>1. LogInv => LogIsTruthful
  BY DEF LogInv
<1> QED
  BY <1>1, LogInit, LogStep, PTL DEF Spec
-----------------------------------------------------------------------------
(* The arithmetic of pages: n rows, k to a page.                           *)

\* The sizes of pages and window.
LEMMA Sizes == /\ PageSize \in Nat \ {0} /\ WindowPages \in Nat \ {0} /\ CurRows \in Nat \ {0}
               /\ IsFiniteSet(Loaded) /\ Cardinality(Loaded) \in Nat \ {0}
<1>1. IsFiniteSet(Loaded) /\ Loaded # {}
  BY FaultsAssumption
<1>2. Cardinality(Loaded) \in Nat /\ Cardinality(Loaded) # 0
  BY <1>1, FS_CardinalityType, FS_EmptySet
<1> QED
  BY <1>1, <1>2, FaultsAssumption

\* The quotient as the solution of two inequalities.
LEMMA Quotient ==
  ASSUME NEW a \in Nat, NEW k \in Nat \ {0}
  PROVE  a \div k \in Nat /\ k * (a \div k) <= a /\ a < k * (a \div k) + k
OBVIOUS

\* Multiplying keeps the order.
LEMMA ProductMonotone ==
  ASSUME NEW a \in Nat, NEW b \in Nat, NEW k \in Nat \ {0}, a <= b
  PROVE  k * a <= k * b
OBVIOUS

\* Dividing keeps the order.
LEMMA QuotientMonotone ==
  ASSUME NEW a \in Nat, NEW b \in Nat, NEW k \in Nat \ {0}, a <= b
  PROVE  a \div k <= b \div k
<1> DEFINE p == a \div k
           q == b \div k
<1>1. p \in Nat /\ q \in Nat /\ k * p <= a /\ b < k * q + k
  BY Quotient
<1> HIDE DEF p, q
<1>2. SUFFICES ASSUME q + 1 <= p PROVE FALSE
  BY <1>1 DEF p, q
<1>3. k * (q + 1) <= k * p
  BY <1>1, <1>2, ProductMonotone
<1>4. k * (q + 1) = k * q + k
  BY <1>1
<1>5. k * q \in Nat /\ k * p \in Nat
  BY <1>1
<1> QED
  BY <1>1, <1>3, <1>4, <1>5

\* How many pages a number of rows fills.
LEMMA PageCount ==
  ASSUME NEW n \in Nat, NEW k \in Nat \ {0}
  PROVE  /\ (n + k - 1) \div k \in Nat
         /\ (n + k - 1) \div k <= n
         /\ \A m \in Nat : m <= n => (m + k - 1) \div k <= (n + k - 1) \div k
<1>1. \A m \in Nat : m + k - 1 \in Nat
  OBVIOUS
<1>2. (n + k - 1) \div k \in Nat
  BY <1>1, Quotient
<1>3. ASSUME NEW m \in Nat, m <= n PROVE (m + k - 1) \div k <= (n + k - 1) \div k
  <2>1. m + k - 1 <= n + k - 1
    BY <1>3
  <2> QED
    BY <1>1, <2>1, QuotientMonotone
<1>4. (n + k - 1) \div k <= n
  <2> DEFINE q == (n + k - 1) \div k
  <2>1. q \in Nat /\ k * q <= n + k - 1
    BY <1>1, Quotient
  <2> HIDE DEF q
  <2>2. SUFFICES ASSUME n + 1 <= q PROVE FALSE
    BY <2>1 DEF q
  <2>3. k * (n + 1) <= k * q /\ k * (n + 1) = k * n + k
    BY <2>1, <2>2, ProductMonotone
  <2>4. n * 1 <= n * k \/ n = 0
    BY ProductMonotone
  <2>5. n <= k * n
    BY <2>4
  <2>6. k * n \in Nat /\ k * q \in Nat
    BY <2>1
  <2> QED
    BY <2>1, <2>3, <2>5, <2>6
<1> QED
  BY <1>2, <1>3, <1>4
-----------------------------------------------------------------------------
(* The cache of the history.                                               *)

\* A cache d that was made from c by reading the database again, or not.
Follows(c, d) == IsCache(d) /\ c.total <= d.total /\ d.total <= Cardinality(Cleared)

\* There are finitely many cleared rows.
LEMMA ClearedFinite == LogInv => IsFiniteSet(Cleared) /\ Cardinality(Cleared) \in Nat
<1> SUFFICES ASSUME LogInv PROVE IsFiniteSet(Cleared) /\ Cardinality(Cleared) \in Nat
  OBVIOUS
<1>1. Len(db) \in Nat /\ Cleared \subseteq 1 .. Len(db)
  BY DEF LogInv, LogTypes, Cleared
<1>2. IsFiniteSet(1 .. Len(db))
  BY <1>1, FS_Interval
<1> QED
  BY <1>1, <1>2, FS_Subset, FS_CardinalityType

\* More rows, at least as many pages.
LEMMA PagesGrow ==
  ASSUME NEW c, NEW d, c.total \in Nat, d.total \in Nat, c.total <= d.total
  PROVE  Pages(c) \in Nat /\ Pages(d) \in Nat /\ Pages(c) <= Pages(d)
BY Sizes, PageCount DEF Pages

\* A count brings the cache up to the table.
LEMMA MetaFollows ==
  ASSUME LogInv, NEW c, IsCache(c), c.total <= Cardinality(Cleared)
  PROVE  Follows(c, RefreshMeta(c)) /\ RefreshMeta(c).start = c.start /\ RefreshMeta(c).end = c.end
<1> DEFINE m == RefreshMeta(c)
           N == Cardinality(Cleared)
<1>1. N \in Nat /\ c.total <= N
  BY ClearedFinite
<1> HIDE DEF N
<1>2. m = [c EXCEPT !.total = N]
  BY DEF RefreshMeta, N
<1>3. /\ {"total", "hot", "start", "end", "rows"} \subseteq DOMAIN m
      /\ m.total = N /\ m.start = c.start /\ m.end = c.end
  BY <1>2 DEF IsCache
<1> HIDE DEF m
<1>4. Pages(c) \in Nat /\ Pages(m) \in Nat /\ Pages(c) <= Pages(m)
  BY <1>1, <1>3, PagesGrow DEF IsCache
<1>5. IsCache(m)
  BY <1>1, <1>3, <1>4 DEF IsCache
<1> QED
  BY <1>1, <1>3, <1>5 DEF m, N, Follows

\* Reading the hot rows leaves the count as it is.
LEMMA HotFollows ==
  ASSUME LogInv, NEW c, NEW d, NEW o, Follows(c, d)
  PROVE  Follows(c, RefreshHotCache(d, o))
<1> DEFINE rows == RowsRead(o, 0, HotRows)
           m == [d EXCEPT !.hot = rows]
<1> HIDE DEF rows
<1>1. /\ {"total", "hot", "start", "end", "rows"} \subseteq DOMAIN m
      /\ m.total = d.total /\ m.start = d.start /\ m.end = d.end
  BY DEF Follows, IsCache
<1>2. Pages(m) = Pages(d)
  BY <1>1 DEF Pages
<1>3. RefreshHotCache(d, o) = m
  BY DEF RefreshHotCache, rows
<1> HIDE DEF m
<1> QED
  BY <1>1, <1>2, <1>3 DEF Follows, IsCache

\* A page number that was clamped is one of the pages.
LEMMA Clamped ==
  ASSUME NEW c, c.total \in Nat, Pages(c) # 0, NEW p \in Nat
  PROVE  ClampPage(c, p) \in 1 .. Pages(c)
<1>1. Pages(c) \in Nat
  BY PagesGrow
<1> QED
  BY <1>1 DEF ClampPage, Least

\* The window around a page that exists lies within the pages and holds it.
LEMMA WindowInside ==
  ASSUME NEW c, c.total \in Nat, NEW p \in 1 .. Pages(c)
  PROVE  LET w == WindowAround(c, p)
         IN  /\ w[1] \in Nat /\ w[2] \in Nat /\ w[1] <= w[2] /\ w[2] <= Pages(c)
             /\ 1 <= w[1] /\ w[1] <= p /\ p <= w[2]
<1> DEFINE half == WindowPages \div 2
           n == Pages(c)
<1>1. WindowPages \in Nat \ {0} /\ n \in Nat /\ p \in 1 .. n
  BY Sizes, PagesGrow
<1>2. half \in Nat /\ 2 * half <= WindowPages /\ WindowPages < 2 * half + 2
  BY <1>1, Quotient
<1> HIDE DEF n
<1>3. WindowAround(c, p) =
        CASE WindowPages <= 1 -> <<p, p>>
          [] WindowPages > 1 /\ p <= 1 + half -> <<1, Least(n, WindowPages)>>
          [] WindowPages > 1 /\ p > 1 + half /\ p + half >= n ->
               <<IF n > WindowPages - 1 THEN n - WindowPages + 1 ELSE 1, n>>
          [] OTHER -> <<p - half, p - half + WindowPages - 1>>
  BY DEF WindowAround, n
<1> HIDE DEF half
<1>4. CASE WindowPages <= 1
  <2>1. WindowAround(c, p) = <<p, p>>
    BY <1>1, <1>2, <1>3, <1>4
  <2> QED
    BY <2>1, <1>1 DEF n
<1>5. CASE WindowPages > 1 /\ p <= 1 + half
  <2>1. WindowAround(c, p) = <<1, Least(n, WindowPages)>>
    BY <1>1, <1>2, <1>3, <1>5
  <2>2. Least(n, WindowPages) \in Nat /\ p <= Least(n, WindowPages) /\ Least(n, WindowPages) <= n
    BY <1>1, <1>2, <1>5 DEF Least
  <2> QED
    BY <2>1, <2>2, <1>1 DEF n
<1>6. CASE WindowPages > 1 /\ p > 1 + half /\ p + half >= n
  <2> DEFINE first == IF n > WindowPages - 1 THEN n - WindowPages + 1 ELSE 1
  <2>1. WindowAround(c, p) = <<first, n>>
    BY <1>1, <1>2, <1>3, <1>6
  <2>2. first \in Nat /\ first <= n /\ 1 <= first /\ first <= p
    BY <1>1, <1>2, <1>6
  <2> HIDE DEF first
  <2> QED
    BY <2>1, <2>2, <1>1 DEF n
<1>7. CASE WindowPages > 1 /\ p > 1 + half /\ ~(p + half >= n)
  <2>1. WindowAround(c, p) = <<p - half, p - half + WindowPages - 1>>
    BY <1>1, <1>2, <1>3, <1>7
  <2>2. /\ p - half \in Nat /\ p - half + WindowPages - 1 \in Nat
        /\ p - half <= p - half + WindowPages - 1 /\ p - half + WindowPages - 1 <= n
        /\ 1 <= p - half /\ p - half <= p /\ p <= p - half + WindowPages - 1
    BY <1>1, <1>2, <1>7
  <2> QED
    BY <2>1, <2>2 DEF n
<1> QED
  BY <1>1, <1>2, <1>4, <1>5, <1>6, <1>7

\* A window that was read lies within the pages.
LEMMA WindowFollows ==
  ASSUME LogInv, NEW c, IsCache(c), c.total <= Cardinality(Cleared), NEW p \in Nat, NEW o
  PROVE  Follows(c, RefreshWindow(c, p, o))
<1> DEFINE m == RefreshMeta(c)
           w == WindowAround(m, ClampPage(m, p))
           rows == RowsRead(o, (w[1] - 1) * PageSize, (w[2] - w[1] + 1) * PageSize)
<1>1. Follows(c, m)
  BY MetaFollows
<1>2. RefreshWindow(c, p, o) =
        CASE Pages(m) = 0 -> [m EXCEPT !.rows = <<>>, !.start = 0, !.end = 0]
          [] Pages(m) # 0 /\ o = "fail" -> m
          [] OTHER -> [m EXCEPT !.start = w[1], !.end = w[2], !.rows = rows]
  BY DEF RefreshWindow
<1> HIDE DEF m, rows
<1>3. ASSUME NEW a \in Nat, NEW b \in Nat, a <= b, b <= Pages(m), NEW r,
             NEW d, d = [m EXCEPT !.start = a, !.end = b, !.rows = r]
      PROVE  Follows(c, d)
  <2>1. /\ {"total", "hot", "start", "end", "rows"} \subseteq DOMAIN d
        /\ d.total = m.total /\ d.start = a /\ d.end = b
    BY <1>1, <1>3 DEF Follows, IsCache
  <2>2. Pages(d) = Pages(m)
    BY <2>1 DEF Pages
  <2> QED
    BY <2>1, <2>2, <1>1, <1>3 DEF Follows, IsCache
<1>4. CASE Pages(m) = 0
  <2>1. RefreshWindow(c, p, o) = [m EXCEPT !.start = 0, !.end = 0, !.rows = <<>>]
    BY <1>2, <1>4
  <2> HIDE DEF w
  <2>2. 0 \in Nat /\ 0 <= 0 /\ 0 <= Pages(m)
    BY <1>4
  <2>3. \A r, d : d = [m EXCEPT !.start = 0, !.end = 0, !.rows = r] => Follows(c, d)
    BY <2>2, <1>3
  <2> QED
    BY <2>1, <2>3
<1>5. CASE Pages(m) # 0 /\ o = "fail"
  BY <1>1, <1>2, <1>5
<1>6. CASE Pages(m) # 0 /\ o # "fail"
  <2>1. m.total \in Nat
    BY <1>1 DEF Follows, IsCache
  <2>2. w[1] \in Nat /\ w[2] \in Nat /\ w[1] <= w[2] /\ w[2] <= Pages(m)
    BY <2>1, <1>6, Clamped, WindowInside
  <2> HIDE DEF w
  <2>3. RefreshWindow(c, p, o) = [m EXCEPT !.start = w[1], !.end = w[2], !.rows = rows]
    BY <1>2, <1>6
  <2> QED
    BY <2>2, <2>3, <1>3
<1> QED
  BY <1>4, <1>5, <1>6

\* So does the window after a page was asked for.
LEMMA EnsureFollows ==
  ASSUME LogInv, NEW c, IsCache(c), c.total <= Cardinality(Cleared), NEW p \in Nat, NEW o
  PROVE  Follows(c, EnsurePageLoaded(c, p, o))
<1>1. CASE Pages(c) = 0
  <2> DEFINE d == [c EXCEPT !.rows = <<>>, !.start = 0, !.end = 0]
  <2>1. EnsurePageLoaded(c, p, o) = d
    BY <1>1 DEF EnsurePageLoaded
  <2>2. /\ {"total", "hot", "start", "end", "rows"} \subseteq DOMAIN d
        /\ d.total = c.total /\ d.start = 0 /\ d.end = 0
    BY DEF IsCache
  <2>3. Pages(d) = Pages(c)
    BY <2>2 DEF Pages
  <2> HIDE DEF d
  <2> QED
    BY <2>1, <2>2, <2>3, <1>1 DEF Follows, IsCache
<1>2. CASE Pages(c) # 0 /\ HasPageInWindow(c, ClampPage(c, p))
  BY <1>2, Sizes DEF EnsurePageLoaded, Follows, IsCache
<1>3. CASE Pages(c) # 0 /\ ~HasPageInWindow(c, ClampPage(c, p))
  <2>1. ClampPage(c, p) \in Nat
    BY <1>3, Clamped DEF IsCache
  <2>2. EnsurePageLoaded(c, p, o) = RefreshWindow(c, ClampPage(c, p), o)
    BY <1>3 DEF EnsurePageLoaded
  <2> QED
    BY <2>1, <2>2, WindowFollows
<1> QED
  BY <1>1, <1>2, <1>3
-----------------------------------------------------------------------------
(* The pages in every step.                                                *)

\* There are no more current pages than codes.
LEMMA CurrentPages ==
  ASSUME NEW codes
  PROVE  CurrentTotalPages(codes) \in Nat /\ CurrentTotalPages(codes) <= Cardinality(Loaded)
<1> DEFINE S == Range(codes) \cap ShownCodes
<1>1. IsFiniteSet(S) /\ Cardinality(S) \in Nat /\ Cardinality(S) <= Cardinality(Loaded)
  <2>1. S \subseteq Loaded
    BY DEF ShownCodes
  <2> HIDE DEF S
  <2> QED
    BY <2>1, Sizes, FS_Subset, FS_CardinalityType
<1>2. CurrentTotalPages(codes) = (Cardinality(S) + CurRows - 1) \div CurRows
  BY DEF CurrentTotalPages
<1> HIDE DEF S
<1>3. /\ (Cardinality(S) + CurRows - 1) \div CurRows \in Nat
      /\ (Cardinality(S) + CurRows - 1) \div CurRows <= Cardinality(S)
  BY <1>1, Sizes, PageCount
<1> QED
  BY <1>1, <1>2, <1>3, Sizes

\* Clamping the current page only moves it back.
LEMMA CurrentClamped ==
  ASSUME NEW codes, NEW p \in 0 .. Cardinality(Loaded) - 1
  PROVE  ClampPages(codes, p) \in 0 .. p
<1>1. CurrentTotalPages(codes) \in Nat
  BY CurrentPages
<1> QED
  BY <1>1, Sizes DEF ClampPages, Least

\* More cleared rows, a larger count.
LEMMA ClearedGrow ==
  ASSUME LogInv, LogInv', Cleared \subseteq Cleared'
  PROVE  Cardinality(Cleared) <= Cardinality(Cleared')
<1>1. Len(db') \in Nat /\ Cleared' \subseteq 1 .. Len(db')
  <2>1. (db \in Seq([code : Loaded, open : BOOLEAN]))'
    BY DEF LogInv, LogTypes
  <2> QED
    BY <2>1 DEF Cleared
<1>2. IsFiniteSet(1 .. Len(db'))
  BY <1>1, FS_Interval
<1>3. IsFiniteSet(Cleared')
  BY <1>1, <1>2, FS_Subset
<1> QED
  BY <1>3, FS_Subset

\* The part of Steady that the fault thread's calls and the clicks share.
Cached == /\ IsCache(cache) /\ cache.total <= Cardinality(Cleared)
          /\ page_no \in Nat /\ (page_no = 1 \/ page_no \in 1 .. Pages(cache))
          /\ arg \in Nat

Current == /\ cur_page \in 0 .. Cardinality(Loaded) - 1
           /\ btn = "turn" => cur_page + 1 \in 0 .. Cardinality(Loaded) - 1
           /\ go \in Nat

\* Reading the database again keeps the page number within the pages.
LEMMA CachedFollows ==
  ASSUME Cached, Follows(cache, cache'), db' = db, page_no' = page_no, arg' \in Nat
  PROVE  Cached'
<1>1. /\ IsCache(cache) /\ IsCache(cache') /\ cache.total <= cache'.total
      /\ cache'.total <= Cardinality(Cleared) /\ Cleared' = Cleared
  BY DEF Cached, Follows, Cleared
<1>2. Pages(cache) \in Nat /\ Pages(cache') \in Nat /\ Pages(cache) <= Pages(cache')
  BY <1>1, PagesGrow DEF IsCache
<1>3. page_no = 1 \/ page_no \in 1 .. Pages(cache')
  BY <1>2 DEF Cached
<1>4. IsCache(cache)' /\ Pages(cache)' = Pages(cache')
  BY <1>1 DEF IsCache, Pages
<1> QED
  BY <1>1, <1>3, <1>4 DEF Cached

\* A cache that is kept follows itself.
LEMMA SameFollows == Cached => Follows(cache, cache)
BY DEF Cached, Follows, IsCache

\* The cache that a start builds.
LEMMA LoadFollows ==
  ASSUME LogInv, NEW n \in 0 .. 3
  PROVE  Follows(NoCache, NoCache) /\ Follows(NoCache, LoadCache(n))
<1>1. IsCache(NoCache) /\ NoCache.total <= Cardinality(Cleared) /\ NoCache.total = 0
  <2>1. Pages(NoCache) \in Nat
    BY PagesGrow DEF NoCache
  <2> QED
    BY <2>1, ClearedFinite DEF IsCache, NoCache
<1>2. Follows(NoCache, NoCache)
  BY <1>1 DEF Follows
<1> DEFINE m == IF n >= 1 THEN RefreshMeta(NoCache) ELSE NoCache
           h == IF n >= 2 THEN RefreshHotCache(m, "ok") ELSE m
<1>3. Follows(NoCache, m)
  BY <1>1, <1>2, MetaFollows
<1> HIDE DEF m
<1>4. Follows(NoCache, h)
  BY <1>3, HotFollows
<1>5. LoadCache(n) = IF n >= 3 THEN RefreshWindow(h, 1, "ok") ELSE h
  BY DEF LoadCache, m
<1> HIDE DEF h
<1>6. Follows(h, RefreshWindow(h, 1, "ok"))
  BY <1>4, WindowFollows DEF Follows
<1>7. h.total \in Nat /\ RefreshWindow(h, 1, "ok").total \in Nat
  BY <1>4, <1>6 DEF Follows, IsCache
<1>8. Follows(NoCache, RefreshWindow(h, 1, "ok"))
  BY <1>1, <1>6, <1>7 DEF Follows
<1> QED
  BY <1>2, <1>4, <1>5, <1>8

\* At the first start the pages are within their bounds.
LEMMA PagesInit == LogInv /\ Init => Steady
<1> SUFFICES ASSUME LogInv, Init PROVE Steady
  OBVIOUS
<1>1. Follows(NoCache, cache)
  BY LoadFollows DEF Init
<1>2. /\ pc = "sleep" /\ btn = "idle" /\ go = 0 /\ page_no = 1 /\ arg = 0 /\ cur_page = 0
  BY DEF Init
<1>3. 0 \in 0 .. Cardinality(Loaded) - 1
  BY Sizes
<1> QED
  BY <1>1, <1>2, <1>3 DEF Follows, Steady

\* setActive: the cache is not touched and rows are only added and closed.
LEMMA PagesActive ==
  ASSUME LogInv, LogInv', Steady, NEW c \in Loaded, NEW ok \in BOOLEAN,
         SetActiveOn(c, ok) \/ SetActiveOff(c, ok)
  PROVE  Steady'
<1>1. /\ UNCHANGED <<pc, cache, page_no, arg, btn, go>> /\ cur_page' = ClampPages(active', cur_page)
  BY DEF SetActiveOn, SetActiveOff
<1>2. Cleared \subseteq Cleared'
  <2>1. db \in Seq([code : Loaded, open : BOOLEAN])
    BY DEF LogInv, LogTypes
  <2>2. CASE db' = db
    BY <2>2 DEF Cleared
  <2>3. CASE db' = Append(db, [code |-> c, open |-> TRUE])
    <3>1. \A i \in DOMAIN db : i \in DOMAIN db' /\ db'[i] = db[i]
      BY <2>1, <2>3
    <3> QED
      BY <3>1 DEF Cleared
  <2>4. CASE db' = IF rowid[c] # 0 THEN MarkHistoryClearedById(rowid[c]) ELSE MarkHistoryCleared(c)
    <3>1. DOMAIN db' = DOMAIN db /\ \A i \in DOMAIN db : db'[i].open => db[i].open
      BY <2>4, RowClosed
    <3> QED
      BY <3>1 DEF Cleared
  <2> QED
    BY <2>2, <2>3, <2>4 DEF SetActiveOn, SetActiveOff, InsertHistoryBegin
<1>3. /\ Cardinality(Cleared) <= Cardinality(Cleared') /\ Cardinality(Cleared) \in Nat
      /\ Cardinality(Cleared') \in Nat
  <2>1. Cardinality(Cleared') \in Nat
    <3>1. (db \in Seq([code : Loaded, open : BOOLEAN]))'
      BY DEF LogInv, LogTypes
    <3>2. Len(db') \in Nat /\ Cleared' \subseteq 1 .. Len(db')
      BY <3>1 DEF Cleared
    <3>3. IsFiniteSet(1 .. Len(db'))
      BY <3>2, FS_Interval
    <3> QED
      BY <3>2, <3>3, FS_Subset, FS_CardinalityType
  <2> QED
    BY <2>1, <1>2, ClearedGrow, ClearedFinite
<1>4. IsCache(cache)' /\ Pages(cache)' = Pages(cache)
  BY <1>1 DEF Steady, IsCache, Pages
<1>5. cache'.total <= Cardinality(Cleared')
  BY <1>1, <1>3 DEF Steady, IsCache
<1>6. cur_page' \in 0 .. cur_page
  BY <1>1, CurrentClamped DEF Steady
<1>7. Current'
  BY <1>1, <1>6, Sizes DEF Steady, Current
<1> QED
  BY <1>1, <1>4, <1>5, <1>7 DEF Steady, Current

\* The first half of a refresh clamps both page numbers.
LEMMA PagesHead ==
  ASSUME LogInv, Steady, NEW o1, NEW o2, RefreshHead(o1, o2)
  PROVE  Steady'
<1>1. Cached
  BY DEF Steady, Cached
<1> DEFINE m == RefreshMeta(cache)
<1>2. Follows(cache, m) /\ Follows(cache, RefreshHotCache(m, o2)) /\ Follows(cache, cache)
  BY <1>1, MetaFollows, HotFollows, SameFollows DEF Cached
<1>3. cache' = cache \/ cache' = m \/ cache' = RefreshHotCache(m, o2)
  BY DEF RefreshHead
<1> HIDE DEF m
<1>4. arg' \in Nat /\ page_no' = page_no /\ db' = db /\ UNCHANGED <<btn, go>> /\ pc' \in {"flush", "window"}
  BY DEF RefreshHead, Steady
<1>5. Cached'
  BY <1>1, <1>2, <1>3, <1>4, CachedFollows
<1>6. cur_page' \in 0 .. cur_page
  BY CurrentClamped DEF Steady, RefreshHead
<1>7. Current'
  <2>1. /\ Cardinality(Loaded) \in Nat /\ cur_page \in 0 .. Cardinality(Loaded) - 1
        /\ btn = "turn" => cur_page + 1 \in 0 .. Cardinality(Loaded) - 1
    BY Sizes DEF Steady
  <2>2. /\ cur_page' \in 0 .. Cardinality(Loaded) - 1
        /\ btn = "turn" => cur_page' + 1 \in 0 .. Cardinality(Loaded) - 1
    <3>1. \A n \in Nat : \A p \in 0 .. n - 1 : \A q \in 0 .. p :
            q \in 0 .. n - 1 /\ (p + 1 \in 0 .. n - 1 => q + 1 \in 0 .. n - 1)
      OBVIOUS
    <3> QED
      BY <2>1, <3>1, <1>6
  <2> QED
    BY <2>2, <1>4 DEF Steady, Current
<1> QED
  BY <1>4, <1>5, <1>7 DEF Steady, Current, Cached

\* The second half reads the window around the page.
LEMMA PagesWindow ==
  ASSUME LogInv, Steady, NEW o, FaultRefreshWindow(o) \/ ButtonLoad(o)
  PROVE  Steady'
<1>1. Cached /\ Current
  BY DEF Steady, Cached, Current
<1>2. \A p \in Nat : /\ Follows(cache, RefreshWindow(cache, p, o))
                     /\ Follows(cache, EnsurePageLoaded(cache, p, o))
  BY <1>1, WindowFollows, EnsureFollows DEF Cached
<1>3. /\ \/ cache' = cache \/ cache' = RefreshWindow(cache, arg, o)
         \/ cache' = EnsurePageLoaded(cache, page_no, o) \/ cache' = RefreshWindow(cache, 1, o)
      /\ arg' \in Nat /\ page_no' = page_no /\ db' = db /\ cur_page' = cur_page
      /\ pc' \in {"flush", pc} /\ btn' \in {"flush", btn} /\ go' = go
  BY <1>1 DEF FaultRefreshWindow, ButtonLoad, center, Cached
<1>4. Follows(cache, cache')
  BY <1>1, <1>2, <1>3, SameFollows DEF Cached
<1>5. Cached'
  BY <1>1, <1>3, <1>4, CachedFollows
<1> QED
  BY <1>1, <1>3, <1>5 DEF Steady, Current, Cached

\* A click for the history clamps the page of the current faults and finds
\* the page to show.
LEMMA PagesClick ==
  ASSUME LogInv, Steady,
         ClickHistoryEnter \/ \E kind \in {"first", "next", "prev"}, o \in {"ok", "fail"} : ClickHistory(kind, o)
  PROVE  Steady'
<1>1. Cached /\ Current
  BY DEF Steady, Cached, Current
<1> DEFINE m == RefreshMeta(cache)
<1>2. /\ arg' = arg /\ db' = db /\ pc' = pc /\ cur_page' = ClampPages(active, cur_page)
      /\ btn' \in {"flush", "reload", "show"}
      /\ cache' = cache \/ cache' = m
      /\ page_no' = page_no \/ page_no' = 1
      /\ go' \in {0, 1} \/ \E kind \in {"first", "next", "prev"} : go' = Target(kind, Pages(m))
  BY DEF ClickHistoryEnter, ClickHistory, EnterHistoryView
<1>3. Follows(cache, m) /\ Follows(cache, cache)
  BY <1>1, MetaFollows, SameFollows DEF Cached
<1>4. Pages(m) \in Nat
  BY <1>3, PagesGrow DEF Follows, IsCache
<1> HIDE DEF m
<1>5. go' \in Nat
  BY <1>1, <1>2, <1>4 DEF Target, Cached
<1>6. cur_page' \in 0 .. Cardinality(Loaded) - 1
  <2>1. cur_page' \in 0 .. cur_page
    BY <1>1, <1>2, CurrentClamped DEF Current
  <2> QED
    BY <2>1, <1>1, Sizes DEF Current
<1>7. Cached'
  <2>1. CASE page_no' = page_no
    BY <2>1, <1>1, <1>2, <1>3, CachedFollows DEF Cached
  <2>2. CASE page_no' = 1
    <3>1. IsCache(cache)' /\ cache'.total <= Cardinality(Cleared')
      BY <1>2, <1>3 DEF Follows, IsCache, Pages, Cleared
    <3> QED
      BY <1>1, <1>2, <2>2, <3>1 DEF Cached
  <2> QED
    BY <1>2, <2>1, <2>2
<1> QED
  BY <1>1, <1>2, <1>5, <1>6, <1>7 DEF Steady, Current, Cached

\* It sets the page number from the count it has just read.
LEMMA PagesShow ==
  ASSUME LogInv, Steady, NEW o \in {"ok", "fail"}, ShowHistoryPage(o)
  PROVE  Steady'
<1>1. Cached /\ Current
  BY DEF Steady, Cached, Current
<1>2. /\ arg' = arg /\ db' = db /\ cur_page' = cur_page /\ pc' = pc /\ go' = 0
      /\ btn' \in {"flush", "reload", "load"}
  BY DEF ShowHistoryPage, center
<1> DEFINE m == RefreshMeta(cache)
           page == ClampPage(m, go)
<1>3. Follows(cache, m)
  BY <1>1, MetaFollows DEF Cached
<1>4. \/ cache' = cache /\ page_no' = page_no
      \/ cache' = m /\ page_no' = page
  BY DEF ShowHistoryPage
<1> HIDE DEF m
<1>5. CASE cache' = cache /\ page_no' = page_no
  <2>1. Cached'
    BY <1>1, <1>2, <1>5, SameFollows, CachedFollows DEF Cached
  <2> QED
    BY <2>1, <1>1, <1>2 DEF Steady, Current, Cached
<1>6. CASE cache' = m /\ page_no' = page
  <2>1. Pages(m) \in Nat /\ m.total \in Nat
    BY <1>3, PagesGrow DEF Follows, IsCache
  <2>2. go \in Nat
    BY <1>1 DEF Current
  <2>3. page = 1 \/ page \in 1 .. Pages(m)
    <3>1. CASE Pages(m) = 0
      BY <3>1 DEF ClampPage
    <3>2. CASE Pages(m) # 0
      BY <3>2, <2>1, <2>2, Clamped
    <3> QED
      BY <3>1, <3>2
  <2>4. page \in Nat
    BY <2>1, <2>3
  <2> HIDE DEF page
  <2>5. IsCache(cache)' /\ Pages(cache)' = Pages(m) /\ cache'.total <= Cardinality(Cleared')
    BY <1>2, <1>3, <1>6 DEF Follows, IsCache, Pages, Cleared
  <2>6. Cached'
    BY <1>1, <1>2, <1>6, <2>3, <2>4, <2>5 DEF Cached
  <2> QED
    BY <2>6, <1>1, <1>2 DEF Steady, Current, Cached
<1> QED
  BY <1>4, <1>5, <1>6

\* The current page: a click compares first and turns then.
LEMMA PagesTurn ==
  ASSUME LogInv, Steady, NEW first \in BOOLEAN, TurnPage \/ ClickCurNext \/ ClickCurPrev(first)
  PROVE  Steady'
<1>1. Cached
  BY DEF Steady, Cached
<1>2. UNCHANGED <<pc, cache, page_no, arg, db, go>> /\ go \in Nat
  BY DEF TurnPage, ClickCurNext, ClickCurPrev, Steady
<1>3. Cached'
  BY <1>1, <1>2, SameFollows, CachedFollows DEF Cached
<1>4. cur_page \in Nat /\ cur_page \in 0 .. Cardinality(Loaded) - 1 /\ Cardinality(Loaded) \in Nat
  BY Sizes DEF Steady
<1>5. CASE TurnPage
  <2>1. cur_page' = cur_page + 1 /\ btn' = "flush" /\ cur_page + 1 \in 0 .. Cardinality(Loaded) - 1
    BY <1>5 DEF TurnPage, Steady
  <2> QED
    BY <2>1, <1>2, <1>3 DEF Steady, Cached
<1>6. CASE ClickCurNext
  <2>1. CurrentTotalPages(active) \in Nat /\ CurrentTotalPages(active) <= Cardinality(Loaded)
    BY CurrentPages
  <2>2. /\ cur_page' = IF CurrentTotalPages(active) = 0 THEN 0 ELSE cur_page
        /\ btn' = IF cur_page + 1 < CurrentTotalPages(active) THEN "turn" ELSE "flush"
    BY <1>6 DEF ClickCurNext
  <2> DEFINE total == CurrentTotalPages(active)
  <2> HIDE DEF total
  <2>3. /\ cur_page' \in 0 .. Cardinality(Loaded) - 1 /\ btn' \in {"turn", "flush"}
        /\ btn' = "turn" => cur_page' + 1 \in 0 .. Cardinality(Loaded) - 1
    <3>1. /\ total \in Nat /\ total <= Cardinality(Loaded)
          /\ cur_page' = IF total = 0 THEN 0 ELSE cur_page
          /\ btn' = IF cur_page + 1 < total THEN "turn" ELSE "flush"
      BY <2>1, <2>2 DEF total
    <3> QED
      BY <3>1, <1>4
  <2> QED
    BY <2>3, <1>2, <1>3 DEF Steady, Cached
<1>7. CASE ClickCurPrev(first)
  <2>1. btn' = "flush" /\ cur_page' \in 0 .. cur_page
    BY <1>4, <1>7 DEF ClickCurPrev
  <2>2. cur_page' \in 0 .. Cardinality(Loaded) - 1
    BY <2>1, <1>4
  <2> QED
    BY <2>1, <2>2, <1>2, <1>3 DEF Steady, Cached
<1> QED
  BY <1>5, <1>6, <1>7

\* A restart begins with the first pages.
LEMMA PagesRestart ==
  ASSUME LogInv, NEW ok \in BOOLEAN, NEW read \in BOOLEAN, NEW n \in 0 .. 3, Restart(ok, read, n)
  PROVE  Steady'
<1>1. /\ pc' = "sleep" /\ btn' = "idle" /\ go' = 0 /\ cur_page' = 0 /\ page_no' = 1 /\ arg' = 0 /\ db' = db
      /\ cache' = NoCache \/ cache' = LoadCache(n)
  BY DEF Restart, Process
<1>2. Follows(NoCache, cache')
  BY <1>1, LoadFollows
<1>3. IsCache(cache)' /\ cache'.total <= Cardinality(Cleared')
  BY <1>1, <1>2 DEF Follows, IsCache, Pages, Cleared
<1>4. 0 \in 0 .. Cardinality(Loaded) - 1
  BY Sizes
<1> QED
  BY <1>1, <1>3, <1>4 DEF Steady

\* Every step keeps the page numbers within the pages.
LEMMA PagesStep == LogInv /\ LogInv' /\ Steady /\ [Next]_vars => Steady'
<1> SUFFICES ASSUME LogInv, LogInv', Steady, [Next]_vars PROVE Steady'
  OBVIOUS
<1>1. ASSUME pc' \in {"sleep", "apply"}, btn' \in {btn, "idle"},
             UNCHANGED <<cache, page_no, arg, db, cur_page, go>>
      PROVE  Steady'
  <2>1. Cached
    BY DEF Steady, Cached
  <2>2. Cached'
    BY <1>1, <2>1, SameFollows, CachedFollows DEF Cached
  <2> QED
    BY <1>1, <2>2 DEF Steady, Cached
<1>2. ASSUME NEW s \in Samples, NEW d \in Steps, Evaluate(s, d) PROVE Steady'
  BY <1>1, <1>2 DEF Evaluate, center
<1>3. ASSUME NEW c \in Loaded, NEW ok \in BOOLEAN, SetActiveOn(c, ok) \/ SetActiveOff(c, ok) PROVE Steady'
  BY <1>3, PagesActive
<1>4. ASSUME NEW o1, NEW o2, RefreshHead(o1, o2) PROVE Steady'
  BY <1>4, PagesHead
<1>5. ASSUME NEW o, FaultRefreshWindow(o) \/ ButtonLoad(o) PROVE Steady'
  BY <1>5, PagesWindow
<1>6. CASE Flush
  BY <1>1, <1>6 DEF Flush, center
<1>7. CASE TurnPage \/ ClickCurNext
  BY <1>7, PagesTurn
<1>8. ASSUME NEW first \in BOOLEAN, ClickCurPrev(first) PROVE Steady'
  BY <1>8, PagesTurn
<1>9. ASSUME NEW kind \in {"first", "next", "prev"}, NEW o \in {"ok", "fail"}, ClickHistory(kind, o)
      PROVE  Steady'
  BY <1>9, PagesClick
<1>12. CASE ClickHistoryEnter
  BY <1>12, PagesClick
<1>13. ASSUME NEW o \in {"ok", "fail"}, ShowHistoryPage(o) PROVE Steady'
  BY <1>13, PagesShow
<1>10. ASSUME NEW ok \in BOOLEAN, NEW read \in BOOLEAN, NEW n \in 0 .. 3, Restart(ok, read, n) PROVE Steady'
  BY <1>10, PagesRestart
<1>11. CASE ButtonFlush \/ UNCHANGED vars
  <2>1. /\ pc' = pc /\ btn' \in {btn, "idle"} /\ UNCHANGED <<cache, page_no, arg, db, cur_page, go>>
    BY <1>11 DEF ButtonFlush, center, vars
  <2>2. Cached
    BY DEF Steady, Cached
  <2>3. Cached'
    BY <2>1, <2>2, SameFollows, CachedFollows DEF Cached
  <2> QED
    BY <2>1, <2>3 DEF Steady, Cached
<1> QED
  BY <1>2, <1>3, <1>4, <1>5, <1>6, <1>7, <1>8, <1>9, <1>10, <1>11, <1>12, <1>13
     DEF Next, FaultThread, Clicks, ControlThread

\* For every fault map and every page, window and table size: whatever
\* reads fail and however a click and the fault thread interleave, the page
\* of the history, the window of rows and the page of the current faults
\* stay within the pages there are (FaultHistoryCache::refreshWindow,
\* LogicEngine::onHmiButtonClick_, FaultCenter::clampPages_).
THEOREM TypeCorrect == Spec => []TypeOK
<1>1. Init => FInv
  BY LogInit, PagesInit DEF FInv
<1>2. FInv /\ [Next]_vars => FInv'
  BY LogStep, PagesStep DEF FInv
<1> QED
  BY <1>1, <1>2, InvImpliesTypeOK, PTL DEF Spec
-----------------------------------------------------------------------------
(* The history page and the table.                                         *)

\* A slice of a slice: rows A+1 .. A+E of s, of those B+1 .. B+K.
SliceOfSlice(s, A, B, E, K) ==
  LET r == SubSeq(s, A + 1, Least(A + E, Len(s)))
  IN  SubSeq(r, B + 1, Least(B + K, Len(r))) = SubSeq(s, A + B + 1, Least(A + B + K, Len(s)))

\* A slice of a slice.
LEMMA Slices ==
  ASSUME NEW S, NEW s \in Seq(S), NEW A \in Nat, NEW B \in Nat, NEW E \in Nat, NEW K \in Nat \ {0},
         B + K <= E, A + B + 1 <= Len(s)
  PROVE  SliceOfSlice(s, A, B, E, K)
<1> DEFINE j == Least(A + E, Len(s))
           r == SubSeq(s, A + 1, j)
           n == Least(B + K, j - A)
<1>1. Len(s) \in Nat
  OBVIOUS
<1>2. j \in Nat /\ A + B + 1 <= j /\ j <= Len(s) /\ j \in 1 .. Len(s) /\ A + 1 \in 1 .. Len(s)
  BY <1>1 DEF Least
<1>3. A + n = Least(A + B + K, Len(s))
  BY <1>1, <1>2 DEF Least
<1> HIDE DEF j
<1>4. Len(r) = j - A
  <2>1. \A i \in A + 1 .. j : s[i] \in S
    BY <1>1, <1>2
  <2>2. A + 1 \in Int /\ j \in Int /\ A + 1 <= j /\ j - (A + 1) + 1 = j - A
    BY <1>2
  <2>3. Len(r) = IF A + 1 <= j THEN j - (A + 1) + 1 ELSE 0
    <3>1. \A a, b \in Int : (\A i \in a .. b : s[i] \in S) =>
            Len(SubSeq(s, a, b)) = IF a <= b THEN b - a + 1 ELSE 0
      BY SubSeqProperties
    <3> QED
      BY <3>1, <2>1, <2>2
  <2> QED
    BY <2>2, <2>3
<1>5. B + 1 \in 1 .. j - (A + 1) + 1 /\ n \in 1 .. j - (A + 1) + 1
  BY <1>1, <1>2 DEF Least
<1> HIDE DEF n
<1>6. SubSeq(r, B + 1, n) = SubSeq(s, (A + 1) + (B + 1) - 1, (A + 1) + n - 1)
  BY <1>2, <1>5, SubSeqOfSubSeq
<1>7. (A + 1) + (B + 1) - 1 = A + B + 1 /\ (A + 1) + n - 1 = A + n
  BY <1>5, <1>2
<1>8. SubSeq(r, B + 1, Least(B + K, Len(r))) = SubSeq(s, A + B + 1, A + n)
  BY <1>4, <1>6, <1>7 DEF n
<1> QED
  BY <1>3, <1>8 DEF r, j, SliceOfSlice

\* The cleared rows, newest first, are a sequence.
LEMMA ClearedSeq == LogInv => /\ ClearedRows \in Seq(Range(ClearedRows))
                              /\ Len(ClearedRows) = Cardinality(Cleared)
<1> SUFFICES ASSUME LogInv
             PROVE  ClearedRows \in Seq(Range(ClearedRows)) /\ Len(ClearedRows) = Cardinality(Cleared)
  OBVIOUS
<1> DEFINE N == Cardinality(Cleared)
           Nth(k) == CHOOSE i \in Cleared : Cardinality({j \in Cleared : j > i}) = k - 1
<1>1. N \in Nat
  BY ClearedFinite
<1>2. ClearedRows = [k \in 1 .. N |-> Nth(k)]
  BY DEF ClearedRows
<1> HIDE DEF N, Nth
<1>3. DOMAIN ClearedRows = 1 .. N /\ \A k \in 1 .. N : ClearedRows[k] \in Range(ClearedRows)
  BY <1>2 DEF Range
<1> QED
  BY <1>1, <1>2, <1>3 DEF N

\* A page cut from a fresh window is the page of the table.
LEMMA PageOfFresh ==
  ASSUME LogInv, NEW c, IsCache(c), FreshCache(c), NEW p \in Nat, p = 1 \/ p \in 1 .. Pages(c),
         Pages(c) = 0 \/ HasPageInWindow(c, p)
  PROVE  PageRows(c, p) =
           SubSeq(ClearedRows, (p - 1) * PageSize + 1, Least(p * PageSize, Len(ClearedRows)))
<1> DEFINE CR == ClearedRows
           N == Len(CR)
           K == PageSize
<1>1. CR \in Seq(Range(CR)) /\ N \in Nat /\ c.total = N /\ K \in Nat \ {0}
  <2>1. N \in Nat
    BY ClearedFinite, ClearedSeq
  <2> QED
    BY <2>1, ClearedSeq, Sizes DEF FreshCache
<1>2. Pages(c) \in Nat /\ K * Pages(c) <= N + K - 1 /\ N + K - 1 < K * Pages(c) + K
  <2>1. N + K - 1 \in Nat
    BY <1>1
  <2> HIDE DEF N, K
  <2>2. Pages(c) = (N + K - 1) \div K
    BY <1>1 DEF Pages, K
  <2> QED
    BY <1>1, <2>1, <2>2, Quotient
<1>3. CASE Pages(c) = 0
  <2>1. p = 1 /\ N = 0
    BY <1>1, <1>2, <1>3
  <2>2. (p - 1) * K + 1 = 1 /\ Least(p * K, N) = 0
    BY <1>1, <2>1 DEF Least
  <2>3. SubSeq(CR, 1, 0) = <<>>
    BY SubSeqEmpty
  <2> QED
    BY <1>3, <2>2, <2>3 DEF PageRows
<1>4. CASE Pages(c) # 0
  <2> DEFINE a == c.start
             e == c.end
             A == (a - 1) * K
             B == (p - a) * K
             E == (e - a + 1) * K
  <2>1. /\ a \in Nat /\ e \in Nat /\ 1 <= a /\ a <= p /\ p <= e /\ e <= Pages(c) /\ p \in 1 .. Pages(c)
    BY <1>2, <1>4 DEF IsCache, HasPageInWindow
  <2>2. ClampPage(c, p) = p
    BY <1>2, <2>1 DEF ClampPage, Least
  <2>3. PageRows(c, p) = SubSeq(c.rows, B + 1, Least(B + K, Len(c.rows)))
    <3>1. HasPageInWindow(c, ClampPage(c, p))
      BY <1>4, <2>2
    <3> QED
      BY <1>4, <2>2, <3>1 DEF PageRows, Slice
  <2>4. c.rows = SubSeq(CR, A + 1, Least(A + E, N))
    BY <2>1 DEF FreshCache, LoadHistoryRange
  <2>5. A \in Nat /\ B \in Nat /\ E \in Nat
    <3>1. \A x \in Nat, y \in Nat : x * y \in Nat
      OBVIOUS
    <3>2. a - 1 \in Nat /\ p - a \in Nat /\ e - a + 1 \in Nat
      BY <2>1
    <3> QED
      BY <3>1, <3>2, <1>1
  <2>6. B + K <= E
    <3>1. p - a + 1 \in Nat /\ e - a + 1 \in Nat /\ p - a + 1 <= e - a + 1
      BY <2>1
    <3>2. K * (p - a + 1) <= K * (e - a + 1)
      BY <1>1, <3>1, ProductMonotone
    <3>3. K * (p - a + 1) = B + K /\ K * (e - a + 1) = E
      BY <1>1, <2>1
    <3> QED
      BY <3>2, <3>3
  <2>7. A + B = (p - 1) * K /\ A + B + K = p * K
    BY <1>1, <2>1
  <2>8. A + B + 1 <= N
    <3>1. K * p <= K * Pages(c)
      BY <1>1, <1>2, <2>1, ProductMonotone
    <3>2. K * p = p * K /\ K * Pages(c) \in Nat
      BY <1>1, <1>2, <2>1
    <3> HIDE DEF A, B
    <3> QED
      BY <1>1, <1>2, <2>5, <2>7, <3>1, <3>2
  <2> HIDE DEF a, e, A, B, E, N, K
  <2>9. SubSeq(c.rows, B + 1, Least(B + K, Len(c.rows))) = SubSeq(CR, A + B + 1, Least(A + B + K, N))
    <3> HIDE DEF CR
    <3>1. A + B + 1 <= Len(CR) /\ c.rows = SubSeq(CR, A + 1, Least(A + E, Len(CR)))
      BY <2>4, <2>8 DEF N
    <3>2. K \in Nat \ {0} /\ CR \in Seq(Range(CR))
      BY <1>1
    <3>3. SliceOfSlice(CR, A, B, E, K)
      BY <2>5, <2>6, <3>1, <3>2, Slices
    <3> QED
      BY <3>1, <3>3 DEF N, SliceOfSlice
  <2> QED
    BY <2>3, <2>7, <2>9 DEF N, K
<1> QED
  BY <1>3, <1>4

\* A count that succeeds is the number of cleared rows.
LEMMA MetaFresh ==
  ASSUME LogInv, NEW c, IsCache(c)
  PROVE  LET m == RefreshMeta(c)
         IN  /\ m.total = Cardinality(Cleared)
             /\ m.start = c.start /\ m.end = c.end /\ m.rows = c.rows
BY DEF RefreshMeta, IsCache

\* A window is fresh once it was read, and stays so where it is not read.
LEMMA WindowFresh ==
  ASSUME LogInv, NEW c, IsCache(c), c.total <= Cardinality(Cleared), NEW p \in Nat, NEW o,
         o = "ok" \/ (o # "short" /\ FreshCache(c))
  PROVE  FreshCache(RefreshWindow(c, p, o))
<1> DEFINE m == RefreshMeta(c)
           w == WindowAround(m, ClampPage(m, p))
           rows == RowsRead(o, (w[1] - 1) * PageSize, (w[2] - w[1] + 1) * PageSize)
<1>1. /\ {"total", "hot", "start", "end", "rows"} \subseteq DOMAIN m
      /\ m.total = Cardinality(Cleared) /\ m.start = c.start /\ m.end = c.end /\ m.rows = c.rows
  BY DEF RefreshMeta, IsCache
<1>2. RefreshWindow(c, p, o) =
        CASE Pages(m) = 0 -> [m EXCEPT !.rows = <<>>, !.start = 0, !.end = 0]
          [] Pages(m) # 0 /\ o = "fail" -> m
          [] OTHER -> [m EXCEPT !.start = w[1], !.end = w[2], !.rows = rows]
  BY DEF RefreshWindow
<1>3. rows = LoadHistoryRange((w[1] - 1) * PageSize, (w[2] - w[1] + 1) * PageSize)
  BY DEF RowsRead
<1> HIDE DEF m, w, rows
<1>4. CASE Pages(m) = 0
  BY <1>1, <1>2, <1>4 DEF FreshCache
<1>5. CASE Pages(m) # 0 /\ o = "fail"
  BY <1>1, <1>2, <1>5 DEF FreshCache
<1>6. CASE Pages(m) # 0 /\ o # "fail"
  <2>1. RefreshWindow(c, p, o) = [m EXCEPT !.start = w[1], !.end = w[2], !.rows = rows]
    BY <1>2, <1>6
  <2>2. /\ RefreshWindow(c, p, o).total = Cardinality(Cleared)
        /\ RefreshWindow(c, p, o).start = w[1] /\ RefreshWindow(c, p, o).end = w[2]
        /\ RefreshWindow(c, p, o).rows = rows
    BY <1>1, <2>1
  <2> QED
    BY <1>3, <2>2 DEF FreshCache
<1> QED
  BY <1>4, <1>5, <1>6

\* A page that was asked for leaves count and window fresh.
LEMMA EnsureFresh ==
  ASSUME LogInv, NEW c, IsCache(c), c.total <= Cardinality(Cleared), NEW p \in Nat, NEW o,
         o # "short", FreshCache(c)
  PROVE  FreshCache(EnsurePageLoaded(c, p, o))
<1>1. CASE Pages(c) = 0
  <2> DEFINE d == [c EXCEPT !.rows = <<>>, !.start = 0, !.end = 0]
  <2>1. EnsurePageLoaded(c, p, o) = d
    BY <1>1 DEF EnsurePageLoaded
  <2>2. d.total = c.total /\ d.start = 0
    BY DEF IsCache
  <2> HIDE DEF d
  <2> QED
    BY <2>1, <2>2 DEF FreshCache
<1>2. CASE Pages(c) # 0 /\ HasPageInWindow(c, ClampPage(c, p))
  BY <1>2 DEF EnsurePageLoaded
<1>3. CASE Pages(c) # 0 /\ ~HasPageInWindow(c, ClampPage(c, p))
  <2>1. ClampPage(c, p) \in Nat
    BY <1>3, Clamped DEF IsCache
  <2>2. EnsurePageLoaded(c, p, o) = RefreshWindow(c, ClampPage(c, p), o)
    BY <1>3 DEF EnsurePageLoaded
  <2> QED
    BY <2>1, <2>2, WindowFresh
<1> QED
  BY <1>1, <1>2, <1>3

\* A window that was read for a page holds that page.
LEMMA WindowHolds ==
  ASSUME LogInv, NEW c, IsCache(c), c.total <= Cardinality(Cleared),
         NEW p \in Nat, p = 1 \/ p \in 1 .. Pages(c)
  PROVE  LET d == RefreshWindow(c, p, "ok") IN Pages(d) = 0 \/ HasPageInWindow(d, p)
<1> DEFINE m == RefreshMeta(c)
           w == WindowAround(m, ClampPage(m, p))
           rows == RowsRead("ok", (w[1] - 1) * PageSize, (w[2] - w[1] + 1) * PageSize)
           d == RefreshWindow(c, p, "ok")
<1>1. Follows(c, m)
  BY MetaFollows
<1>2. d = CASE Pages(m) = 0 -> [m EXCEPT !.rows = <<>>, !.start = 0, !.end = 0]
            [] Pages(m) # 0 -> [m EXCEPT !.start = w[1], !.end = w[2], !.rows = rows]
  BY DEF RefreshWindow
<1> HIDE DEF m, rows, d
<1>3. /\ m.total \in Nat /\ Pages(c) \in Nat /\ Pages(m) \in Nat /\ Pages(c) <= Pages(m)
      /\ {"total", "hot", "start", "end", "rows"} \subseteq DOMAIN m
  BY <1>1, PagesGrow DEF Follows, IsCache
<1>4. CASE Pages(m) = 0
  <2>1. d.total = m.total
    BY <1>2, <1>3, <1>4
  <2> QED
    BY <2>1, <1>4 DEF Pages, d
<1>5. CASE Pages(m) # 0
  <2>1. p \in 1 .. Pages(m)
    BY <1>3, <1>5
  <2>2. ClampPage(m, p) = p
    BY <1>3, <2>1 DEF ClampPage, Least
  <2>3. w[1] \in Nat /\ w[2] \in Nat /\ 1 <= w[1] /\ w[1] <= p /\ p <= w[2]
    BY <1>3, <2>1, <2>2, WindowInside
  <2> HIDE DEF w
  <2>4. d.start = w[1] /\ d.end = w[2]
    BY <1>2, <1>3, <1>5
  <2> QED
    BY <2>3, <2>4 DEF HasPageInWindow, d
<1> QED
  BY <1>4, <1>5
-----------------------------------------------------------------------------
(* The screen catches up.                                                  *)

\* Whether a cache is fresh depends on the table and on nothing else.
LEMMA FreshKept ==
  ASSUME FreshCache(cache'), db' = db
  PROVE  FreshCache(cache)'
<1>1. ClearedRows' = ClearedRows /\ Cleared' = Cleared
  BY DEF ClearedRows, Cleared
<1> QED
  BY <1>1 DEF FreshCache, LoadHistoryRange

\* Every step keeps the cache fresh, or marks it dirty or missed.
LEMMA FreshStep == LogInv /\ Steady /\ Undisturbed /\ Fresh /\ [Next]_vars => Fresh'
<1> SUFFICES ASSUME LogInv, Steady, Undisturbed, Fresh, [Next]_vars,
                    bound', ~missed', ~dirty', ~(pc' = "window" /\ was_dirty')
             PROVE  FreshCache(cache)'
  BY DEF Fresh
<1>0. /\ IsCache(cache) /\ cache.total <= Cardinality(Cleared) /\ page_no \in Nat /\ arg \in Nat
      /\ page_no = 1 \/ page_no \in 1 .. Pages(cache)
  BY DEF Steady
<1>1. ASSUME FreshCache(cache) PROVE FreshCache(RefreshMeta(cache))
  BY <1>0, <1>1, MetaFresh DEF FreshCache
<1>2. ASSUME NEW s \in Samples, NEW d \in Steps, Evaluate(s, d) PROVE FreshCache(cache)'
  <2>1. /\ UNCHANGED <<bound, missed, dirty, cache, db>> /\ pc = "sleep"
    BY <1>2 DEF Evaluate, center
  <2> QED
    BY <2>1, FreshKept DEF Fresh
<1>3. ASSUME NEW c, NEW ok, SetActiveOn(c, ok) \/ SetActiveOff(c, ok) PROVE FALSE
  BY <1>3 DEF SetActiveOn, SetActiveOff
<1>4. ASSUME NEW o1 \in {"ok", "fail"}, NEW o2 \in {"ok", "fail", "short"}, RefreshHead(o1, o2)
      PROVE  FreshCache(cache)'
  <2>1. bound /\ db' = db /\ pc = "apply"
    BY <1>4 DEF RefreshHead
  <2>2. CASE dirty
    <3>1. was_dirty' /\ o1 = "ok" /\ o2 = "ok" /\ arg' = page_no
      BY <1>4, <2>1, <2>2 DEF RefreshHead
    <3>2. pc' = "window"
      BY <1>0, <1>4, <3>1 DEF RefreshHead
    <3> QED
      BY <3>1, <3>2
  <2>3. CASE ~dirty
    <3>1. ~was_dirty'
      BY <1>4, <2>3 DEF RefreshHead
    <3>2. missed' = missed
      BY <1>4, <3>1 DEF RefreshHead
    <3>3. FreshCache(cache)
      BY <2>1, <2>3, <3>2 DEF Fresh
    <3>4. cache' = cache \/ cache' = RefreshMeta(cache)
      BY <1>4, <2>3 DEF RefreshHead
    <3> QED
      BY <1>1, <2>1, <3>3, <3>4, FreshKept
  <2> QED
    BY <2>2, <2>3
<1>5. ASSUME NEW o \in {"ok", "count", "fail", "short"}, FaultRefreshWindow(o) PROVE FreshCache(cache)'
  <2>1. /\ bound /\ ~missed /\ ~dirty /\ db' = db /\ o # "short" /\ (was_dirty => o = "ok")
        /\ cache' = IF o = "count" THEN cache ELSE RefreshWindow(cache, arg, o)
    BY <1>5 DEF FaultRefreshWindow, center
  <2>2. o = "ok" \/ FreshCache(cache)
    BY <2>1 DEF Fresh
  <2>3. o # "count" => FreshCache(RefreshWindow(cache, arg, o))
    BY <1>0, <2>1, <2>2, WindowFresh
  <2> QED
    BY <2>1, <2>2, <2>3, FreshKept
<1>6. CASE Flush \/ TurnPage \/ ClickCurNext \/ ButtonFlush \/ UNCHANGED vars
  <2>1. /\ UNCHANGED <<bound, missed, dirty, cache, db>>
        /\ pc = "flush" \/ (pc' = pc /\ was_dirty' = was_dirty)
    BY <1>6 DEF Flush, TurnPage, ClickCurNext, ButtonFlush, center, vars
  <2> QED
    BY <2>1, FreshKept DEF Fresh
<1>7. ASSUME NEW first, ClickCurPrev(first) PROVE FreshCache(cache)'
  <2>1. UNCHANGED <<bound, missed, dirty, cache, db, pc, was_dirty>>
    BY <1>7 DEF ClickCurPrev
  <2> QED
    BY <2>1, FreshKept DEF Fresh
<1>8. ASSUME NEW kind, NEW o, ClickHistory(kind, o) PROVE FreshCache(cache)'
  <2>1. /\ UNCHANGED <<bound, missed, dirty, db, pc, was_dirty>>
        /\ cache' = cache \/ cache' = RefreshMeta(cache)
    BY <1>8 DEF ClickHistory
  <2> QED
    BY <2>1, <1>1, FreshKept DEF Fresh
<1>11. ASSUME NEW o, ClickHistoryEnter \/ ShowHistoryPage(o) PROVE FreshCache(cache)'
  <2>1. /\ UNCHANGED <<bound, missed, dirty, db, pc, was_dirty>>
        /\ cache' = cache \/ cache' = RefreshMeta(cache)
    BY <1>11 DEF ClickHistoryEnter, ShowHistoryPage, center
  <2> QED
    BY <2>1, <1>1, FreshKept DEF Fresh
<1>9. ASSUME NEW o \in {"ok", "count", "fail", "short"}, ButtonLoad(o) PROVE FreshCache(cache)'
  <2>1. /\ UNCHANGED <<bound, dirty, db, pc, was_dirty>> /\ ~missed /\ o # "short"
        /\ \/ cache' = cache \/ cache' = EnsurePageLoaded(cache, page_no, o)
           \/ cache' = RefreshWindow(cache, 1, o)
    BY <1>9 DEF ButtonLoad, center
  <2>2. FreshCache(cache)
    BY <2>1 DEF Fresh
  <2>3. FreshCache(EnsurePageLoaded(cache, page_no, o)) /\ FreshCache(RefreshWindow(cache, 1, o))
    BY <1>0, <2>1, <2>2, WindowFresh, EnsureFresh
  <2> QED
    BY <2>1, <2>2, <2>3, FreshKept
<1>10. ASSUME NEW ok, NEW read, NEW n, Restart(ok, read, n) PROVE FALSE
  BY <1>10 DEF Restart, Process
<1> QED
  BY <1>2, <1>3, <1>4, <1>5, <1>6, <1>7, <1>8, <1>9, <1>10, <1>11 DEF Next, FaultThread, Clicks, ControlThread

\* Clamping a clamped page changes nothing.
LEMMA ClampTwice ==
  ASSUME NEW codes, NEW p \in Nat
  PROVE  ClampPages(codes, ClampPages(codes, p)) = ClampPages(codes, p)
<1>1. CurrentTotalPages(codes) \in Nat
  BY CurrentPages
<1> QED
  BY <1>1 DEF ClampPages, Least

\* Every step keeps what a calm pass relies on.
LEMMA UndisturbedStep == LogInv /\ Steady /\ Undisturbed /\ [Next]_vars => Undisturbed'
<1> SUFFICES ASSUME LogInv, Steady, Undisturbed, [Next]_vars PROVE Undisturbed'
  OBVIOUS
<1> DEFINE Flags == bound \in BOOLEAN /\ missed \in BOOLEAN /\ dirty \in BOOLEAN
                    /\ was_dirty \in BOOLEAN /\ calm \in BOOLEAN
<1>0. Flags
  BY DEF Undisturbed
<1>1. ASSUME Flags', pc' \in {"sleep", "apply"} PROVE Undisturbed'
  BY <1>1 DEF Undisturbed
<1>2. ASSUME NEW s \in Samples, NEW d \in Steps, Evaluate(s, d) PROVE Undisturbed'
  <2>1. Flags' /\ pc' = "apply"
    BY <1>0, <1>2 DEF Evaluate, center
  <2> QED
    BY <2>1, <1>1
<1>3. ASSUME NEW c, NEW ok, SetActiveOn(c, ok) \/ SetActiveOff(c, ok) PROVE Undisturbed'
  <2>1. Flags' /\ pc' = "apply"
    BY <1>0, <1>3 DEF SetActiveOn, SetActiveOff, NextEdge
  <2> QED
    BY <2>1, <1>1
<1>4. ASSUME NEW o1 \in {"ok", "fail"}, NEW o2 \in {"ok", "fail", "short"}, RefreshHead(o1, o2)
      PROVE  Undisturbed'
  <2> DEFINE away == ~HasPageInWindow(cache, page_no)
  <2>1. Flags'
    BY <1>0, <1>4 DEF RefreshHead
  <2>2. /\ bound' = bound /\ active' = active /\ page_no' = page_no
        /\ bound => ~dirty'
        /\ cur_page' = ClampPages(active, cur_page)
        /\ arg' = IF bound /\ (dirty \/ away) /\ o1 = "ok" /\ o2 # "fail" THEN page_no ELSE 0
        /\ pc' = IF arg' = 0 THEN "flush" ELSE "window"
        /\ calm' => One(o1 # "ok") + One(o2 # "ok") = 0
    BY <1>0, <1>4 DEF RefreshHead
  <2>3. page_no # 0 /\ cur_page \in Nat
    BY DEF Steady
  <2>4. cur_page' = ClampPages(active, cur_page')
    BY <2>2, <2>3, ClampTwice
  <2>5. calm' => o1 = "ok" /\ o2 = "ok"
    BY <2>2 DEF One
  <2>6. calm' /\ pc' = "flush" /\ bound => HasPageInWindow(cache, page_no) /\ cache' = cache
    <3>1. calm' /\ pc' = "flush" /\ bound => ~dirty /\ ~away
      BY <2>2, <2>3, <2>5
    <3> QED
      BY <1>4, <3>1 DEF RefreshHead
  <2>7. (Pages(cache) = 0 \/ HasPageInWindow(cache, page_no))' \/ ~(calm' /\ pc' = "flush" /\ bound')
    BY <2>2, <2>6 DEF HasPageInWindow
  <2>8. ClampPages(active, cur_page)' = ClampPages(active, cur_page')
    BY <2>2
  <2>9. pc' = "window" => bound /\ arg' = page_no
    BY <2>2
  <2> QED
    BY <2>1, <2>2, <2>4, <2>7, <2>8, <2>9 DEF Undisturbed
<1>5. ASSUME NEW o \in {"ok", "count", "fail", "short"}, FaultRefreshWindow(o) PROVE Undisturbed'
  <2>1. Flags'
    BY <1>0, <1>5 DEF FaultRefreshWindow, center
  <2>2. /\ pc = "window" /\ pc' = "flush" /\ UNCHANGED <<active, cur_page, dirty, bound, page_no>>
        /\ calm' => calm /\ o = "ok" /\ cache' = RefreshWindow(cache, arg, "ok")
    BY <1>0, <1>5 DEF FaultRefreshWindow, center
  <2>3. calm' => Pages(cache') = 0 \/ HasPageInWindow(cache', page_no)
    <3>1. calm' => cache' = RefreshWindow(cache, page_no, "ok")
      BY <2>2 DEF Undisturbed
    <3>2. LET d == RefreshWindow(cache, page_no, "ok") IN Pages(d) = 0 \/ HasPageInWindow(d, page_no)
      BY WindowHolds DEF Steady
    <3> QED
      BY <3>1, <3>2
  <2>4. calm' => (Pages(cache) = 0 \/ HasPageInWindow(cache, page_no))'
    BY <2>2, <2>3 DEF Pages, HasPageInWindow
  <2>5. calm' => cur_page' = ClampPages(active, cur_page)'
    BY <2>2 DEF Undisturbed
  <2> QED
    BY <2>1, <2>2, <2>4, <2>5 DEF Undisturbed
<1>6. CASE Flush
  <2>1. Flags' /\ pc' = "sleep"
    BY <1>0, <1>6 DEF Flush, center
  <2> QED
    BY <2>1, <1>1
<1>7. ASSUME calm' = FALSE, missed' \in BOOLEAN, UNCHANGED <<pc, dirty, bound, was_dirty>> PROVE Undisturbed'
  BY <1>0, <1>7 DEF Undisturbed
<1>8. CASE TurnPage \/ ClickCurNext \/ ButtonFlush
  BY <1>0, <1>7, <1>8 DEF TurnPage, ClickCurNext, ButtonFlush, Press, center
<1>9. ASSUME NEW first, ClickCurPrev(first) PROVE Undisturbed'
  BY <1>0, <1>7, <1>9 DEF ClickCurPrev, Press
<1>10. ASSUME NEW kind, NEW o, ClickHistory(kind, o) PROVE Undisturbed'
  BY <1>0, <1>7, <1>10 DEF ClickHistory, EnterHistoryView, Press
<1>14. ASSUME NEW o, ClickHistoryEnter \/ ShowHistoryPage(o) PROVE Undisturbed'
  BY <1>0, <1>7, <1>14 DEF ClickHistoryEnter, ShowHistoryPage, EnterHistoryView, Press, center
<1>11. ASSUME NEW o, ButtonLoad(o) PROVE Undisturbed'
  BY <1>0, <1>7, <1>11 DEF ButtonLoad, center
<1>12. ASSUME NEW ok \in BOOLEAN, NEW read, NEW n, Restart(ok, read, n) PROVE Undisturbed'
  <2>1. Flags' /\ pc' = "sleep"
    BY <1>12 DEF Restart, Process
  <2> QED
    BY <2>1, <1>1
<1>13. CASE UNCHANGED vars
  BY <1>13 DEF vars, Undisturbed, ClampPages, CurrentTotalPages, Pages, HasPageInWindow
<1> HIDE DEF Flags
<1> QED
  BY <1>2, <1>3, <1>4, <1>5, <1>6, <1>8, <1>9, <1>10, <1>11, <1>12, <1>13, <1>14
     DEF Next, FaultThread, Clicks, ControlThread

\* The flush that ends a calm pass writes the pages of the table.
LEMMA CatchUpStep ==
  LogInv /\ Steady /\ Undisturbed /\ Fresh /\ PagesCatchUp /\ [Next]_vars => PagesCatchUp'
<1> SUFFICES ASSUME LogInv, Steady, Undisturbed, Fresh, PagesCatchUp, [Next]_vars, pc' = "sleep", calm'
             PROVE  (hmi.cur = CurrentPage /\ (missed \/ hmi.his = HistoryPage))'
  BY DEF PagesCatchUp
<1>1. ASSUME UNCHANGED <<active, cur_page, bound, db, page_no>>
      PROVE  CurrentPage' = CurrentPage /\ HistoryPage' = HistoryPage
  <2>1. CurrentPage' = CurrentPage
    BY <1>1 DEF CurrentPage, BuildCurrentRows
  <2>2. ClearedRows' = ClearedRows
    BY <1>1 DEF ClearedRows, Cleared
  <2> QED
    BY <1>1, <2>1, <2>2 DEF HistoryPage
<1>2. CASE Flush
  <2>1. /\ UNCHANGED <<active, cur_page, bound, db, page_no, missed, calm, dirty>> /\ pc = "flush"
        /\ hmi'.cur = BuildCurrentRows(cur_page)
        /\ hmi'.his = IF bound THEN PageRows(cache, page_no) ELSE <<>>
    BY <1>2 DEF Flush, FlushToHmi, center
  <2>2. BuildCurrentRows(cur_page) = CurrentPage
    BY <2>1 DEF Undisturbed, CurrentPage
  <2>3. missed \/ hmi'.his = HistoryPage
    <3>1. CASE ~bound
      BY <2>1, <3>1 DEF HistoryPage
    <3>2. CASE bound /\ ~missed
      <4>1. FreshCache(cache) /\ (Pages(cache) = 0 \/ HasPageInWindow(cache, page_no))
        BY <2>1, <3>2 DEF Undisturbed, Fresh
      <4>2. PageRows(cache, page_no) = HistoryPage
        BY <3>2, <4>1, PageOfFresh DEF Steady, HistoryPage
      <4> QED
        BY <2>1, <3>2, <4>2
    <3> QED
      BY <3>1, <3>2
  <2> QED
    BY <1>1, <2>1, <2>2, <2>3
<1>3. CASE UNCHANGED vars
  <2>1. UNCHANGED <<active, cur_page, bound, db, page_no, missed, hmi, pc, calm>>
    BY <1>3 DEF vars
  <2> QED
    BY <1>1, <2>1 DEF PagesCatchUp
<1>4. ASSUME Next, ~Flush PROVE FALSE
  <2>1. ASSUME NEW s, NEW d, Evaluate(s, d) PROVE FALSE
    BY <2>1 DEF Evaluate
  <2>2. ASSUME NEW c, NEW ok, SetActiveOn(c, ok) \/ SetActiveOff(c, ok) PROVE FALSE
    BY <2>2 DEF SetActiveOn, SetActiveOff, NextEdge
  <2>3. ASSUME NEW o1, NEW o2, RefreshHead(o1, o2) PROVE FALSE
    <3>1. pc' = IF arg' = 0 THEN "flush" ELSE "window"
      BY <2>3 DEF RefreshHead
    <3> QED
      BY <3>1
  <2>4. ASSUME NEW o, FaultRefreshWindow(o) \/ ButtonLoad(o) PROVE FALSE
    BY <2>4 DEF FaultRefreshWindow, ButtonLoad
  <2>5. CASE TurnPage \/ ClickCurNext \/ ButtonFlush
    BY <2>5 DEF TurnPage, ClickCurNext, ButtonFlush, Press
  <2>6. ASSUME NEW first, ClickCurPrev(first) PROVE FALSE
    BY <2>6 DEF ClickCurPrev, Press
  <2>7. ASSUME NEW kind, NEW o, ClickHistory(kind, o) PROVE FALSE
    BY <2>7 DEF ClickHistory, EnterHistoryView, Press
  <2>9. ASSUME NEW o, ClickHistoryEnter \/ ShowHistoryPage(o) PROVE FALSE
    BY <2>9 DEF ClickHistoryEnter, ShowHistoryPage, EnterHistoryView, Press
  <2>8. ASSUME NEW ok, NEW read, NEW n, Restart(ok, read, n) PROVE FALSE
    BY <2>8 DEF Restart, Process
  <2> QED
    BY <1>4, <2>1, <2>2, <2>3, <2>4, <2>5, <2>6, <2>7, <2>8, <2>9 DEF Next, FaultThread, Clicks, ControlThread
<1> QED
  BY <1>2, <1>3, <1>4

\* For every fault map and every page, window and table size: a pass of the
\* fault thread that no click and no failed read disturbs leaves the screen
\* on the rows of the current page and, unless the last refresh failed, on
\* the rows the table has for the history page, whatever was raced before
\* it (LogicEngine::refreshFaultPagesOnly, FaultHistoryCache).
THEOREM PagesCatchUpAlways == Spec => []PagesCatchUp
<1>1. Init => CInv
  <2> SUFFICES ASSUME Init PROVE CInv
    OBVIOUS
  <2>1. FInv
    BY LogInit, PagesInit DEF FInv
  <2>2. Fresh /\ Undisturbed /\ PagesCatchUp
    BY DEF Init, Fresh, Undisturbed, PagesCatchUp
  <2> QED
    BY <2>1, <2>2 DEF CInv
<1>2. CInv /\ [Next]_vars => CInv'
  BY LogStep, PagesStep, FreshStep, UndisturbedStep, CatchUpStep DEF CInv, FInv
<1>3. CInv => PagesCatchUp
  BY DEF CInv
<1> QED
  BY <1>1, <1>2, <1>3, PTL DEF Spec
-----------------------------------------------------------------------------
(***************************************************************************)
(* The two timers of the fault subsystem, for every delay and every        *)
(* sequence of readings: a pass moves a timer exactly as a stopwatch does  *)
(* that counts without bound and is reset whenever the signal changes.     *)
(* The cap on the timers of the model is part of what is shown to be       *)
(* harmless.                                                               *)
(***************************************************************************)

\* How long a signal has had its value.
Watch == [on : BOOLEAN, age : Nat]

\* The stopwatch o after a pass, d later, that finds the signal at raw.
Seen(o, raw, d) == [on |-> raw, age |-> IF raw = o.on THEN o.age + d ELSE 0]

\* The output that follows a stopwatch: the signal, once it has stood for the
\* time its value asks for, and the old output until then.
Follow(out, o, trigger, clear) ==
  IF o.age >= (IF o.on THEN trigger ELSE clear) THEN o.on ELSE out

DebounceState == [initialized : BOOLEAN, last : BOOLEAN, since : Nat, out : BOOLEAN]
ConditionState == [on : BOOLEAN, held : Nat \cup {NotTimed}]

\* A timer and the stopwatch of its signal: the timer counts up to Cap, and
\* the condition engine's only while signal and output differ.
DebounceTracks(st, o) ==
  st.initialized = TRUE /\ st.last = o.on /\ st.since = Least(o.age, Cap)
ConditionTracks(st, o) ==
  st.held = IF st.on = o.on THEN NotTimed ELSE Least(o.age, Cap)

\* No delay is longer than the cap.
LEMMA CapFacts == Cap \in Nat /\ CommDelay <= Cap /\ ClearDelay <= Cap /\ EstopDelay <= Cap
<1> DEFINE S == {CommDelay, ClearDelay, EstopDelay}
<1>1. \E x \in S : \A y \in S : x >= y
  BY DelayAssumption
<1>2. Cap \in S /\ \A y \in S : Cap >= y
  BY <1>1 DEF Cap, Max
<1> QED
  BY <1>2, DelayAssumption

\* A capped timer can be aged without knowing what was cut off, and it tells
\* whether a delay within the cap has passed.
LEMMA CappedAge ==
  ASSUME NEW a \in Nat, NEW d \in Nat
  PROVE  /\ a + d \in Nat /\ Least(a, Cap) \in Nat /\ Least(a, Cap) # NotTimed
         /\ Later(Least(a, Cap), d) = Least(a + d, Cap)
BY CapFacts DEF Later, Least, NotTimed

\* A capped timer tells whether a delay within the cap has passed.
LEMMA CappedTells ==
  ASSUME NEW a \in Nat, NEW need \in Nat, need <= Cap
  PROVE  Least(a, Cap) >= need <=> a >= need
BY CapFacts DEF Least

\* A timer that was reset stands at zero.
LEMMA CappedZero == Least(0, Cap) = 0
BY CapFacts DEF Least

\* What a stopwatch holds after a pass.
LEMMA SeenFacts ==
  ASSUME NEW o \in Watch, NEW raw \in BOOLEAN, NEW d \in Nat
  PROVE  /\ Seen(o, raw, d) \in Watch /\ Seen(o, raw, d).on = raw
         /\ raw = o.on => Seen(o, raw, d).age = o.age + d
         /\ raw # o.on => Seen(o, raw, d).age = 0
<1>1. o.age + d \in Nat /\ 0 \in Nat
  BY DEF Watch
<1> QED
  BY <1>1 DEF Seen, Watch

\* FaultRuntimeMapper::debounceRule_ raises and drops a device's fault exactly
\* when its signal has stood for the time the rule's policy asks for: the first
\* reading starts the stopwatch and every later pass follows it.
THEOREM DebounceIsExact ==
  /\ \A rule : \A raw \in BOOLEAN :
       LET next == DebounceRule(rule, NoDebounce, raw)
           o == [on |-> raw, age |-> 0]
       IN  /\ next \in DebounceState /\ DebounceTracks(next, o)
           /\ next.out = Follow(FALSE, o, Policy(rule).trigger, Policy(rule).clear)
  /\ \A rule : \A st \in DebounceState, o \in Watch, raw \in BOOLEAN, d \in Nat :
       DebounceTracks(st, o) =>
         LET next == DebounceRule(rule, AgeDebounce(st, d), raw)
         IN  /\ next \in DebounceState /\ DebounceTracks(next, Seen(o, raw, d))
             /\ next.out = Follow(st.out, Seen(o, raw, d), Policy(rule).trigger, Policy(rule).clear)
<1>0. ASSUME NEW rule
      PROVE  /\ Policy(rule).trigger \in Nat /\ Policy(rule).trigger <= Cap
             /\ Policy(rule).clear \in Nat /\ Policy(rule).clear <= Cap
  BY DelayAssumption, CapFacts DEF Policy
<1>1. ASSUME NEW rule, NEW raw \in BOOLEAN
      PROVE  LET next == DebounceRule(rule, NoDebounce, raw)
                 o == [on |-> raw, age |-> 0]
             IN  /\ next \in DebounceState /\ DebounceTracks(next, o)
                 /\ next.out = Follow(FALSE, o, Policy(rule).trigger, Policy(rule).clear)
  <2> DEFINE next == DebounceRule(rule, NoDebounce, raw)
             o == [on |-> raw, age |-> 0]
             trigger == Policy(rule).trigger
             clear == Policy(rule).clear
  <2>1. trigger \in Nat /\ clear \in Nat
    BY <1>0
  <2>2. next = [initialized |-> TRUE, last |-> raw, since |-> 0, out |-> raw /\ trigger = 0]
    BY DEF DebounceRule, NoDebounce
  <2> HIDE DEF trigger, clear
  <2>3. (raw /\ trigger = 0) \in BOOLEAN
    OBVIOUS
  <2>4. next \in DebounceState /\ next.initialized = TRUE /\ next.last = raw /\ next.since = 0
        /\ next.out = (raw /\ trigger = 0)
    BY <2>2, <2>3 DEF DebounceState
  <2>5. o.on = raw /\ o.age = 0
    OBVIOUS
  <2> HIDE DEF next, o
  <2>6. DebounceTracks(next, o)
    BY <2>4, <2>5, CappedZero DEF DebounceTracks
  <2>7. Follow(FALSE, o, trigger, clear) = (raw /\ trigger = 0)
    <3>1. CASE raw = TRUE
      <4>1. Follow(FALSE, o, trigger, clear) = IF 0 >= trigger THEN TRUE ELSE FALSE
        BY <2>5, <3>1 DEF Follow
      <4>2. 0 >= trigger <=> trigger = 0
        BY <2>1
      <4> QED
        BY <3>1, <4>1, <4>2
    <3>2. CASE raw = FALSE
      <4>1. Follow(FALSE, o, trigger, clear) = FALSE
        BY <2>5, <3>2 DEF Follow
      <4> QED
        BY <3>2, <4>1
    <3> QED
      BY <3>1, <3>2
  <2> QED
    BY <2>4, <2>6, <2>7 DEF next, o, trigger, clear
<1>2. ASSUME NEW rule, NEW st \in DebounceState, NEW o \in Watch, NEW raw \in BOOLEAN, NEW d \in Nat,
             DebounceTracks(st, o)
      PROVE  LET next == DebounceRule(rule, AgeDebounce(st, d), raw)
             IN  /\ next \in DebounceState /\ DebounceTracks(next, Seen(o, raw, d))
                 /\ next.out = Follow(st.out, Seen(o, raw, d), Policy(rule).trigger, Policy(rule).clear)
  <2> DEFINE aged == AgeDebounce(st, d)
             next == DebounceRule(rule, aged, raw)
             w == Seen(o, raw, d)
             since == IF aged.last # raw THEN 0 ELSE aged.since
             need == IF raw THEN Policy(rule).trigger ELSE Policy(rule).clear
  <2>1. /\ o.on \in BOOLEAN /\ o.age \in Nat /\ st.out \in BOOLEAN
        /\ st.since = Least(o.age, Cap) /\ st.last = o.on /\ st.initialized = TRUE
    BY <1>2 DEF Watch, DebounceState, DebounceTracks
  <2>2. Later(st.since, d) = Least(o.age + d, Cap) /\ o.age + d \in Nat /\ Least(o.age + d, Cap) \in Nat
    <3>1. o.age + d \in Nat /\ Later(Least(o.age, Cap), d) = Least(o.age + d, Cap)
      BY <2>1, CappedAge
    <3>2. Least(o.age + d, Cap) \in Nat
      BY <3>1, CappedAge
    <3> QED
      BY <2>1, <3>1, <3>2
  <2>3. /\ aged \in DebounceState /\ aged.initialized = TRUE /\ aged.last = o.on
        /\ aged.since = Least(o.age + d, Cap) /\ aged.out = st.out
    BY <2>1, <2>2 DEF AgeDebounce, DebounceState
  <2>4. next = [aged EXCEPT !.last = raw, !.since = since,
                            !.out = IF raw # aged.out /\ since >= need THEN raw ELSE aged.out]
    BY <2>3 DEF DebounceRule
  <2>5. w \in Watch /\ w.on = raw /\ w.age \in Nat
    BY SeenFacts DEF Watch
  <2>6. since = Least(w.age, Cap) /\ since \in Nat
    <3>1. CASE raw = o.on
      BY <2>2, <2>3, <3>1, SeenFacts
    <3>2. CASE raw # o.on
      <4>1. w.age = 0
        BY <3>2, SeenFacts
      <4> QED
        BY <2>3, <3>2, <4>1, CappedZero
    <3> QED
      BY <3>1, <3>2
  <2>7. need \in Nat /\ need <= Cap
    BY <1>0
  <2>8. Follow(st.out, w, Policy(rule).trigger, Policy(rule).clear) = IF w.age >= need THEN raw ELSE st.out
    BY <2>5 DEF Follow
  <2> HIDE DEF aged, w, since, need
  <2>9. /\ next \in DebounceState /\ next.initialized = TRUE /\ next.last = raw /\ next.since = since
        /\ next.out = IF raw # aged.out /\ since >= need THEN raw ELSE aged.out
    BY <2>3, <2>4, <2>6 DEF DebounceState
  <2> HIDE DEF next
  <2>10. DebounceTracks(next, w)
    BY <2>5, <2>6, <2>9 DEF DebounceTracks
  <2>11. since >= need <=> w.age >= need
    BY <2>5, <2>6, <2>7, CappedTells
  <2>12. next.out = Follow(st.out, w, Policy(rule).trigger, Policy(rule).clear)
    BY <2>3, <2>8, <2>9, <2>11
  <2> QED
    BY <2>9, <2>10, <2>12 DEF next, w, aged
<1> QED
  BY <1>1, <1>2

\* FaultConditionEngine::updateWithClear confirms and clears a condition exactly
\* when the signal has stood for the delay of its new value, for any delays
\* within the cap: the engine's timer, which is dropped whenever signal and
\* output agree, is the stopwatch of the signal where it matters.
THEOREM ConditionIsExact ==
  /\ NoCondition \in ConditionState /\ ConditionTracks(NoCondition, [on |-> FALSE, age |-> 0])
  /\ \A st \in ConditionState, o \in Watch, raw \in BOOLEAN, d \in Nat :
       \A trigger \in 0..Cap, clear \in 0..Cap :
         ConditionTracks(st, o) =>
           LET next == UpdateWithClear(AgeCondition(st, d), raw, ~raw, trigger, clear)
           IN  /\ next \in ConditionState /\ ConditionTracks(next, Seen(o, raw, d))
               /\ next.on = Follow(st.on, Seen(o, raw, d), trigger, clear)
<1>1. NoCondition \in ConditionState /\ ConditionTracks(NoCondition, [on |-> FALSE, age |-> 0])
  BY DEF NoCondition, ConditionState, ConditionTracks
<1>2. ASSUME NEW st \in ConditionState, NEW o \in Watch, NEW raw \in BOOLEAN, NEW d \in Nat,
             NEW trigger \in 0..Cap, NEW clear \in 0..Cap, ConditionTracks(st, o)
      PROVE  LET next == UpdateWithClear(AgeCondition(st, d), raw, ~raw, trigger, clear)
             IN  /\ next \in ConditionState /\ ConditionTracks(next, Seen(o, raw, d))
                 /\ next.on = Follow(st.on, Seen(o, raw, d), trigger, clear)
  <2> DEFINE aged == AgeCondition(st, d)
             next == UpdateWithClear(aged, raw, ~raw, trigger, clear)
             w == Seen(o, raw, d)
             held == IF aged.held = NotTimed THEN 0 ELSE aged.held
             need == IF raw THEN trigger ELSE clear
  <2>1. o.on \in BOOLEAN /\ o.age \in Nat /\ st.on \in BOOLEAN /\ st = [on |-> st.on, held |-> st.held]
    BY DEF Watch, ConditionState
  <2>2. w.on = raw /\ w.age \in Nat /\ need \in Nat /\ need <= Cap
    <3>1. w \in Watch /\ w.on = raw
      BY SeenFacts
    <3>2. w.age \in Nat
      BY <3>1 DEF Watch
    <3> HIDE DEF w
    <3>3. trigger \in Nat /\ trigger <= Cap /\ clear \in Nat /\ clear <= Cap
      BY CapFacts
    <3> QED
      BY <3>1, <3>2, <3>3
  <2>3. Follow(st.on, w, trigger, clear) = IF w.age >= need THEN raw ELSE st.on
    BY <2>2 DEF Follow
  <2>4. /\ st.on = o.on => st.held = NotTimed
        /\ st.on # o.on => st.held = Least(o.age, Cap)
    BY <1>2 DEF ConditionTracks
  <2>5. Least(o.age, Cap) \in Nat /\ Least(o.age, Cap) # NotTimed /\ o.age + d \in Nat
        /\ Least(o.age + d, Cap) \in Nat /\ Least(o.age + d, Cap) # NotTimed
        /\ Later(Least(o.age, Cap), d) = Least(o.age + d, Cap)
    <3>1. /\ o.age + d \in Nat /\ Later(Least(o.age, Cap), d) = Least(o.age + d, Cap)
          /\ Least(o.age, Cap) \in Nat /\ Least(o.age, Cap) # NotTimed
      BY <2>1, CappedAge
    <3>2. Least(o.age + d, Cap) \in Nat /\ Least(o.age + d, Cap) # NotTimed
      BY <3>1, CappedAge
    <3> QED
      BY <3>1, <3>2
  <2>6. /\ aged.on = st.on /\ aged \in ConditionState
        /\ st.on = o.on => aged.held = NotTimed
        /\ st.on # o.on => aged.held = Least(o.age + d, Cap)
    <3>1. CASE st.on = o.on
      BY <2>4, <3>1 DEF AgeCondition
    <3>2. CASE st.on # o.on
      <4>1. aged = [st EXCEPT !.held = Least(o.age + d, Cap)]
        BY <2>4, <2>5, <3>2 DEF AgeCondition
      <4> QED
        BY <2>5, <3>2, <4>1 DEF ConditionState
    <3> QED
      BY <3>1, <3>2
  <2>7. raw # st.on => held = Least(w.age, Cap) /\ held \in Nat
    <3>1. CASE raw = o.on /\ raw # st.on
      <4>1. w.age = o.age + d
        BY <3>1, SeenFacts
      <4> QED
        BY <2>5, <2>6, <3>1, <4>1
    <3>2. CASE raw # o.on /\ raw # st.on
      <4>1. w.age = 0 /\ st.on = o.on
        BY <2>1, <3>2, SeenFacts
      <4>2. held = 0
        BY <2>6, <4>1
      <4> QED
        BY <4>1, <4>2, CappedZero
    <3> QED
      BY <3>1, <3>2
  <2> HIDE DEF aged, w
  <2>8. CASE raw = st.on
    <3>1. next = [aged EXCEPT !.held = NotTimed]
      BY <2>6, <2>8 DEF UpdateWithClear
    <3>2. next \in ConditionState /\ next.on = st.on /\ next.held = NotTimed
      BY <2>6, <3>1 DEF ConditionState
    <3> HIDE DEF next
    <3>3. ConditionTracks(next, w)
      BY <2>2, <2>8, <3>2 DEF ConditionTracks
    <3> QED
      BY <2>3, <2>8, <3>2, <3>3 DEF next, w, aged
  <2>9. CASE raw # st.on
    <3>1. next = IF held >= need THEN [on |-> ~aged.on, held |-> NotTimed]
                                 ELSE [aged EXCEPT !.held = held]
      BY <2>1, <2>6, <2>9 DEF UpdateWithClear
    <3>2. held = Least(w.age, Cap) /\ held \in Nat /\ (held >= need <=> w.age >= need)
      BY <2>7, <2>2, <2>9, CappedTells
    <3> HIDE DEF held, need
    <3>3. CASE w.age >= need
      <4>0. (~aged.on) = raw
        BY <2>1, <2>6, <2>9
      <4>1. next = [on |-> raw, held |-> NotTimed]
        BY <3>1, <3>2, <3>3, <4>0
      <4>2. next \in ConditionState /\ next.on = raw /\ next.held = NotTimed
        BY <4>1 DEF ConditionState
      <4> HIDE DEF next
      <4>3. ConditionTracks(next, w)
        BY <2>2, <4>2 DEF ConditionTracks
      <4> QED
        BY <2>3, <3>3, <4>2, <4>3 DEF next, w, aged
    <3>4. CASE ~(w.age >= need)
      <4>1. next = [aged EXCEPT !.held = held]
        BY <3>1, <3>2, <3>4
      <4>2. next \in ConditionState /\ next.on = st.on /\ next.held = held
        BY <2>6, <3>2, <4>1 DEF ConditionState
      <4> HIDE DEF next
      <4>3. ConditionTracks(next, w)
        BY <2>2, <2>9, <3>2, <4>2 DEF ConditionTracks
      <4> QED
        BY <2>3, <3>4, <4>2, <4>3 DEF next, w, aged
    <3> QED
      BY <3>3, <3>4
  <2> QED
    BY <2>8, <2>9
<1> QED
  BY <1>1, <1>2
-----------------------------------------------------------------------------
(* The rows of the fault map and the rules built from them.                 *)

\* No two rows of the map have the same code.
LEMMA RowDistinct == \A r, s \in FaultMap : r.code = s.code => r = s
BY DEF FaultMap, Row

\* The row of a code.
LEMMA RowIs == ASSUME NEW r \in FaultMap PROVE RowOf(r.code) = r
BY RowDistinct DEF RowOf

\* The rows, code by code.
LEMMA RowTable ==
  /\ RowOf(\h1000) = Row(\h1000, "vcu", "hmi_comm_fault", 0, "B1")
  /\ RowOf(\h1001) = Row(\h1001, "vcu", "bms1_comm_fault", 0, "B1")
  /\ RowOf(\h1005) = Row(\h1005, "vcu", "pcu1_comm_fault", 1, "B1")
  /\ RowOf(\h1006) = Row(\h1006, "vcu", "pcu2_comm_fault", 2, "B1")
  /\ RowOf(\h1007) = Row(\h1007, "air", "air_offline", 0, "B1")
  /\ RowOf(\h1008) = Row(\h1008, "ups", "ups_offline", 0, "B1")
  /\ RowOf(\h1009) = Row(\h1009, "vcu", "remote_comm_fault", 0, "C1")
  /\ RowOf(\h100A) = Row(\h100A, "tss", "tss_offline", 0, "B1")
  /\ RowOf(\h100B) = Row(\h100B, "gas", "gas_offline", 0, "B1")
  /\ RowOf(\h1018) = Row(\h1018, "gas", "gas_high_alarm", 0, "B1")
  /\ RowOf(\h101E) = Row(\h101E, "smoke", "tss_smoke_alarm", 0, "B1")
  /\ RowOf(\h1036) = Row(\h1036, "air", "compressor_fault", 0, "B1")
  /\ RowOf(\h1054) = Row(\h1054, "ups", "epo_active", 0, "B1")
  /\ RowOf(\h10B9) = Row(\h10B9, "vcu", "sd_card_not_inserted", 0, "B2")
  /\ RowOf(\h10BA) = Row(\h10BA, "pcu", "pcu1_emergency_stop", 1, "B1")
  /\ RowOf(\h10BB) = Row(\h10BB, "pcu", "pcu2_emergency_stop", 2, "B1")
  /\ RowOf(\h2000) = Row(\h2000, "bms1", "bms1_cell_overvoltage_lvl1", 1, "C1")
  /\ RowOf(\h2002) = Row(\h2002, "bms1", "bms1_cell_overvoltage_lvl3", 1, "A1")
  /\ RowOf(\h201E) = Row(\h201E, "bms1", "bms1_soc_jump_alarm", 1, "C2")
  /\ RowOf(\h2102) = Row(\h2102, "bms2", "bms2_cell_overvoltage_lvl3", 2, "A1")
<1>1. RowOf(\h1000) = Row(\h1000, "vcu", "hmi_comm_fault", 0, "B1")
  <2>1. Row(\h1000, "vcu", "hmi_comm_fault", 0, "B1") \in FaultMap
    BY DEF FaultMap
  <2>2. Row(\h1000, "vcu", "hmi_comm_fault", 0, "B1").code = \h1000
    BY DEF Row
  <2> QED
    BY <2>1, <2>2, RowIs
<1>2. RowOf(\h1001) = Row(\h1001, "vcu", "bms1_comm_fault", 0, "B1")
  <2>1. Row(\h1001, "vcu", "bms1_comm_fault", 0, "B1") \in FaultMap
    BY DEF FaultMap
  <2>2. Row(\h1001, "vcu", "bms1_comm_fault", 0, "B1").code = \h1001
    BY DEF Row
  <2> QED
    BY <2>1, <2>2, RowIs
<1>3. RowOf(\h1005) = Row(\h1005, "vcu", "pcu1_comm_fault", 1, "B1")
  <2>1. Row(\h1005, "vcu", "pcu1_comm_fault", 1, "B1") \in FaultMap
    BY DEF FaultMap
  <2>2. Row(\h1005, "vcu", "pcu1_comm_fault", 1, "B1").code = \h1005
    BY DEF Row
  <2> QED
    BY <2>1, <2>2, RowIs
<1>4. RowOf(\h1006) = Row(\h1006, "vcu", "pcu2_comm_fault", 2, "B1")
  <2>1. Row(\h1006, "vcu", "pcu2_comm_fault", 2, "B1") \in FaultMap
    BY DEF FaultMap
  <2>2. Row(\h1006, "vcu", "pcu2_comm_fault", 2, "B1").code = \h1006
    BY DEF Row
  <2> QED
    BY <2>1, <2>2, RowIs
<1>5. RowOf(\h1007) = Row(\h1007, "air", "air_offline", 0, "B1")
  <2>1. Row(\h1007, "air", "air_offline", 0, "B1") \in FaultMap
    BY DEF FaultMap
  <2>2. Row(\h1007, "air", "air_offline", 0, "B1").code = \h1007
    BY DEF Row
  <2> QED
    BY <2>1, <2>2, RowIs
<1>6. RowOf(\h1008) = Row(\h1008, "ups", "ups_offline", 0, "B1")
  <2>1. Row(\h1008, "ups", "ups_offline", 0, "B1") \in FaultMap
    BY DEF FaultMap
  <2>2. Row(\h1008, "ups", "ups_offline", 0, "B1").code = \h1008
    BY DEF Row
  <2> QED
    BY <2>1, <2>2, RowIs
<1>7. RowOf(\h1009) = Row(\h1009, "vcu", "remote_comm_fault", 0, "C1")
  <2>1. Row(\h1009, "vcu", "remote_comm_fault", 0, "C1") \in FaultMap
    BY DEF FaultMap
  <2>2. Row(\h1009, "vcu", "remote_comm_fault", 0, "C1").code = \h1009
    BY DEF Row
  <2> QED
    BY <2>1, <2>2, RowIs
<1>8. RowOf(\h100A) = Row(\h100A, "tss", "tss_offline", 0, "B1")
  <2>1. Row(\h100A, "tss", "tss_offline", 0, "B1") \in FaultMap
    BY DEF FaultMap
  <2>2. Row(\h100A, "tss", "tss_offline", 0, "B1").code = \h100A
    BY DEF Row
  <2> QED
    BY <2>1, <2>2, RowIs
<1>9. RowOf(\h100B) = Row(\h100B, "gas", "gas_offline", 0, "B1")
  <2>1. Row(\h100B, "gas", "gas_offline", 0, "B1") \in FaultMap
    BY DEF FaultMap
  <2>2. Row(\h100B, "gas", "gas_offline", 0, "B1").code = \h100B
    BY DEF Row
  <2> QED
    BY <2>1, <2>2, RowIs
<1>10. RowOf(\h1018) = Row(\h1018, "gas", "gas_high_alarm", 0, "B1")
  <2>1. Row(\h1018, "gas", "gas_high_alarm", 0, "B1") \in FaultMap
    BY DEF FaultMap
  <2>2. Row(\h1018, "gas", "gas_high_alarm", 0, "B1").code = \h1018
    BY DEF Row
  <2> QED
    BY <2>1, <2>2, RowIs
<1>11. RowOf(\h101E) = Row(\h101E, "smoke", "tss_smoke_alarm", 0, "B1")
  <2>1. Row(\h101E, "smoke", "tss_smoke_alarm", 0, "B1") \in FaultMap
    BY DEF FaultMap
  <2>2. Row(\h101E, "smoke", "tss_smoke_alarm", 0, "B1").code = \h101E
    BY DEF Row
  <2> QED
    BY <2>1, <2>2, RowIs
<1>12. RowOf(\h1036) = Row(\h1036, "air", "compressor_fault", 0, "B1")
  <2>1. Row(\h1036, "air", "compressor_fault", 0, "B1") \in FaultMap
    BY DEF FaultMap
  <2>2. Row(\h1036, "air", "compressor_fault", 0, "B1").code = \h1036
    BY DEF Row
  <2> QED
    BY <2>1, <2>2, RowIs
<1>13. RowOf(\h1054) = Row(\h1054, "ups", "epo_active", 0, "B1")
  <2>1. Row(\h1054, "ups", "epo_active", 0, "B1") \in FaultMap
    BY DEF FaultMap
  <2>2. Row(\h1054, "ups", "epo_active", 0, "B1").code = \h1054
    BY DEF Row
  <2> QED
    BY <2>1, <2>2, RowIs
<1>14. RowOf(\h10B9) = Row(\h10B9, "vcu", "sd_card_not_inserted", 0, "B2")
  <2>1. Row(\h10B9, "vcu", "sd_card_not_inserted", 0, "B2") \in FaultMap
    BY DEF FaultMap
  <2>2. Row(\h10B9, "vcu", "sd_card_not_inserted", 0, "B2").code = \h10B9
    BY DEF Row
  <2> QED
    BY <2>1, <2>2, RowIs
<1>15. RowOf(\h10BA) = Row(\h10BA, "pcu", "pcu1_emergency_stop", 1, "B1")
  <2>1. Row(\h10BA, "pcu", "pcu1_emergency_stop", 1, "B1") \in FaultMap
    BY DEF FaultMap
  <2>2. Row(\h10BA, "pcu", "pcu1_emergency_stop", 1, "B1").code = \h10BA
    BY DEF Row
  <2> QED
    BY <2>1, <2>2, RowIs
<1>16. RowOf(\h10BB) = Row(\h10BB, "pcu", "pcu2_emergency_stop", 2, "B1")
  <2>1. Row(\h10BB, "pcu", "pcu2_emergency_stop", 2, "B1") \in FaultMap
    BY DEF FaultMap
  <2>2. Row(\h10BB, "pcu", "pcu2_emergency_stop", 2, "B1").code = \h10BB
    BY DEF Row
  <2> QED
    BY <2>1, <2>2, RowIs
<1>17. RowOf(\h2000) = Row(\h2000, "bms1", "bms1_cell_overvoltage_lvl1", 1, "C1")
  <2>1. Row(\h2000, "bms1", "bms1_cell_overvoltage_lvl1", 1, "C1") \in FaultMap
    BY DEF FaultMap
  <2>2. Row(\h2000, "bms1", "bms1_cell_overvoltage_lvl1", 1, "C1").code = \h2000
    BY DEF Row
  <2> QED
    BY <2>1, <2>2, RowIs
<1>18. RowOf(\h2002) = Row(\h2002, "bms1", "bms1_cell_overvoltage_lvl3", 1, "A1")
  <2>1. Row(\h2002, "bms1", "bms1_cell_overvoltage_lvl3", 1, "A1") \in FaultMap
    BY DEF FaultMap
  <2>2. Row(\h2002, "bms1", "bms1_cell_overvoltage_lvl3", 1, "A1").code = \h2002
    BY DEF Row
  <2> QED
    BY <2>1, <2>2, RowIs
<1>19. RowOf(\h201E) = Row(\h201E, "bms1", "bms1_soc_jump_alarm", 1, "C2")
  <2>1. Row(\h201E, "bms1", "bms1_soc_jump_alarm", 1, "C2") \in FaultMap
    BY DEF FaultMap
  <2>2. Row(\h201E, "bms1", "bms1_soc_jump_alarm", 1, "C2").code = \h201E
    BY DEF Row
  <2> QED
    BY <2>1, <2>2, RowIs
<1>20. RowOf(\h2102) = Row(\h2102, "bms2", "bms2_cell_overvoltage_lvl3", 2, "A1")
  <2>1. Row(\h2102, "bms2", "bms2_cell_overvoltage_lvl3", 2, "A1") \in FaultMap
    BY DEF FaultMap
  <2>2. Row(\h2102, "bms2", "bms2_cell_overvoltage_lvl3", 2, "A1").code = \h2102
    BY DEF Row
  <2> QED
    BY <2>1, <2>2, RowIs
<1> QED
  BY <1>1, <1>2, <1>3, <1>4, <1>5, <1>6, <1>7, <1>8, <1>9, <1>10, <1>11, <1>12, <1>13, <1>14, <1>15, <1>16, <1>17, <1>18, <1>19, <1>20

\* The name of its source every rule is filed under.
LEMMA NormalSources ==
  /\ NormalizeSource("air") = "air"
  /\ NormalizeSource("gas") = "gas"
  /\ NormalizeSource("pcu") = "pcu"
  /\ NormalizeSource("smoke") = "smoke"
  /\ NormalizeSource("tss") = "smoke"
  /\ NormalizeSource("ups") = "ups"
  /\ NormalizeSource("vcu") = "logic"
<1>1. NormalizeSource("air") = "air"
  BY DEF NormalizeSource
<1>2. NormalizeSource("gas") = "gas"
  BY DEF NormalizeSource
<1>3. NormalizeSource("pcu") = "pcu"
  BY DEF NormalizeSource
<1>4. NormalizeSource("smoke") = "smoke"
  BY DEF NormalizeSource
<1>5. NormalizeSource("tss") = "smoke"
  BY DEF NormalizeSource
<1>6. NormalizeSource("ups") = "ups"
  BY DEF NormalizeSource
<1>7. NormalizeSource("vcu") = "logic"
  BY DEF NormalizeSource
<1> QED
  BY <1>1, <1>2, <1>3, <1>4, <1>5, <1>6, <1>7

\* The names under which the rules' signals are read.
LEMMA NormalSignals ==
  /\ NormalizeSignal("hmi_comm_fault") = "hmi_comm_fault"
  /\ NormalizeSignal("bms1_comm_fault") = "bms1_comm_fault"
  /\ NormalizeSignal("pcu1_comm_fault") = "pcu0_offline"
  /\ NormalizeSignal("pcu2_comm_fault") = "pcu1_offline"
  /\ NormalizeSignal("air_offline") = "air_offline"
  /\ NormalizeSignal("ups_offline") = "ups_offline"
  /\ NormalizeSignal("remote_comm_fault") = "remote_comm_fault"
  /\ NormalizeSignal("tss_offline") = "tss_offline"
  /\ NormalizeSignal("gas_offline") = "gas_offline"
  /\ NormalizeSignal("gas_high_alarm") = "gas_high_alarm"
  /\ NormalizeSignal("tss_smoke_alarm") = "tss_smoke_alarm"
  /\ NormalizeSignal("compressor_fault") = "compressor_fault"
  /\ NormalizeSignal("epo_active") = "epo_active"
  /\ NormalizeSignal("sd_card_not_inserted") = "sd_card_not_inserted"
  /\ NormalizeSignal("pcu1_emergency_stop") = "pcu1_emergency_stop"
  /\ NormalizeSignal("pcu2_emergency_stop") = "pcu2_emergency_stop"
<1>1. NormalizeSignal("hmi_comm_fault") = "hmi_comm_fault"
  BY DEF NormalizeSignal
<1>2. NormalizeSignal("bms1_comm_fault") = "bms1_comm_fault"
  BY DEF NormalizeSignal
<1>3. NormalizeSignal("pcu1_comm_fault") = "pcu0_offline"
  BY DEF NormalizeSignal
<1>4. NormalizeSignal("pcu2_comm_fault") = "pcu1_offline"
  BY DEF NormalizeSignal
<1>5. NormalizeSignal("air_offline") = "air_offline"
  BY DEF NormalizeSignal
<1>6. NormalizeSignal("ups_offline") = "ups_offline"
  BY DEF NormalizeSignal
<1>7. NormalizeSignal("remote_comm_fault") = "remote_comm_fault"
  BY DEF NormalizeSignal
<1>8. NormalizeSignal("tss_offline") = "tss_offline"
  BY DEF NormalizeSignal
<1>9. NormalizeSignal("gas_offline") = "gas_offline"
  BY DEF NormalizeSignal
<1>10. NormalizeSignal("gas_high_alarm") = "gas_high_alarm"
  BY DEF NormalizeSignal
<1>11. NormalizeSignal("tss_smoke_alarm") = "tss_smoke_alarm"
  BY DEF NormalizeSignal
<1>12. NormalizeSignal("compressor_fault") = "compressor_fault"
  BY DEF NormalizeSignal
<1>13. NormalizeSignal("epo_active") = "epo_active"
  BY DEF NormalizeSignal
<1>14. NormalizeSignal("sd_card_not_inserted") = "sd_card_not_inserted"
  BY DEF NormalizeSignal
<1>15. NormalizeSignal("pcu1_emergency_stop") = "pcu1_emergency_stop"
  BY DEF NormalizeSignal
<1>16. NormalizeSignal("pcu2_emergency_stop") = "pcu2_emergency_stop"
  BY DEF NormalizeSignal
<1> QED
  BY <1>1, <1>2, <1>3, <1>4, <1>5, <1>6, <1>7, <1>8, <1>9, <1>10, <1>11, <1>12, <1>13, <1>14, <1>15, <1>16

\* Signals that are not one of the numbered ones of a PCU.
LEMMA NoInstances ==
  /\ InstanceFromSignal("hmi_comm_fault") = 0
  /\ InstanceFromSignal("bms1_comm_fault") = 0
  /\ InstanceFromSignal("air_offline") = 0
  /\ InstanceFromSignal("ups_offline") = 0
  /\ InstanceFromSignal("remote_comm_fault") = 0
  /\ InstanceFromSignal("tss_offline") = 0
  /\ InstanceFromSignal("gas_offline") = 0
  /\ InstanceFromSignal("gas_high_alarm") = 0
  /\ InstanceFromSignal("tss_smoke_alarm") = 0
  /\ InstanceFromSignal("compressor_fault") = 0
  /\ InstanceFromSignal("epo_active") = 0
  /\ InstanceFromSignal("sd_card_not_inserted") = 0
<1>1. InstanceFromSignal("hmi_comm_fault") = 0
  BY DEF InstanceFromSignal
<1>2. InstanceFromSignal("bms1_comm_fault") = 0
  BY DEF InstanceFromSignal
<1>3. InstanceFromSignal("air_offline") = 0
  BY DEF InstanceFromSignal
<1>4. InstanceFromSignal("ups_offline") = 0
  BY DEF InstanceFromSignal
<1>5. InstanceFromSignal("remote_comm_fault") = 0
  BY DEF InstanceFromSignal
<1>6. InstanceFromSignal("tss_offline") = 0
  BY DEF InstanceFromSignal
<1>7. InstanceFromSignal("gas_offline") = 0
  BY DEF InstanceFromSignal
<1>8. InstanceFromSignal("gas_high_alarm") = 0
  BY DEF InstanceFromSignal
<1>9. InstanceFromSignal("tss_smoke_alarm") = 0
  BY DEF InstanceFromSignal
<1>10. InstanceFromSignal("compressor_fault") = 0
  BY DEF InstanceFromSignal
<1>11. InstanceFromSignal("epo_active") = 0
  BY DEF InstanceFromSignal
<1>12. InstanceFromSignal("sd_card_not_inserted") = 0
  BY DEF InstanceFromSignal
<1> QED
  BY <1>1, <1>2, <1>3, <1>4, <1>5, <1>6, <1>7, <1>8, <1>9, <1>10, <1>11, <1>12

\* The rules, code by code.
LEMMA RuleTable ==
  /\ Rule(RowOf(\h1000)) = [code |-> \h1000, source |-> "logic", signal |-> "hmi_comm_fault", instance |-> 0]
  /\ Rule(RowOf(\h1001)) = [code |-> \h1001, source |-> "logic", signal |-> "bms1_comm_fault", instance |-> 0]
  /\ Rule(RowOf(\h1005)) = [code |-> \h1005, source |-> "logic", signal |-> "pcu0_offline", instance |-> 1]
  /\ Rule(RowOf(\h1006)) = [code |-> \h1006, source |-> "logic", signal |-> "pcu1_offline", instance |-> 2]
  /\ Rule(RowOf(\h1007)) = [code |-> \h1007, source |-> "air", signal |-> "air_offline", instance |-> 0]
  /\ Rule(RowOf(\h1008)) = [code |-> \h1008, source |-> "ups", signal |-> "ups_offline", instance |-> 0]
  /\ Rule(RowOf(\h1009)) = [code |-> \h1009, source |-> "logic", signal |-> "remote_comm_fault", instance |-> 0]
  /\ Rule(RowOf(\h100A)) = [code |-> \h100A, source |-> "smoke", signal |-> "tss_offline", instance |-> 0]
  /\ Rule(RowOf(\h100B)) = [code |-> \h100B, source |-> "gas", signal |-> "gas_offline", instance |-> 0]
  /\ Rule(RowOf(\h1018)) = [code |-> \h1018, source |-> "gas", signal |-> "gas_high_alarm", instance |-> 0]
  /\ Rule(RowOf(\h101E)) = [code |-> \h101E, source |-> "smoke", signal |-> "tss_smoke_alarm", instance |-> 0]
  /\ Rule(RowOf(\h1036)) = [code |-> \h1036, source |-> "air", signal |-> "compressor_fault", instance |-> 0]
  /\ Rule(RowOf(\h1054)) = [code |-> \h1054, source |-> "ups", signal |-> "epo_active", instance |-> 0]
  /\ Rule(RowOf(\h10B9)) = [code |-> \h10B9, source |-> "logic", signal |-> "sd_card_not_inserted", instance |-> 0]
  /\ Rule(RowOf(\h10BA)) = [code |-> \h10BA, source |-> "pcu", signal |-> "pcu1_emergency_stop", instance |-> 1]
  /\ Rule(RowOf(\h10BB)) = [code |-> \h10BB, source |-> "pcu", signal |-> "pcu2_emergency_stop", instance |-> 2]
<1>1. Rule(RowOf(\h1000)) = [code |-> \h1000, source |-> "logic", signal |-> "hmi_comm_fault", instance |-> 0]
  BY RowTable, NormalSources, NormalSignals, NoInstances DEF Rule, Row
<1>2. Rule(RowOf(\h1001)) = [code |-> \h1001, source |-> "logic", signal |-> "bms1_comm_fault", instance |-> 0]
  BY RowTable, NormalSources, NormalSignals, NoInstances DEF Rule, Row
<1>3. Rule(RowOf(\h1005)) = [code |-> \h1005, source |-> "logic", signal |-> "pcu0_offline", instance |-> 1]
  BY RowTable, NormalSources, NormalSignals, NoInstances DEF Rule, Row
<1>4. Rule(RowOf(\h1006)) = [code |-> \h1006, source |-> "logic", signal |-> "pcu1_offline", instance |-> 2]
  BY RowTable, NormalSources, NormalSignals, NoInstances DEF Rule, Row
<1>5. Rule(RowOf(\h1007)) = [code |-> \h1007, source |-> "air", signal |-> "air_offline", instance |-> 0]
  BY RowTable, NormalSources, NormalSignals, NoInstances DEF Rule, Row
<1>6. Rule(RowOf(\h1008)) = [code |-> \h1008, source |-> "ups", signal |-> "ups_offline", instance |-> 0]
  BY RowTable, NormalSources, NormalSignals, NoInstances DEF Rule, Row
<1>7. Rule(RowOf(\h1009)) = [code |-> \h1009, source |-> "logic", signal |-> "remote_comm_fault", instance |-> 0]
  BY RowTable, NormalSources, NormalSignals, NoInstances DEF Rule, Row
<1>8. Rule(RowOf(\h100A)) = [code |-> \h100A, source |-> "smoke", signal |-> "tss_offline", instance |-> 0]
  BY RowTable, NormalSources, NormalSignals, NoInstances DEF Rule, Row
<1>9. Rule(RowOf(\h100B)) = [code |-> \h100B, source |-> "gas", signal |-> "gas_offline", instance |-> 0]
  BY RowTable, NormalSources, NormalSignals, NoInstances DEF Rule, Row
<1>10. Rule(RowOf(\h1018)) = [code |-> \h1018, source |-> "gas", signal |-> "gas_high_alarm", instance |-> 0]
  BY RowTable, NormalSources, NormalSignals, NoInstances DEF Rule, Row
<1>11. Rule(RowOf(\h101E)) = [code |-> \h101E, source |-> "smoke", signal |-> "tss_smoke_alarm", instance |-> 0]
  BY RowTable, NormalSources, NormalSignals, NoInstances DEF Rule, Row
<1>12. Rule(RowOf(\h1036)) = [code |-> \h1036, source |-> "air", signal |-> "compressor_fault", instance |-> 0]
  BY RowTable, NormalSources, NormalSignals, NoInstances DEF Rule, Row
<1>13. Rule(RowOf(\h1054)) = [code |-> \h1054, source |-> "ups", signal |-> "epo_active", instance |-> 0]
  BY RowTable, NormalSources, NormalSignals, NoInstances DEF Rule, Row
<1>14. Rule(RowOf(\h10B9)) = [code |-> \h10B9, source |-> "logic", signal |-> "sd_card_not_inserted", instance |-> 0]
  BY RowTable, NormalSources, NormalSignals, NoInstances DEF Rule, Row
<1>15. Rule(RowOf(\h10BA)) = [code |-> \h10BA, source |-> "pcu", signal |-> "pcu1_emergency_stop", instance |-> 1]
  BY RowTable, NormalSources, NormalSignals, NoInstances DEF Rule, Row
<1>16. Rule(RowOf(\h10BB)) = [code |-> \h10BB, source |-> "pcu", signal |-> "pcu2_emergency_stop", instance |-> 2]
  BY RowTable, NormalSources, NormalSignals, NoInstances DEF Rule, Row
<1> QED
  BY <1>1, <1>2, <1>3, <1>4, <1>5, <1>6, <1>7, <1>8, <1>9, <1>10, <1>11, <1>12, <1>13, <1>14, <1>15, <1>16

-----------------------------------------------------------------------------
(* The keys the rules are looked up by.                                     *)

\* Short lists of names.
LEMMA ShortList ==
  ASSUME NEW S, NEW x \in S, NEW y \in S
  PROVE  <<>> \in Seq(S) /\ <<x>> \in Seq(S) /\ <<x, y>> \in Seq(S)
OBVIOUS

\* A list keeps its first element when others are appended.
LEMMA FirstKept ==
  ASSUME NEW S, NEW s \in Seq(S), NEW t \in Seq(S), s # <<>>
  PROVE  s \o t \in Seq(S) /\ s \o t # <<>> /\ (s \o t)[1] = s[1]
<1>1. Len(s) \in Nat /\ Len(s) # 0
  BY EmptySeq
<1>2. s \o t \in Seq(S) /\ Len(s \o t) = Len(s) + Len(t) /\ Len(t) \in Nat
  BY ConcatProperties
<1>3. (s \o t)[1] = s[1]
  BY <1>1, ConcatProperties
<1> QED
  BY <1>1, <1>2, <1>3

\* A rule whose first key the engine knows is looked up by it.
LEMMA FirstKnown ==
  ASSUME NEW rule, NEW S, ConfirmedKeys(rule) \in Seq(S), ConfirmedKeys(rule) # <<>>,
         ConfirmedKeys(rule)[1] \in Key
  PROVE  KeyOf(rule) = ConfirmedKeys(rule)[1]
<1> DEFINE keys == ConfirmedKeys(rule)
           known == {i \in DOMAIN keys : keys[i] \in Key}
<1>1. DOMAIN keys = 1 .. Len(keys) /\ Len(keys) \in Nat /\ Len(keys) # 0
  BY EmptySeq
<1>2. 1 \in known /\ \A j \in known : j \in Nat /\ 1 <= j
  BY <1>1
<1>3. KeyOf(rule) = IF known = {} THEN "none" ELSE keys[CHOOSE i \in known : \A j \in known : i <= j]
  BY DEF KeyOf
<1> HIDE DEF keys, known
<1>4. (CHOOSE i \in known : \A j \in known : i <= j) = 1
  BY <1>2
<1> QED
  BY <1>2, <1>3, <1>4 DEF keys

\* A system fault the engine knows is looked up by its own name.
LEMMA LogicKey ==
  ASSUME NEW rule, rule.source = "logic", rule.signal \in Key
  PROVE  KeyOf(rule) = rule.signal
<1> DEFINE s == rule.signal
           a == IF s = "pcu1_offline" THEN <<"pcu0_offline", "pcu1_comm_fault">> ELSE <<>>
           b == IF s = "pcu2_offline" THEN <<"pcu1_offline", "pcu2_comm_fault">> ELSE <<>>
           c == IF s = "ups_offline" THEN <<"ups_comm_fault">> ELSE <<>>
           d == IF s = "tss_offline" THEN <<"tss_comm_fault">> ELSE <<>>
           S == {s, "pcu0_offline", "pcu1_offline", "pcu1_comm_fault", "pcu2_comm_fault",
                 "ups_comm_fault", "tss_comm_fault"}
<1>1. a \in Seq(S) /\ b \in Seq(S) /\ c \in Seq(S) /\ d \in Seq(S)
  <2>1. <<>> \in Seq(S) /\ <<"pcu0_offline", "pcu1_comm_fault">> \in Seq(S)
    BY ShortList
  <2>2. <<"pcu1_offline", "pcu2_comm_fault">> \in Seq(S)
    BY ShortList
  <2>3. <<"ups_comm_fault">> \in Seq(S) /\ <<"tss_comm_fault">> \in Seq(S)
    BY ShortList
  <2> QED
    BY <2>1, <2>2, <2>3
<1>2. <<s>> \in Seq(S) /\ <<s>> # <<>> /\ <<s>>[1] = s
  OBVIOUS
<1>3. ConfirmedKeys(rule) = <<s>> \o a \o b \o c \o d
  BY DEF ConfirmedKeys
<1> HIDE DEF a, b, c, d, s, S
<1>4. <<s>> \o a \in Seq(S) /\ <<s>> \o a # <<>> /\ (<<s>> \o a)[1] = s
  BY <1>1, <1>2, FirstKept
<1>5. <<s>> \o a \o b \in Seq(S) /\ <<s>> \o a \o b # <<>> /\ (<<s>> \o a \o b)[1] = s
  BY <1>1, <1>4, FirstKept
<1>6. <<s>> \o a \o b \o c \in Seq(S) /\ <<s>> \o a \o b \o c # <<>> /\ (<<s>> \o a \o b \o c)[1] = s
  BY <1>1, <1>5, FirstKept
<1>7. <<s>> \o a \o b \o c \o d \in Seq(S) /\ <<s>> \o a \o b \o c \o d # <<>>
      /\ (<<s>> \o a \o b \o c \o d)[1] = s
  BY <1>1, <1>6, FirstKept
<1> QED
  BY <1>3, <1>7, FirstKnown DEF s

\* A system fault the engine does not know has no key, if it stands for no other.
LEMMA LogicNoKey ==
  ASSUME NEW rule, rule.source = "logic", rule.signal = "sd_card_not_inserted", rule.signal \notin Key
  PROVE  KeyOf(rule) = "none"
<1>1. ConfirmedKeys(rule) = <<rule.signal>> \o <<>> \o <<>> \o <<>> \o <<>>
  BY DEF ConfirmedKeys
<1>2. ConfirmedKeys(rule) = <<rule.signal>>
  BY <1>1
<1>3. {i \in DOMAIN ConfirmedKeys(rule) : ConfirmedKeys(rule)[i] \in Key} = {}
  BY <1>2
<1> QED
  BY <1>3 DEF KeyOf

\* The emergency stop of the second PCU is looked up by its own name.
LEMMA EstopKey ==
  ASSUME NEW rule, rule.source = "pcu", rule.instance = 2, rule.signal = "pcu2_emergency_stop",
         "pcu2_emergency_stop" \in Key
  PROVE  KeyOf(rule) = "pcu2_emergency_stop"
<1>1. ConfirmedKeys(rule) = <<>> \o <<"pcu2_emergency_stop", "pcu1_emergency_stop">>
  BY DEF ConfirmedKeys
<1>2. ConfirmedKeys(rule) = <<"pcu2_emergency_stop", "pcu1_emergency_stop">>
  <2>1. <<"pcu2_emergency_stop", "pcu1_emergency_stop">> \in Seq({"pcu1_emergency_stop", "pcu2_emergency_stop"})
    BY ShortList
  <2> QED
    BY <1>1, <2>1, ConcatEmptySeq
<1>3. ConfirmedKeys(rule) \in Seq({"pcu1_emergency_stop", "pcu2_emergency_stop"})
  BY <1>2, ShortList
<1>4. ConfirmedKeys(rule) # <<>> /\ ConfirmedKeys(rule)[1] = "pcu2_emergency_stop"
  BY <1>2
<1> QED
  BY <1>3, <1>4, FirstKnown

\* The keys the engine evaluates.
LEMMA KeyFacts ==
  /\ {"hmi_comm_fault", "bms1_comm_fault", "pcu0_offline", "pcu1_offline", "remote_comm_fault",
      "pcu2_emergency_stop"} \subseteq Key
  /\ "sd_card_not_inserted" \notin Key
<1> DEFINE in == [pcu |-> [p \in 0..1 |-> [online |-> TRUE, estop |-> FALSE]]]
           e == EvaluatePcu(in)
<1>1. DOMAIN e = 1 .. 8
  BY DEF EvaluatePcu
<1>2. /\ e[1].key = "pcu0_offline" /\ e[2].key = "pcu1_offline" /\ e[3].key = "pcu1_comm_fault"
      /\ e[4].key = "pcu2_comm_fault" /\ e[5].key = "pcu0_emergency_stop" /\ e[6].key = "pcu1_emergency_stop"
      /\ e[7].key = "pcu1_emergency_stop" /\ e[8].key = "pcu2_emergency_stop"
  BY DEF EvaluatePcu, Eval
<1>3. Range(e) = {e[i] : i \in DOMAIN e}
  BY DEF Range
<1> HIDE DEF e
<1>4. {x.key : x \in Range(e)} = {e[i].key : i \in 1 .. 8}
  BY <1>1, <1>3
<1>5. Key = {e[i].key : i \in 1 .. 8}
         \cup {"env_any_alarm", "any_fault", "hmi_comm_fault", "remote_comm_fault",
               "aircon_comm_fault", "ups_comm_fault", "tss_comm_fault", "cgs_comm_fault",
               "bms1_comm_fault", "bms2_comm_fault", "bms3_comm_fault", "bms4_comm_fault",
               "sdcard_fault"}
  BY <1>4 DEF Key, e
<1>6. \A i \in 1 .. 8 : i = 1 \/ i = 2 \/ i = 3 \/ i = 4 \/ i = 5 \/ i = 6 \/ i = 7 \/ i = 8
  OBVIOUS
<1>7. \A i \in 1 .. 8 : e[i].key # "sd_card_not_inserted"
  BY <1>2, <1>6
<1> QED
  BY <1>2, <1>5, <1>7

-----------------------------------------------------------------------------
(* What a pass of the condition engine evaluates.                           *)

\* A pass evaluates the PCUs first and the system then.
LEMMA EvaluationsAre ==
  ASSUME NEW in
  PROVE  /\ Len(Evaluations(in)) = 24
         /\ \A i \in 1 .. 8 : Evaluations(in)[i] = EvaluatePcu(in)[i]
         /\ \A i \in 1 .. 16 : Evaluations(in)[8 + i] = EvaluateLogic(in)[i]
<1> DEFINE p == EvaluatePcu(in)
           l == EvaluateLogic(in)
<1>1. DOMAIN p = 1 .. 8 /\ Len(p) = 8
  BY DEF EvaluatePcu
<1>2. DOMAIN l = 1 .. 16 /\ Len(l) = 16
  BY DEF EvaluateLogic
<1>3. Evaluations(in) = p \o l
  BY DEF Evaluations
<1>4. p \in Seq(Range(p) \cup Range(l)) /\ l \in Seq(Range(p) \cup Range(l))
  <2>1. p = [i \in 1 .. 8 |-> p[i]] /\ l = [i \in 1 .. 16 |-> l[i]]
    BY DEF EvaluatePcu, EvaluateLogic
  <2> HIDE DEF p, l
  <2> QED
    BY <1>1, <1>2, <2>1 DEF Range
<1> HIDE DEF p, l
<1>5. /\ Len(p \o l) = Len(p) + Len(l)
      /\ \A i \in 1 .. Len(p) + Len(l) : (p \o l)[i] = IF i <= Len(p) THEN p[i] ELSE l[i - Len(p)]
  BY <1>4, ConcatProperties
<1>6. /\ Len(p \o l) = 8 + 16
      /\ \A i \in 1 .. 8 + 16 : (p \o l)[i] = IF i <= 8 THEN p[i] ELSE l[i - 8]
  BY <1>1, <1>2, <1>5
<1>7. ASSUME NEW i \in 1 .. 8 PROVE (p \o l)[i] = p[i]
  <2>1. i \in 1 .. 8 + 16 /\ i <= 8
    OBVIOUS
  <2> QED
    BY <1>6, <2>1
<1>8. ASSUME NEW i \in 1 .. 16 PROVE (p \o l)[8 + i] = l[i]
  <2>1. 8 + i \in 1 .. 8 + 16 /\ ~(8 + i <= 8) /\ (8 + i) - 8 = i
    OBVIOUS
  <2>2. (p \o l)[8 + i] = l[(8 + i) - 8]
    BY <1>6, <2>1
  <2> QED
    BY <2>1, <2>2
<1>9. Len(p \o l) = 24
  BY <1>6
<1> QED
  BY <1>3, <1>7, <1>8, <1>9 DEF p, l

\* The keys in the order of a pass.
LEMMA EvaluationKeys ==
  ASSUME NEW in
  PROVE  /\ Evaluations(in)[1].key = "pcu0_offline"
         /\ Evaluations(in)[2].key = "pcu1_offline"
         /\ Evaluations(in)[3].key = "pcu1_comm_fault"
         /\ Evaluations(in)[4].key = "pcu2_comm_fault"
         /\ Evaluations(in)[5].key = "pcu0_emergency_stop"
         /\ Evaluations(in)[6].key = "pcu1_emergency_stop"
         /\ Evaluations(in)[7].key = "pcu1_emergency_stop"
         /\ Evaluations(in)[8].key = "pcu2_emergency_stop"
         /\ Evaluations(in)[9].key = "env_any_alarm"
         /\ Evaluations(in)[10].key = "any_fault"
         /\ Evaluations(in)[11].key = "hmi_comm_fault"
         /\ Evaluations(in)[12].key = "remote_comm_fault"
         /\ Evaluations(in)[13].key = "aircon_comm_fault"
         /\ Evaluations(in)[14].key = "ups_comm_fault"
         /\ Evaluations(in)[15].key = "tss_comm_fault"
         /\ Evaluations(in)[16].key = "cgs_comm_fault"
         /\ Evaluations(in)[17].key = "pcu1_comm_fault"
         /\ Evaluations(in)[18].key = "pcu2_comm_fault"
         /\ Evaluations(in)[19].key = "bms1_comm_fault"
         /\ Evaluations(in)[20].key = "bms2_comm_fault"
         /\ Evaluations(in)[21].key = "bms3_comm_fault"
         /\ Evaluations(in)[22].key = "bms4_comm_fault"
         /\ Evaluations(in)[23].key = "remote_comm_fault"
         /\ Evaluations(in)[24].key = "sdcard_fault"
<1>1. \A i \in 1 .. 8 : Evaluations(in)[i] = EvaluatePcu(in)[i]
  BY EvaluationsAre
<1>2. \A i \in 1 .. 16 : Evaluations(in)[8 + i] = EvaluateLogic(in)[i]
  BY EvaluationsAre
<1>3. /\ EvaluatePcu(in)[1].key = "pcu0_offline"
      /\ EvaluatePcu(in)[2].key = "pcu1_offline"
      /\ EvaluatePcu(in)[3].key = "pcu1_comm_fault"
      /\ EvaluatePcu(in)[4].key = "pcu2_comm_fault"
      /\ EvaluatePcu(in)[5].key = "pcu0_emergency_stop"
      /\ EvaluatePcu(in)[6].key = "pcu1_emergency_stop"
      /\ EvaluatePcu(in)[7].key = "pcu1_emergency_stop"
      /\ EvaluatePcu(in)[8].key = "pcu2_emergency_stop"
  BY DEF EvaluatePcu, Eval
<1>4. /\ EvaluateLogic(in)[1].key = "env_any_alarm"
      /\ EvaluateLogic(in)[2].key = "any_fault"
      /\ EvaluateLogic(in)[3].key = "hmi_comm_fault"
      /\ EvaluateLogic(in)[4].key = "remote_comm_fault"
      /\ EvaluateLogic(in)[5].key = "aircon_comm_fault"
      /\ EvaluateLogic(in)[6].key = "ups_comm_fault"
      /\ EvaluateLogic(in)[7].key = "tss_comm_fault"
      /\ EvaluateLogic(in)[8].key = "cgs_comm_fault"
      /\ EvaluateLogic(in)[9].key = "pcu1_comm_fault"
      /\ EvaluateLogic(in)[10].key = "pcu2_comm_fault"
      /\ EvaluateLogic(in)[11].key = "bms1_comm_fault"
      /\ EvaluateLogic(in)[12].key = "bms2_comm_fault"
      /\ EvaluateLogic(in)[13].key = "bms3_comm_fault"
      /\ EvaluateLogic(in)[14].key = "bms4_comm_fault"
      /\ EvaluateLogic(in)[15].key = "remote_comm_fault"
      /\ EvaluateLogic(in)[16].key = "sdcard_fault"
  BY DEF EvaluateLogic, Eval
<1>5. /\ Evaluations(in)[1].key = "pcu0_offline"
      /\ Evaluations(in)[2].key = "pcu1_offline"
      /\ Evaluations(in)[3].key = "pcu1_comm_fault"
      /\ Evaluations(in)[4].key = "pcu2_comm_fault"
      /\ Evaluations(in)[5].key = "pcu0_emergency_stop"
      /\ Evaluations(in)[6].key = "pcu1_emergency_stop"
      /\ Evaluations(in)[7].key = "pcu1_emergency_stop"
      /\ Evaluations(in)[8].key = "pcu2_emergency_stop"
  BY <1>1, <1>3
<1>6. /\ Evaluations(in)[8 + 1].key = "env_any_alarm"
      /\ Evaluations(in)[8 + 2].key = "any_fault"
      /\ Evaluations(in)[8 + 3].key = "hmi_comm_fault"
      /\ Evaluations(in)[8 + 4].key = "remote_comm_fault"
      /\ Evaluations(in)[8 + 5].key = "aircon_comm_fault"
      /\ Evaluations(in)[8 + 6].key = "ups_comm_fault"
      /\ Evaluations(in)[8 + 7].key = "tss_comm_fault"
      /\ Evaluations(in)[8 + 8].key = "cgs_comm_fault"
      /\ Evaluations(in)[8 + 9].key = "pcu1_comm_fault"
      /\ Evaluations(in)[8 + 10].key = "pcu2_comm_fault"
      /\ Evaluations(in)[8 + 11].key = "bms1_comm_fault"
      /\ Evaluations(in)[8 + 12].key = "bms2_comm_fault"
      /\ Evaluations(in)[8 + 13].key = "bms3_comm_fault"
      /\ Evaluations(in)[8 + 14].key = "bms4_comm_fault"
      /\ Evaluations(in)[8 + 15].key = "remote_comm_fault"
      /\ Evaluations(in)[8 + 16].key = "sdcard_fault"
  BY <1>2, <1>4
<1> QED
  BY <1>5, <1>6

\* Evaluation e is made in a pass that reads in, and no other of its key.
Evaluated(e, in) ==
  /\ \E i \in 1 .. 24 : Evaluations(in)[i] = e
  /\ \A i \in 1 .. 24 : Evaluations(in)[i].key = e.key => Evaluations(in)[i] = e

\* What the keys of the fault map are evaluated with.
LEMMA EvaluatedWith ==
  ASSUME NEW in
  PROVE  /\ Evaluated(Eval("pcu0_offline", ~in.pcu[0].online, CommDelay, 0), in)
         /\ Evaluated(Eval("pcu1_offline", ~in.pcu[1].online, CommDelay, 0), in)
         /\ Evaluated(Eval("pcu2_emergency_stop", in.pcu[1].online /\ in.pcu[1].estop, EstopDelay, 0), in)
         /\ Evaluated(Eval("hmi_comm_fault", "hmi_comm_fault" \in in.logic, CommDelay, ClearDelay), in)
         /\ Evaluated(Eval("remote_comm_fault", "remote_comm_fault" \in in.logic, CommDelay, ClearDelay), in)
         /\ Evaluated(Eval("bms1_comm_fault", ~(in.bms[1].seen /\ in.bms[1].online), CommDelay, ClearDelay), in)
<1>0. \A i \in 1 .. 24 : i = 1 \/ i = 2 \/ i = 3 \/ i = 4 \/ i = 5 \/ i = 6 \/ i = 7 \/ i = 8 \/ i = 9 \/ i = 10 \/ i = 11 \/ i = 12 \/ i = 13 \/ i = 14 \/ i = 15 \/ i = 16 \/ i = 17 \/ i = 18 \/ i = 19 \/ i = 20 \/ i = 21 \/ i = 22 \/ i = 23 \/ i = 24
  OBVIOUS
<1>1. Evaluated(Eval("pcu0_offline", ~in.pcu[0].online, CommDelay, 0), in)
  <2> DEFINE e == Eval("pcu0_offline", ~in.pcu[0].online, CommDelay, 0)
  <2>1. e.key = "pcu0_offline"
    BY DEF Eval
  <2>2. Evaluations(in)[1] = e
    <3>1. EvaluatePcu(in)[1] = e
      BY DEF EvaluatePcu, EvaluateLogic, RawPcuOffline, RawPcuEmergencyStop, RawBmsOffline
    <3>5. Evaluations(in)[1] = EvaluatePcu(in)[1]
      BY EvaluationsAre
    <3> QED
      BY <3>1, <3>5
  <2> HIDE DEF e
  <2>3. \A i \in 1 .. 24 : Evaluations(in)[i].key = "pcu0_offline" => i = 1
    BY <1>0, EvaluationKeys
  <2>4. Evaluated(e, in)
    BY <2>1, <2>2, <2>3 DEF Evaluated
  <2> QED
    BY <2>4 DEF e
<1>2. Evaluated(Eval("pcu1_offline", ~in.pcu[1].online, CommDelay, 0), in)
  <2> DEFINE e == Eval("pcu1_offline", ~in.pcu[1].online, CommDelay, 0)
  <2>1. e.key = "pcu1_offline"
    BY DEF Eval
  <2>2. Evaluations(in)[2] = e
    <3>1. EvaluatePcu(in)[2] = e
      BY DEF EvaluatePcu, EvaluateLogic, RawPcuOffline, RawPcuEmergencyStop, RawBmsOffline
    <3>5. Evaluations(in)[2] = EvaluatePcu(in)[2]
      BY EvaluationsAre
    <3> QED
      BY <3>1, <3>5
  <2> HIDE DEF e
  <2>3. \A i \in 1 .. 24 : Evaluations(in)[i].key = "pcu1_offline" => i = 2
    BY <1>0, EvaluationKeys
  <2>4. Evaluated(e, in)
    BY <2>1, <2>2, <2>3 DEF Evaluated
  <2> QED
    BY <2>4 DEF e
<1>3. Evaluated(Eval("pcu2_emergency_stop", in.pcu[1].online /\ in.pcu[1].estop, EstopDelay, 0), in)
  <2> DEFINE e == Eval("pcu2_emergency_stop", in.pcu[1].online /\ in.pcu[1].estop, EstopDelay, 0)
  <2>1. e.key = "pcu2_emergency_stop"
    BY DEF Eval
  <2>2. Evaluations(in)[8] = e
    <3>1. EvaluatePcu(in)[8] = e
      BY DEF EvaluatePcu, EvaluateLogic, RawPcuOffline, RawPcuEmergencyStop, RawBmsOffline
    <3>5. Evaluations(in)[8] = EvaluatePcu(in)[8]
      BY EvaluationsAre
    <3> QED
      BY <3>1, <3>5
  <2> HIDE DEF e
  <2>3. \A i \in 1 .. 24 : Evaluations(in)[i].key = "pcu2_emergency_stop" => i = 8
    BY <1>0, EvaluationKeys
  <2>4. Evaluated(e, in)
    BY <2>1, <2>2, <2>3 DEF Evaluated
  <2> QED
    BY <2>4 DEF e
<1>4. Evaluated(Eval("hmi_comm_fault", "hmi_comm_fault" \in in.logic, CommDelay, ClearDelay), in)
  <2> DEFINE e == Eval("hmi_comm_fault", "hmi_comm_fault" \in in.logic, CommDelay, ClearDelay)
  <2>1. e.key = "hmi_comm_fault"
    BY DEF Eval
  <2>2. Evaluations(in)[11] = e
    <3>1. EvaluateLogic(in)[3] = e
      BY DEF EvaluatePcu, EvaluateLogic, RawPcuOffline, RawPcuEmergencyStop, RawBmsOffline
    <3>5. Evaluations(in)[8 + 3] = EvaluateLogic(in)[3]
      BY EvaluationsAre
    <3> QED
      BY <3>1, <3>5
  <2> HIDE DEF e
  <2>3. \A i \in 1 .. 24 : Evaluations(in)[i].key = "hmi_comm_fault" => i = 11
    BY <1>0, EvaluationKeys
  <2>4. Evaluated(e, in)
    BY <2>1, <2>2, <2>3 DEF Evaluated
  <2> QED
    BY <2>4 DEF e
<1>5. Evaluated(Eval("remote_comm_fault", "remote_comm_fault" \in in.logic, CommDelay, ClearDelay), in)
  <2> DEFINE e == Eval("remote_comm_fault", "remote_comm_fault" \in in.logic, CommDelay, ClearDelay)
  <2>1. e.key = "remote_comm_fault"
    BY DEF Eval
  <2>2. Evaluations(in)[12] = e /\ Evaluations(in)[23] = e
    <3>1. EvaluateLogic(in)[4] = e
      BY DEF EvaluatePcu, EvaluateLogic, RawPcuOffline, RawPcuEmergencyStop, RawBmsOffline
    <3>2. EvaluateLogic(in)[15] = e
      BY DEF EvaluatePcu, EvaluateLogic, RawPcuOffline, RawPcuEmergencyStop, RawBmsOffline
    <3>5. Evaluations(in)[8 + 4] = EvaluateLogic(in)[4]
      BY EvaluationsAre
    <3>6. Evaluations(in)[8 + 15] = EvaluateLogic(in)[15]
      BY EvaluationsAre
    <3> QED
      BY <3>1, <3>5, <3>2, <3>6
  <2> HIDE DEF e
  <2>3. \A i \in 1 .. 24 : Evaluations(in)[i].key = "remote_comm_fault" => i = 12 \/ i = 23
    BY <1>0, EvaluationKeys
  <2>4. Evaluated(e, in)
    BY <2>1, <2>2, <2>3 DEF Evaluated
  <2> QED
    BY <2>4 DEF e
<1>6. Evaluated(Eval("bms1_comm_fault", ~(in.bms[1].seen /\ in.bms[1].online), CommDelay, ClearDelay), in)
  <2> DEFINE e == Eval("bms1_comm_fault", ~(in.bms[1].seen /\ in.bms[1].online), CommDelay, ClearDelay)
  <2>1. e.key = "bms1_comm_fault"
    BY DEF Eval
  <2>2. Evaluations(in)[19] = e
    <3>1. EvaluateLogic(in)[11] = e
      BY DEF EvaluatePcu, EvaluateLogic, RawPcuOffline, RawPcuEmergencyStop, RawBmsOffline
    <3>5. Evaluations(in)[8 + 11] = EvaluateLogic(in)[11]
      BY EvaluationsAre
    <3> QED
      BY <3>1, <3>5
  <2> HIDE DEF e
  <2>3. \A i \in 1 .. 24 : Evaluations(in)[i].key = "bms1_comm_fault" => i = 19
    BY <1>0, EvaluationKeys
  <2>4. Evaluated(e, in)
    BY <2>1, <2>2, <2>3 DEF Evaluated
  <2> QED
    BY <2>4 DEF e
<1> QED
  BY <1>1, <1>2, <1>3, <1>4, <1>5, <1>6

-----------------------------------------------------------------------------
(* The batteries' codes.                                                    *)

\* The batteries' codes of the map, and what they are read from.
LEMMA BmsCodes ==
  /\ \A c \in {\h2000, \h2002, \h201E, \h2102} : IsBmsCode(c)
  /\ \A c \in Code \ {\h2000, \h2002, \h201E, \h2102} : ~IsBmsCode(c)
  /\ BmsInstance(\h2000) = 1 /\ BmsInstance(\h2002) = 1 /\ BmsInstance(\h201E) = 1 /\ BmsInstance(\h2102) = 2
  /\ BmsSignal(\h2000) = <<"cell_overvoltage", 1>>
  /\ BmsSignal(\h2002) = <<"cell_overvoltage", 3>> /\ BmsSignal(\h2102) = <<"cell_overvoltage", 3>>
  /\ BmsSignal(\h201E) = <<"soc_jump_alarm", 0>>
<1>1. \A c \in {\h2000, \h2002, \h201E, \h2102} : IsBmsCode(c)
  BY DEF IsBmsCode
<1>2. \A c \in Code \ {\h2000, \h2002, \h201E, \h2102} : ~IsBmsCode(c)
  <2>1. \A r \in FaultMap : r.code \in {\h2000, \h2002, \h201E, \h2102} \/ r.code < \h2000
    BY DEF FaultMap, Row
  <2>2. \A c \in \h2000 .. \h23FF : ~(c < \h2000)
    OBVIOUS
  <2> QED
    BY <2>1, <2>2 DEF IsBmsCode, Code
<1>3. BmsInstance(\h2000) = 1 /\ BmsInstance(\h2002) = 1 /\ BmsInstance(\h201E) = 1 /\ BmsInstance(\h2102) = 2
  BY DEF BmsInstance
<1>4. /\ BmsSignals[1] = <<"cell_overvoltage", 1>> /\ BmsSignals[3] = <<"cell_overvoltage", 3>>
      /\ BmsSignals[31] = <<"soc_jump_alarm", 0>>
  <2>1. BmsSignals[1] = <<"cell_overvoltage", 1>>
    BY DEF BmsSignals
  <2>2. BmsSignals[3] = <<"cell_overvoltage", 3>>
    BY DEF BmsSignals
  <2>3. BmsSignals[31] = <<"soc_jump_alarm", 0>>
    BY DEF BmsSignals
  <2> QED
    BY <2>1, <2>2, <2>3
<1>5. /\ \h2000 - CodeByInst(1, \h2000) = 0 /\ \h2002 - CodeByInst(1, \h2000) = 2
      /\ \h201E - CodeByInst(1, \h2000) = 30 /\ \h2102 - CodeByInst(2, \h2000) = 2
  BY DEF CodeByInst
<1>6. /\ BmsSignal(\h2000) = BmsSignals[1] /\ BmsSignal(\h2002) = BmsSignals[3]
      /\ BmsSignal(\h201E) = BmsSignals[31] /\ BmsSignal(\h2102) = BmsSignals[3]
  BY <1>3, <1>5 DEF BmsSignal
<1> QED
  BY <1>1, <1>2, <1>3, <1>4, <1>6

\* What a battery's code shows is what its signal names.
LEMMA BmsMeaning ==
  ASSUME NEW c \in {\h2000, \h2002, \h201E, \h2102}, NEW in
  PROVE  BmsConfirmed(in.bms[BmsInstance(c)], BmsSignal(c)) <=> Meant(c, in)
<1> DEFINE x == RowOf(c)
           b == in.bms[x.instance]
<1>1. Meant(c, in) <=> MeantOfBms(x, b)
  <2>1. IsBmsCode(c)
    BY BmsCodes
  <2>2. x.signal \in {"bms1_cell_overvoltage_lvl1", "bms1_cell_overvoltage_lvl3", "bms1_soc_jump_alarm",
                      "bms2_cell_overvoltage_lvl3"}
    BY RowTable DEF Row
  <2>3. DOMAIN OfflineSignal = {"air_offline", "ups_offline", "tss_offline", "gas_offline"}
    BY DEF OfflineSignal
  <2>4. DOMAIN AlarmBit = {"gas_high_alarm", "tss_smoke_alarm", "compressor_fault", "epo_active"}
    BY DEF AlarmBit
  <2> HIDE DEF x
  <2> QED
    BY <2>1, <2>2, <2>3, <2>4 DEF Meant, x
<1>2. CASE c = \h2000
  BY <1>1, <1>2, BmsCodes, RowTable DEF Row, BmsConfirmed, MeantOfBms, BmsLevel3
<1>3. CASE c \in {\h2002, \h2102}
  <2>1. x.signal \notin {"bms1_cell_overvoltage_lvl1", "bms1_soc_jump_alarm"} /\ x.instance = BmsInstance(c)
    BY <1>3, BmsCodes, RowTable DEF Row
  <2>2. BmsSignal(c) = <<"cell_overvoltage", 3>>
    BY <1>3, BmsCodes
  <2> HIDE DEF x, b
  <2>3. MeantOfBms(x, b) <=> b.seen /\ b.online /\ LevelOf(b, "cell_overvoltage") = 3
    BY <2>1 DEF MeantOfBms
  <2>4. BmsConfirmed(b, <<"cell_overvoltage", 3>>) <=> b.seen /\ b.online /\ LevelOf(b, "cell_overvoltage") = 3
    <3>1. "cell_overvoltage" \in BmsLevel3 /\ "cell_overvoltage" \notin BmsLevel2
      BY DEF BmsLevel3, BmsLevel2
    <3> QED
      BY <3>1 DEF BmsConfirmed
  <2> QED
    BY <1>1, <2>1, <2>2, <2>3, <2>4 DEF b
<1>4. CASE c = \h201E
  BY <1>1, <1>4, BmsCodes, RowTable DEF Row, BmsConfirmed, MeantOfBms, BmsLevel3, BmsLevel2, DirectBits
<1> QED
  BY <1>2, <1>3, <1>4

-----------------------------------------------------------------------------
(* What every code of the map stands for, and the times it asks for.        *)

\* The kinds of codes.
BmsCodeSet == {\h2000, \h2002, \h201E, \h2102}
DeviceCodeSet == {\h1007, \h1008, \h100A, \h100B, \h1018, \h101E, \h1036, \h1054}
KeyedCodeSet == {\h1000, \h1001, \h1005, \h1006, \h1009, \h10BB}

\* Every code of the map is of one of these kinds, but the one code whose rule
\* reads the other PCU's signal.
LEMMA CodeKinds == Code \ {\h10BA} = DeviceCodeSet \cup KeyedCodeSet \cup {\h10B9} \cup BmsCodeSet
<1>1. \A r \in FaultMap : r.code = \h10BA \/ r.code \in DeviceCodeSet \cup KeyedCodeSet \cup {\h10B9} \cup BmsCodeSet
  BY DEF FaultMap, Row, DeviceCodeSet, KeyedCodeSet, BmsCodeSet
<1>2. \A c \in DeviceCodeSet \cup KeyedCodeSet \cup {\h10B9} \cup BmsCodeSet : c # \h10BA /\ RowOf(c).code = c
  BY RowTable DEF Row, DeviceCodeSet, KeyedCodeSet, BmsCodeSet
<1>3. \A c \in DeviceCodeSet \cup KeyedCodeSet \cup {\h10B9} \cup BmsCodeSet : RowOf(c) \in FaultMap
  BY RowTable DEF FaultMap, DeviceCodeSet, KeyedCodeSet, BmsCodeSet
<1> QED
  BY <1>1, <1>2, <1>3 DEF Code

\* The signals that stand for a device.
LEMMA SignalNames ==
  /\ DOMAIN OfflineSignal = {"air_offline", "ups_offline", "tss_offline", "gas_offline"}
  /\ DOMAIN AlarmBit = {"gas_high_alarm", "tss_smoke_alarm", "compressor_fault", "epo_active"}
BY DEF OfflineSignal, AlarmBit

\* The times each code asks for.
LEMMA TimesTable ==
  /\ \A c \in BmsCodeSet \cup {\h10B9} : Trigger(c) = 0 /\ Clear(c) = 0
  /\ \A c \in DeviceCodeSet : Trigger(c) = CommDelay
  /\ \A c \in {\h1007, \h1008, \h100A, \h100B} : Clear(c) = 0
  /\ \A c \in {\h1018, \h101E, \h1036, \h1054} : Clear(c) = ClearDelay
  /\ \A c \in {\h1000, \h1001, \h1009} : Trigger(c) = CommDelay /\ Clear(c) = ClearDelay
  /\ \A c \in {\h1005, \h1006} : Trigger(c) = CommDelay /\ Clear(c) = 0
  /\ Trigger(\h10BB) = EstopDelay /\ Clear(\h10BB) = 0
<1>0. /\ \A c \in BmsCodeSet : IsBmsCode(c)
      /\ \A c \in DeviceCodeSet \cup KeyedCodeSet \cup {\h10B9} : ~IsBmsCode(c)
  BY BmsCodes, CodeKinds DEF BmsCodeSet, DeviceCodeSet, KeyedCodeSet
<1>1. \A c \in BmsCodeSet : Trigger(c) = 0 /\ Clear(c) = 0
  <2>1. \A c \in BmsCodeSet : RowOf(c).signal \notin {"pcu1_emergency_stop", "pcu2_emergency_stop"}
    BY RowTable DEF Row, BmsCodeSet
  <2> QED
    BY <1>0, <2>1 DEF Trigger, Clear, AtOnce
<1>2. Trigger(\h10B9) = 0 /\ Clear(\h10B9) = 0
  BY RowTable DEF Trigger, Clear, AtOnce, DropsAtOnce, Row
<1>3. \A c \in DeviceCodeSet \cup {\h1000, \h1001, \h1005, \h1006, \h1009} : Trigger(c) = CommDelay
  <2>1. \A c \in DeviceCodeSet \cup {\h1000, \h1001, \h1005, \h1006, \h1009} :
          RowOf(c).signal \notin {"pcu1_emergency_stop", "pcu2_emergency_stop", "sd_card_not_inserted"}
    BY RowTable DEF Row, DeviceCodeSet
  <2> QED
    BY <1>0, <2>1 DEF Trigger, AtOnce, KeyedCodeSet
<1>4. Trigger(\h10BB) = EstopDelay
  <2>1. RowOf(\h10BB).signal = "pcu2_emergency_stop"
    BY RowTable DEF Row
  <2> QED
    BY <1>0, <2>1 DEF Trigger, AtOnce, KeyedCodeSet
<1>5. \A c \in {\h1007, \h1008, \h100A, \h100B, \h1005, \h1006, \h10BB} : Clear(c) = 0
  <2>1. \A c \in {\h1007, \h1008, \h100A, \h100B, \h1005, \h1006, \h10BB} : RowOf(c).signal \in DropsAtOnce
    BY RowTable DEF Row, DropsAtOnce
  <2> QED
    BY <2>1 DEF Clear
<1>6. \A c \in {\h1018, \h101E, \h1036, \h1054, \h1000, \h1001, \h1009} : Clear(c) = ClearDelay
  <2>1. \A c \in {\h1018, \h101E, \h1036, \h1054, \h1000, \h1001, \h1009} : RowOf(c).signal \notin DropsAtOnce
    BY RowTable DEF Row, DropsAtOnce
  <2> QED
    BY <1>0, <2>1 DEF Clear, DeviceCodeSet, KeyedCodeSet
<1> QED
  BY <1>1, <1>2, <1>3, <1>4, <1>5, <1>6 DEF DeviceCodeSet

\* The batteries' codes and that of the SD card follow their signal at once.
LEMMA AtOnceTable ==
  /\ \A c \in BmsCodeSet \cup {\h10B9} : AtOnce(c)
  /\ \A c \in DeviceCodeSet \cup KeyedCodeSet : ~AtOnce(c)
<1>1. /\ \A c \in BmsCodeSet : IsBmsCode(c)
      /\ \A c \in DeviceCodeSet \cup KeyedCodeSet : ~IsBmsCode(c)
  BY BmsCodes, CodeKinds DEF BmsCodeSet, DeviceCodeSet, KeyedCodeSet
<1>2. RowOf(\h10B9).signal = "sd_card_not_inserted"
  BY RowTable DEF Row
<1>3. \A c \in DeviceCodeSet \cup KeyedCodeSet : RowOf(c).signal # "sd_card_not_inserted"
  BY RowTable DEF Row, DeviceCodeSet, KeyedCodeSet
<1> QED
  BY <1>1, <1>2, <1>3 DEF AtOnce

\* What each code stands for.
LEMMA MeantTable ==
  ASSUME NEW in
  PROVE  /\ Meant(\h1000, in) = ("hmi_comm_fault" \in in.logic)
         /\ Meant(\h1001, in) = (~(in.bms[1].seen /\ in.bms[1].online))
         /\ Meant(\h1005, in) = (~in.pcu[0].online)
         /\ Meant(\h1006, in) = (~in.pcu[1].online)
         /\ Meant(\h1009, in) = ("remote_comm_fault" \in in.logic)
         /\ Meant(\h10BB, in) = (in.pcu[1].online /\ in.pcu[1].estop)
         /\ Meant(\h1007, in) = (~in.dev["air"].online)
         /\ Meant(\h1008, in) = (~in.dev["ups"].online)
         /\ Meant(\h100A, in) = (~in.dev["smoke"].online)
         /\ Meant(\h100B, in) = (~in.dev["gas"].online)
         /\ Meant(\h1018, in) = (in.dev["gas"].online /\ "high_alarm" \in in.dev["gas"].bits)
         /\ Meant(\h101E, in) = (in.dev["smoke"].online /\ "smoke_alarm" \in in.dev["smoke"].bits)
         /\ Meant(\h1036, in) = (in.dev["air"].online /\ "compressor_fault" \in in.dev["air"].bits)
         /\ Meant(\h1054, in) = (in.dev["ups"].online /\ "epo_active" \in in.dev["ups"].bits)
         /\ (Meant(\h10B9, in) <=> "sd_card_not_inserted" \in in.logic)
<1>0. \A c \in DeviceCodeSet \cup KeyedCodeSet \cup {\h10B9} : ~IsBmsCode(c)
  BY BmsCodes, CodeKinds DEF BmsCodeSet, DeviceCodeSet, KeyedCodeSet
<1>1. Meant(\h1000, in) = ("hmi_comm_fault" \in in.logic)
  BY <1>0, RowTable, SignalNames, NormalSources DEF Meant, Row, DeviceCodeSet, KeyedCodeSet
<1>2. Meant(\h1001, in) = (~(in.bms[1].seen /\ in.bms[1].online))
  BY <1>0, RowTable, SignalNames, NormalSources DEF Meant, Row, DeviceCodeSet, KeyedCodeSet
<1>3. Meant(\h1005, in) = (~in.pcu[0].online)
  BY <1>0, RowTable, SignalNames, NormalSources DEF Meant, Row, DeviceCodeSet, KeyedCodeSet
<1>4. Meant(\h1006, in) = (~in.pcu[1].online)
  BY <1>0, RowTable, SignalNames, NormalSources DEF Meant, Row, DeviceCodeSet, KeyedCodeSet
<1>5. Meant(\h1009, in) = ("remote_comm_fault" \in in.logic)
  BY <1>0, RowTable, SignalNames, NormalSources DEF Meant, Row, DeviceCodeSet, KeyedCodeSet
<1>6. Meant(\h10BB, in) = (in.pcu[1].online /\ in.pcu[1].estop)
  BY <1>0, RowTable, SignalNames, NormalSources DEF Meant, Row, DeviceCodeSet, KeyedCodeSet
<1>7. Meant(\h1007, in) = (~in.dev["air"].online)
  BY <1>0, RowTable, SignalNames, NormalSources DEF Meant, Row, DeviceCodeSet, KeyedCodeSet, OfflineSignal
<1>8. Meant(\h1008, in) = (~in.dev["ups"].online)
  BY <1>0, RowTable, SignalNames, NormalSources DEF Meant, Row, DeviceCodeSet, KeyedCodeSet, OfflineSignal
<1>9. Meant(\h100A, in) = (~in.dev["smoke"].online)
  BY <1>0, RowTable, SignalNames, NormalSources DEF Meant, Row, DeviceCodeSet, KeyedCodeSet, OfflineSignal
<1>10. Meant(\h100B, in) = (~in.dev["gas"].online)
  BY <1>0, RowTable, SignalNames, NormalSources DEF Meant, Row, DeviceCodeSet, KeyedCodeSet, OfflineSignal
<1>11. Meant(\h1018, in) = (in.dev["gas"].online /\ "high_alarm" \in in.dev["gas"].bits)
  BY <1>0, RowTable, SignalNames, NormalSources DEF Meant, Row, DeviceCodeSet, KeyedCodeSet, MeantOfDevice, AlarmBit, OfflineSignal
<1>12. Meant(\h101E, in) = (in.dev["smoke"].online /\ "smoke_alarm" \in in.dev["smoke"].bits)
  BY <1>0, RowTable, SignalNames, NormalSources DEF Meant, Row, DeviceCodeSet, KeyedCodeSet, MeantOfDevice, AlarmBit, OfflineSignal
<1>13. Meant(\h1036, in) = (in.dev["air"].online /\ "compressor_fault" \in in.dev["air"].bits)
  BY <1>0, RowTable, SignalNames, NormalSources DEF Meant, Row, DeviceCodeSet, KeyedCodeSet, MeantOfDevice, AlarmBit, OfflineSignal
<1>14. Meant(\h1054, in) = (in.dev["ups"].online /\ "epo_active" \in in.dev["ups"].bits)
  BY <1>0, RowTable, SignalNames, NormalSources DEF Meant, Row, DeviceCodeSet, KeyedCodeSet, MeantOfDevice, AlarmBit, OfflineSignal
<1>15. (Meant(\h10B9, in) <=> "sd_card_not_inserted" \in in.logic)
  BY <1>0, RowTable, SignalNames, NormalSources DEF Meant, Row, DeviceCodeSet, KeyedCodeSet
<1> QED
  BY <1>1, <1>2, <1>3, <1>4, <1>5, <1>6, <1>7, <1>8, <1>9, <1>10, <1>11, <1>12, <1>13, <1>14, <1>15

-----------------------------------------------------------------------------
(* The rules are right: they read what the signal of their code names.      *)

\* A device's code is debounced: its raw value is what its signal names, and
\* its policy is the time the signal asks for.
DeviceRuleRight(c, in) ==
  LET r == Rule(RowOf(c))
  IN  /\ IsRuntimeDebounceSource(r.source)
      /\ EvalDevice(r.source, in.dev[r.source], r.signal, BitsOf(r.source, r.signal)) = Meant(c, in)
      /\ Meant(c, in) \in BOOLEAN
      /\ Policy(r).trigger = Trigger(c) /\ Policy(r).clear = Clear(c)

\* The devices' rules are right.
LEMMA DeviceMeaning ==
  ASSUME NEW c \in DeviceCodeSet, NEW in
  PROVE  DeviceRuleRight(c, in)
<1>1. CASE c = \h1007
  <2> DEFINE r == Rule(RowOf(c))
  <2>1. r.source = "air" /\ r.signal = "air_offline"
    BY <1>1, RuleTable
  <2> HIDE DEF r
  <2>2. "air_offline" \in OfflineNames("air") /\ "air_offline" \notin OnlineNames("air")
    BY DEF OfflineNames, OnlineNames
  <2>3. \A x, bits : EvalDevice("air", x, "air_offline", bits) = ~x.online
    BY <2>2 DEF EvalDevice
  <2>4. Meant(c, in) = (~in.dev["air"].online)
    BY <1>1, MeantTable
  <2>5. Policy(r).trigger = CommDelay /\ Policy(r).clear = 0
    BY <2>1, <2>2 DEF Policy
  <2>6. Trigger(c) = CommDelay /\ Clear(c) = 0
    BY <1>1, TimesTable
  <2> QED
    BY <2>1, <2>3, <2>4, <2>5, <2>6 DEF DeviceRuleRight, IsRuntimeDebounceSource, r
<1>2. CASE c = \h1008
  <2> DEFINE r == Rule(RowOf(c))
  <2>1. r.source = "ups" /\ r.signal = "ups_offline"
    BY <1>2, RuleTable
  <2> HIDE DEF r
  <2>2. "ups_offline" \in OfflineNames("ups") /\ "ups_offline" \notin OnlineNames("ups")
    BY DEF OfflineNames, OnlineNames
  <2>3. \A x, bits : EvalDevice("ups", x, "ups_offline", bits) = ~x.online
    BY <2>2 DEF EvalDevice
  <2>4. Meant(c, in) = (~in.dev["ups"].online)
    BY <1>2, MeantTable
  <2>5. Policy(r).trigger = CommDelay /\ Policy(r).clear = 0
    BY <2>1, <2>2 DEF Policy
  <2>6. Trigger(c) = CommDelay /\ Clear(c) = 0
    BY <1>2, TimesTable
  <2> QED
    BY <2>1, <2>3, <2>4, <2>5, <2>6 DEF DeviceRuleRight, IsRuntimeDebounceSource, r
<1>3. CASE c = \h100A
  <2> DEFINE r == Rule(RowOf(c))
  <2>1. r.source = "smoke" /\ r.signal = "tss_offline"
    BY <1>3, RuleTable
  <2> HIDE DEF r
  <2>2. "tss_offline" \in OfflineNames("smoke") /\ "tss_offline" \notin OnlineNames("smoke")
    BY DEF OfflineNames, OnlineNames
  <2>3. \A x, bits : EvalDevice("smoke", x, "tss_offline", bits) = ~x.online
    BY <2>2 DEF EvalDevice
  <2>4. Meant(c, in) = (~in.dev["smoke"].online)
    BY <1>3, MeantTable
  <2>5. Policy(r).trigger = CommDelay /\ Policy(r).clear = 0
    BY <2>1, <2>2 DEF Policy
  <2>6. Trigger(c) = CommDelay /\ Clear(c) = 0
    BY <1>3, TimesTable
  <2> QED
    BY <2>1, <2>3, <2>4, <2>5, <2>6 DEF DeviceRuleRight, IsRuntimeDebounceSource, r
<1>4. CASE c = \h100B
  <2> DEFINE r == Rule(RowOf(c))
  <2>1. r.source = "gas" /\ r.signal = "gas_offline"
    BY <1>4, RuleTable
  <2> HIDE DEF r
  <2>2. "gas_offline" \in OfflineNames("gas") /\ "gas_offline" \notin OnlineNames("gas")
    BY DEF OfflineNames, OnlineNames
  <2>3. \A x, bits : EvalDevice("gas", x, "gas_offline", bits) = ~x.online
    BY <2>2 DEF EvalDevice
  <2>4. Meant(c, in) = (~in.dev["gas"].online)
    BY <1>4, MeantTable
  <2>5. Policy(r).trigger = CommDelay /\ Policy(r).clear = 0
    BY <2>1, <2>2 DEF Policy
  <2>6. Trigger(c) = CommDelay /\ Clear(c) = 0
    BY <1>4, TimesTable
  <2> QED
    BY <2>1, <2>3, <2>4, <2>5, <2>6 DEF DeviceRuleRight, IsRuntimeDebounceSource, r
<1>5. CASE c = \h1018
  <2> DEFINE r == Rule(RowOf(c))
  <2>1. r.source = "gas" /\ r.signal = "gas_high_alarm"
    BY <1>5, RuleTable
  <2> HIDE DEF r
  <2>2. "gas_high_alarm" \notin OfflineNames("gas") /\ "gas_high_alarm" \notin OnlineNames("gas")
    BY DEF OfflineNames, OnlineNames
  <2>3. \A x, bits : EvalDevice("gas", x, "gas_high_alarm", bits) = (x.online /\ bits \cap x.bits # {})
    BY <2>2 DEF EvalDevice
  <2>4. BitsOf("gas", "gas_high_alarm") = {"high_alarm"}
    BY DEF BitsOf, GasBits
  <2>5. Meant(c, in) = (in.dev["gas"].online /\ "high_alarm" \in in.dev["gas"].bits)
    BY <1>5, MeantTable
  <2>6. Policy(r).trigger = CommDelay /\ Policy(r).clear = ClearDelay
    BY <2>1, <2>2 DEF Policy
  <2>7. Trigger(c) = CommDelay /\ Clear(c) = ClearDelay
    BY <1>5, TimesTable
  <2>8. EvalDevice("gas", in.dev["gas"], "gas_high_alarm", {"high_alarm"}) = Meant(c, in)
    BY <2>3, <2>5
  <2> QED
    BY <2>1, <2>4, <2>5, <2>6, <2>7, <2>8 DEF DeviceRuleRight, IsRuntimeDebounceSource, r
<1>6. CASE c = \h101E
  <2> DEFINE r == Rule(RowOf(c))
  <2>1. r.source = "smoke" /\ r.signal = "tss_smoke_alarm"
    BY <1>6, RuleTable
  <2> HIDE DEF r
  <2>2. "tss_smoke_alarm" \notin OfflineNames("smoke") /\ "tss_smoke_alarm" \notin OnlineNames("smoke")
    BY DEF OfflineNames, OnlineNames
  <2>3. \A x, bits : EvalDevice("smoke", x, "tss_smoke_alarm", bits) = (x.online /\ bits \cap x.bits # {})
    BY <2>2 DEF EvalDevice
  <2>4. BitsOf("smoke", "tss_smoke_alarm") = {"smoke_alarm"}
    BY DEF BitsOf, SmokeBits
  <2>5. Meant(c, in) = (in.dev["smoke"].online /\ "smoke_alarm" \in in.dev["smoke"].bits)
    BY <1>6, MeantTable
  <2>6. Policy(r).trigger = CommDelay /\ Policy(r).clear = ClearDelay
    BY <2>1, <2>2 DEF Policy
  <2>7. Trigger(c) = CommDelay /\ Clear(c) = ClearDelay
    BY <1>6, TimesTable
  <2>8. EvalDevice("smoke", in.dev["smoke"], "tss_smoke_alarm", {"smoke_alarm"}) = Meant(c, in)
    BY <2>3, <2>5
  <2> QED
    BY <2>1, <2>4, <2>5, <2>6, <2>7, <2>8 DEF DeviceRuleRight, IsRuntimeDebounceSource, r
<1>7. CASE c = \h1036
  <2> DEFINE r == Rule(RowOf(c))
  <2>1. r.source = "air" /\ r.signal = "compressor_fault"
    BY <1>7, RuleTable
  <2> HIDE DEF r
  <2>2. "compressor_fault" \notin OfflineNames("air") /\ "compressor_fault" \notin OnlineNames("air")
    BY DEF OfflineNames, OnlineNames
  <2>3. \A x, bits : EvalDevice("air", x, "compressor_fault", bits) = (x.online /\ bits \cap x.bits # {})
    BY <2>2 DEF EvalDevice
  <2>4. BitsOf("air", "compressor_fault") = {"compressor_fault"}
    BY DEF BitsOf, AirBits
  <2>5. Meant(c, in) = (in.dev["air"].online /\ "compressor_fault" \in in.dev["air"].bits)
    BY <1>7, MeantTable
  <2>6. Policy(r).trigger = CommDelay /\ Policy(r).clear = ClearDelay
    BY <2>1, <2>2 DEF Policy
  <2>7. Trigger(c) = CommDelay /\ Clear(c) = ClearDelay
    BY <1>7, TimesTable
  <2>8. EvalDevice("air", in.dev["air"], "compressor_fault", {"compressor_fault"}) = Meant(c, in)
    BY <2>3, <2>5
  <2> QED
    BY <2>1, <2>4, <2>5, <2>6, <2>7, <2>8 DEF DeviceRuleRight, IsRuntimeDebounceSource, r
<1>8. CASE c = \h1054
  <2> DEFINE r == Rule(RowOf(c))
  <2>1. r.source = "ups" /\ r.signal = "epo_active"
    BY <1>8, RuleTable
  <2> HIDE DEF r
  <2>2. "epo_active" \notin OfflineNames("ups") /\ "epo_active" \notin OnlineNames("ups")
    BY DEF OfflineNames, OnlineNames
  <2>3. \A x, bits : EvalDevice("ups", x, "epo_active", bits) = (x.online /\ bits \cap x.bits # {})
    BY <2>2 DEF EvalDevice
  <2>4. BitsOf("ups", "epo_active") = {"epo_active"}
    BY DEF BitsOf, UpsBits
  <2>5. Meant(c, in) = (in.dev["ups"].online /\ "epo_active" \in in.dev["ups"].bits)
    BY <1>8, MeantTable
  <2>6. Policy(r).trigger = CommDelay /\ Policy(r).clear = ClearDelay
    BY <2>1, <2>2 DEF Policy
  <2>7. Trigger(c) = CommDelay /\ Clear(c) = ClearDelay
    BY <1>8, TimesTable
  <2>8. EvalDevice("ups", in.dev["ups"], "epo_active", {"epo_active"}) = Meant(c, in)
    BY <2>3, <2>5
  <2> QED
    BY <2>1, <2>4, <2>5, <2>6, <2>7, <2>8 DEF DeviceRuleRight, IsRuntimeDebounceSource, r
<1> QED
  BY <1>1, <1>2, <1>3, <1>4, <1>5, <1>6, <1>7, <1>8 DEF DeviceCodeSet

\* A code of the condition engine has a key, and the evaluations of that key
\* are all of what its signal names, with the times it asks for.
KeyedRuleRight(c, in) ==
  LET r == Rule(RowOf(c))
  IN  /\ r.source \in {"pcu", "logic"} /\ KeyOf(r) # "none"
      /\ Evaluated(Eval(KeyOf(r), Meant(c, in), Trigger(c), Clear(c)), in)
      /\ Meant(c, in) \in BOOLEAN

\* The rules that are looked up in the condition engine are right.
LEMMA KeyedMeaning ==
  ASSUME NEW c \in KeyedCodeSet, NEW in
  PROVE  KeyedRuleRight(c, in)
<1>1. CASE c = \h1000
  <2> DEFINE r == Rule(RowOf(c))
  <2>1. r.source = "logic" /\ r.signal = "hmi_comm_fault"
    BY <1>1, RuleTable
  <2> HIDE DEF r
  <2>2. KeyOf(r) = "hmi_comm_fault"
    BY <2>1, KeyFacts, LogicKey
  <2>3. Meant(c, in) = ("hmi_comm_fault" \in in.logic) /\ Trigger(c) = CommDelay /\ Clear(c) = ClearDelay
    BY <1>1, MeantTable, TimesTable
  <2>4. Evaluated(Eval("hmi_comm_fault", "hmi_comm_fault" \in in.logic, CommDelay, ClearDelay), in)
    BY EvaluatedWith
  <2>5. Evaluated(Eval(KeyOf(r), Meant(c, in), Trigger(c), Clear(c)), in)
    BY <2>2, <2>3, <2>4
  <2> QED
    BY <2>1, <2>2, <2>3, <2>5 DEF KeyedRuleRight, r
<1>2. CASE c = \h1001
  <2> DEFINE r == Rule(RowOf(c))
  <2>1. r.source = "logic" /\ r.signal = "bms1_comm_fault"
    BY <1>2, RuleTable
  <2> HIDE DEF r
  <2>2. KeyOf(r) = "bms1_comm_fault"
    BY <2>1, KeyFacts, LogicKey
  <2>3. Meant(c, in) = (~(in.bms[1].seen /\ in.bms[1].online)) /\ Trigger(c) = CommDelay /\ Clear(c) = ClearDelay
    BY <1>2, MeantTable, TimesTable
  <2>4. Evaluated(Eval("bms1_comm_fault", ~(in.bms[1].seen /\ in.bms[1].online), CommDelay, ClearDelay), in)
    BY EvaluatedWith
  <2>5. Evaluated(Eval(KeyOf(r), Meant(c, in), Trigger(c), Clear(c)), in)
    BY <2>2, <2>3, <2>4
  <2> QED
    BY <2>1, <2>2, <2>3, <2>5 DEF KeyedRuleRight, r
<1>3. CASE c = \h1005
  <2> DEFINE r == Rule(RowOf(c))
  <2>1. r.source = "logic" /\ r.signal = "pcu0_offline"
    BY <1>3, RuleTable
  <2> HIDE DEF r
  <2>2. KeyOf(r) = "pcu0_offline"
    BY <2>1, KeyFacts, LogicKey
  <2>3. Meant(c, in) = (~in.pcu[0].online) /\ Trigger(c) = CommDelay /\ Clear(c) = 0
    BY <1>3, MeantTable, TimesTable
  <2>4. Evaluated(Eval("pcu0_offline", ~in.pcu[0].online, CommDelay, 0), in)
    BY EvaluatedWith
  <2>5. Evaluated(Eval(KeyOf(r), Meant(c, in), Trigger(c), Clear(c)), in)
    BY <2>2, <2>3, <2>4
  <2> QED
    BY <2>1, <2>2, <2>3, <2>5 DEF KeyedRuleRight, r
<1>4. CASE c = \h1006
  <2> DEFINE r == Rule(RowOf(c))
  <2>1. r.source = "logic" /\ r.signal = "pcu1_offline"
    BY <1>4, RuleTable
  <2> HIDE DEF r
  <2>2. KeyOf(r) = "pcu1_offline"
    BY <2>1, KeyFacts, LogicKey
  <2>3. Meant(c, in) = (~in.pcu[1].online) /\ Trigger(c) = CommDelay /\ Clear(c) = 0
    BY <1>4, MeantTable, TimesTable
  <2>4. Evaluated(Eval("pcu1_offline", ~in.pcu[1].online, CommDelay, 0), in)
    BY EvaluatedWith
  <2>5. Evaluated(Eval(KeyOf(r), Meant(c, in), Trigger(c), Clear(c)), in)
    BY <2>2, <2>3, <2>4
  <2> QED
    BY <2>1, <2>2, <2>3, <2>5 DEF KeyedRuleRight, r
<1>5. CASE c = \h1009
  <2> DEFINE r == Rule(RowOf(c))
  <2>1. r.source = "logic" /\ r.signal = "remote_comm_fault"
    BY <1>5, RuleTable
  <2> HIDE DEF r
  <2>2. KeyOf(r) = "remote_comm_fault"
    BY <2>1, KeyFacts, LogicKey
  <2>3. Meant(c, in) = ("remote_comm_fault" \in in.logic) /\ Trigger(c) = CommDelay /\ Clear(c) = ClearDelay
    BY <1>5, MeantTable, TimesTable
  <2>4. Evaluated(Eval("remote_comm_fault", "remote_comm_fault" \in in.logic, CommDelay, ClearDelay), in)
    BY EvaluatedWith
  <2>5. Evaluated(Eval(KeyOf(r), Meant(c, in), Trigger(c), Clear(c)), in)
    BY <2>2, <2>3, <2>4
  <2> QED
    BY <2>1, <2>2, <2>3, <2>5 DEF KeyedRuleRight, r
<1>6. CASE c = \h10BB
  <2> DEFINE r == Rule(RowOf(c))
  <2>1. r.source = "pcu" /\ r.signal = "pcu2_emergency_stop" /\ r.instance = 2
    BY <1>6, RuleTable
  <2> HIDE DEF r
  <2>2. KeyOf(r) = "pcu2_emergency_stop"
    BY <2>1, KeyFacts, EstopKey
  <2>3. Meant(c, in) = (in.pcu[1].online /\ in.pcu[1].estop) /\ Trigger(c) = EstopDelay /\ Clear(c) = 0
    BY <1>6, MeantTable, TimesTable
  <2>4. Evaluated(Eval("pcu2_emergency_stop", in.pcu[1].online /\ in.pcu[1].estop, EstopDelay, 0), in)
    BY EvaluatedWith
  <2>5. Evaluated(Eval(KeyOf(r), Meant(c, in), Trigger(c), Clear(c)), in)
    BY <2>2, <2>3, <2>4
  <2> QED
    BY <2>1, <2>2, <2>3, <2>5 DEF KeyedRuleRight, r
<1> QED
  BY <1>1, <1>2, <1>3, <1>4, <1>5, <1>6 DEF KeyedCodeSet

\* The remaining codes are neither debounced nor looked up: what the mapper
\* finds is what their signal names, at once.
PlainRuleRight(c, in) ==
  LET r == Rule(RowOf(c))
  IN  /\ ~IsRuntimeDebounceSource(r.source)
      /\ ~(r.source \in {"pcu", "logic"} /\ KeyOf(r) # "none")
      /\ (IF IsBmsCode(c) THEN BmsConfirmed(in.bms[BmsInstance(c)], BmsSignal(c)) ELSE EvalFallback(r, in))
           <=> Meant(c, in)
      /\ Trigger(c) = 0 /\ Clear(c) = 0

\* The batteries' rules are right, and that of the SD card.
LEMMA PlainMeaning ==
  ASSUME NEW c \in BmsCodeSet \cup {\h10B9}, NEW in \in Readings
  PROVE  PlainRuleRight(c, in)
<1>1. CASE c \in BmsCodeSet
  <2> DEFINE r == Rule(RowOf(c))
  <2>1. RowOf(c).source \in {"bms1", "bms2"}
    BY <1>1, RowTable DEF BmsCodeSet, Row
  <2>2. NormalizeSource("bms1") = "bms1" /\ NormalizeSource("bms2") = "bms2"
    BY DEF NormalizeSource
  <2>3. r.source \in {"bms1", "bms2"}
    BY <2>1, <2>2 DEF Rule
  <2>4. IsBmsCode(c) /\ Trigger(c) = 0 /\ Clear(c) = 0
    BY <1>1, BmsCodes, TimesTable DEF BmsCodeSet
  <2>5. BmsConfirmed(in.bms[BmsInstance(c)], BmsSignal(c)) <=> Meant(c, in)
    BY <1>1, BmsMeaning DEF BmsCodeSet
  <2> HIDE DEF r
  <2> QED
    BY <2>3, <2>4, <2>5 DEF PlainRuleRight, IsRuntimeDebounceSource, r
<1>2. CASE c = \h10B9
  <2> DEFINE r == Rule(RowOf(c))
  <2>1. r.source = "logic" /\ r.signal = "sd_card_not_inserted"
    BY <1>2, RuleTable
  <2> HIDE DEF r
  <2>2. KeyOf(r) = "none"
    BY <2>1, KeyFacts, LogicNoKey
  <2>3. ~IsBmsCode(c)
    BY <1>2, BmsCodes, CodeKinds DEF BmsCodeSet
  <2>4. Trigger(c) = 0 /\ Clear(c) = 0
    BY <1>2, TimesTable
  <2>5. Meant(c, in) <=> "sd_card_not_inserted" \in in.logic
    BY <1>2, MeantTable
  <2>6. "sd_card_not_inserted" \notin in.logic
    BY ReadingsAssumption DEF LogicFaults
  <2>7. ~Meant(c, in)
    BY <2>5, <2>6
  <2>8. ~EvalFallback(r, in)
    BY <2>1 DEF EvalFallback, EvalLogicSignal, LogicFaults
  <2> QED
    BY <2>1, <2>2, <2>3, <2>4, <2>7, <2>8 DEF PlainRuleRight, IsRuntimeDebounceSource, r
<1> QED
  BY <1>1, <1>2

-----------------------------------------------------------------------------
(* A pass of the condition engine, evaluation by evaluation.                *)

\* One evaluation of a pass.
Upd(st, e) == UpdateWithClear(st, e.raw, ~e.raw, e.trigger, e.clear)
Turn(f, base, evals, n) ==
  IF n = 0 THEN base
  ELSE IF n \notin DOMAIN evals THEN f[n - 1]
  ELSE [f[n - 1] EXCEPT ![evals[n].key] = Upd(@, evals[n])]

Turns(f, base, evals, m) == \A n \in 0 .. m : f[n] = Turn(f, base, evals, n)

\* A pass can be carried out as far as any place.
LEMMA TurnsExist ==
  ASSUME NEW base, NEW evals
  PROVE  \A m \in Nat : \E f : Turns(f, base, evals, m)
<1> DEFINE Bad == {m \in Nat : ~ \E f : Turns(f, base, evals, m)}
<1> SUFFICES ASSUME Bad # {} PROVE FALSE
  OBVIOUS
<1>1. PICK m \in Bad : \A k \in Bad : ~(<<k, m>> \in OpToRel(<, Nat))
  BY NatLessThanWellFounded, WFMin
<1>0. m \in Nat
  BY <1>1
<1>2. \A k \in Nat : k < m => k \notin Bad
  BY <1>1 DEF OpToRel
<1>3. CASE m = 0
  <2>1. Turns([n \in {0} |-> base], base, evals, 0)
    BY DEF Turns, Turn
  <2> QED
    BY <1>1, <1>3, <2>1
<1>4. CASE m # 0
  <2>1. m - 1 \in Nat /\ m - 1 < m
    BY <1>0, <1>4
  <2>2. PICK g : Turns(g, base, evals, m - 1)
    BY <1>2, <2>1
  <2> DEFINE h == [n \in 0 .. m |-> IF n < m THEN g[n] ELSE Turn(g, base, evals, m)]
  <2>3. \A n \in 0 .. m - 1 : h[n] = g[n]
    BY <1>0
  <2>4. h[m] = Turn(g, base, evals, m)
    BY <1>0
  <2> HIDE DEF h
  <2>5. ASSUME NEW n \in 0 .. m PROVE Turn(h, base, evals, n) = Turn(g, base, evals, n)
    <3>1. CASE n = 0
      BY <3>1 DEF Turn
    <3>2. CASE n # 0
      <4>1. n - 1 \in 0 .. m - 1
        BY <1>0, <3>2
      <4>2. h[n - 1] = g[n - 1]
        BY <2>3, <4>1
      <4> QED
        BY <3>2, <4>2 DEF Turn
    <3> QED
      BY <3>1, <3>2
  <2>6. ASSUME NEW n \in 0 .. m PROVE h[n] = Turn(h, base, evals, n)
    <3>1. CASE n \in 0 .. m - 1
      BY <2>2, <2>3, <2>5, <3>1 DEF Turns
    <3>2. CASE n = m
      BY <2>4, <2>5, <3>2
    <3> QED
      BY <1>0, <3>1, <3>2
  <2>7. Turns(h, base, evals, m)
    BY <2>6 DEF Turns
  <2> QED
    BY <1>1, <2>7
<1> QED
  BY <1>3, <1>4

\* EvaluateAll carries out the pass.
LEMMA EvaluateAllTurns ==
  ASSUME NEW evals, NEW d
  PROVE  \E f : /\ EvaluateAll(evals, d) = f[24]
                /\ Turns(f, [k \in KeysRead |-> AgeCondition(cond[k], d)], evals, 24)
<1> DEFINE base == [k \in KeysRead |-> AgeCondition(cond[k], d)]
           body(g) == [n \in 0 .. 24 |-> Turn(g, base, evals, n)]
           f == CHOOSE g : g = body(g)
<1>1. EvaluateAll(evals, d) = f[24]
  BY DEF EvaluateAll, EvaluationsPerPass, Turn, Upd
<1>2. PICK g : Turns(g, base, evals, 24)
  BY TurnsExist
<1> DEFINE h == [n \in 0 .. 24 |-> g[n]]
<1> HIDE DEF base
<1>3. ASSUME NEW n \in 0 .. 24 PROVE h[n] = Turn(h, base, evals, n)
  <2>1. h[n] = Turn(g, base, evals, n)
    BY <1>2 DEF Turns
  <2>2. n # 0 => h[n - 1] = g[n - 1]
    OBVIOUS
  <2> QED
    BY <2>1, <2>2 DEF Turn
<1>4. h = body(h)
  BY <1>3
<1>5. f = body(f)
  BY <1>4
<1> HIDE DEF f
<1>6. Turns(f, base, evals, 24)
  BY <1>5 DEF Turns
<1> QED
  BY <1>1, <1>6 DEF base

\* An evaluation that is repeated within a pass changes nothing.
LEMMA UpdTwice ==
  ASSUME NEW st \in ConditionState, NEW e, e.raw \in BOOLEAN
  PROVE  Upd(Upd(st, e), e) = Upd(st, e)
<1> DEFINE held == IF st.held = NotTimed THEN 0 ELSE st.held
           delay == IF st.on THEN e.clear ELSE e.trigger
<1>1. st.on \in BOOLEAN /\ st = [on |-> st.on, held |-> st.held]
  BY DEF ConditionState
<1>2. CASE e.raw = st.on
  <2>1. Upd(st, e) = [st EXCEPT !.held = NotTimed]
    BY <1>1, <1>2 DEF Upd, UpdateWithClear
  <2>2. Upd(st, e).on = e.raw /\ Upd(st, e) = [on |-> e.raw, held |-> NotTimed]
    BY <1>1, <1>2, <2>1
  <2>3. Upd([on |-> e.raw, held |-> NotTimed], e) = [on |-> e.raw, held |-> NotTimed]
    BY DEF Upd, UpdateWithClear
  <2> QED
    BY <2>2, <2>3
<1>3. CASE e.raw # st.on /\ held >= delay
  <2>1. Upd(st, e) = [on |-> e.raw, held |-> NotTimed]
    BY <1>1, <1>3 DEF Upd, UpdateWithClear
  <2>3. Upd([on |-> e.raw, held |-> NotTimed], e) = [on |-> e.raw, held |-> NotTimed]
    BY DEF Upd, UpdateWithClear
  <2> QED
    BY <2>1, <2>3
<1>4. CASE e.raw # st.on /\ ~(held >= delay)
  <2>1. Upd(st, e) = [on |-> st.on, held |-> held]
    BY <1>1, <1>4 DEF Upd, UpdateWithClear
  <2>2. held # NotTimed
    BY DEF NotTimed
  <2> DEFINE s2 == [on |-> st.on, held |-> held]
  <2> HIDE DEF held
  <2>3. s2.on = st.on /\ s2.held = held
    OBVIOUS
  <2>4. Upd(s2, e) = s2
    BY <1>1, <1>4, <2>2 DEF Upd, UpdateWithClear
  <2> QED
    BY <2>1, <2>4
<1> QED
  BY <1>2, <1>3, <1>4

-----------------------------------------------------------------------------
(* One timer and what was observed of its code.                             *)

\* What a pass that finds raw, d later, makes of what was observed: the
\* stopwatch, counted up to the cap.
Noted(o, raw, d) == [on |-> raw, age |-> IF raw = o.on THEN Later(o.age, d) ELSE 0]

Capped(o) == o \in Watch /\ o.age <= Cap

\* The output follows what was observed for the times t and c.
Right(out, o, t, c) ==
  /\ o.on /\ o.age >= t => out
  /\ ~o.on /\ o.age >= c => ~out

\* A change of the output is due to what was observed.
Justified(old, new, o, t, c) ==
  /\ new /\ ~old => o.on /\ o.age >= t
  /\ ~new /\ old => ~o.on /\ o.age >= c

\* A debounce timer and what was observed.  The timer starts with the first
\* pass: until the signal is on it may lag behind.
Timed(st, o) ==
  /\ st \in DebounceState /\ st.since <= Cap
  /\ IF st.initialized THEN st.last = o.on /\ (o.on \/ st.out => st.since = o.age)
                       ELSE st = NoDebounce /\ o.on = FALSE /\ o.age = 0

\* What is noted of a capped stopwatch is what the stopwatch shows, capped.
LEMMA NotedFacts ==
  ASSUME NEW o, Capped(o), NEW raw \in BOOLEAN, NEW d \in Nat
  PROVE  /\ Capped(Noted(o, raw, d)) /\ Noted(o, raw, d).on = raw
         /\ Noted(o, raw, d).age = Least(Seen(o, raw, d).age, Cap)
<1>1. o \in Watch /\ o.age \in Nat /\ o.age <= Cap /\ o.on \in BOOLEAN /\ Cap \in Nat
  BY CapFacts DEF Capped, Watch
<1>2. Least(o.age, Cap) = o.age
  BY <1>1 DEF Least
<1>3. o.age + d \in Nat /\ Later(o.age, d) = Least(o.age + d, Cap)
  BY <1>1, <1>2, CappedAge
<1>4. \A a \in Nat : Least(a, Cap) \in Nat /\ Least(a, Cap) <= Cap
  BY <1>1 DEF Least
<1>5. Noted(o, raw, d).on = raw /\ Noted(o, raw, d).age = IF raw = o.on THEN Least(o.age + d, Cap) ELSE 0
  BY <1>3 DEF Noted
<1>6. Noted(o, raw, d).age = Least(Seen(o, raw, d).age, Cap)
  BY <1>1, <1>5, SeenFacts, CappedZero
<1>7. Noted(o, raw, d).age \in Nat /\ Noted(o, raw, d).age <= Cap
  BY <1>1, <1>3, <1>4, <1>5
<1>8. Noted(o, raw, d) \in Watch
  BY <1>5, <1>7 DEF Noted, Watch
<1> QED
  BY <1>5, <1>6, <1>7, <1>8 DEF Capped

\* An output that follows a stopwatch follows it up to the cap as well.
LEMMA FollowRight ==
  ASSUME NEW old \in BOOLEAN, NEW new, NEW s \in Watch, NEW w, w.on = s.on,
         w.age = Least(s.age, Cap), NEW t \in Nat, t <= Cap, NEW c \in Nat, c <= Cap,
         new = Follow(old, s, t, c)
  PROVE  Right(new, w, t, c) /\ Justified(old, new, w, t, c)
<1>1. s.on \in BOOLEAN /\ s.age \in Nat
  BY DEF Watch
<1>2. (w.age >= t <=> s.age >= t) /\ (w.age >= c <=> s.age >= c)
  BY <1>1, CappedTells
<1>3. CASE s.on = TRUE
  <2>1. new = IF s.age >= t THEN TRUE ELSE old
    BY <1>3 DEF Follow
  <2> QED
    BY <1>2, <1>3, <2>1 DEF Right, Justified
<1>4. CASE s.on = FALSE
  <2>1. new = IF s.age >= c THEN FALSE ELSE old
    BY <1>4 DEF Follow
  <2> QED
    BY <1>2, <1>4, <2>1 DEF Right, Justified
<1> QED
  BY <1>1, <1>3, <1>4

\* A pass of the condition engine for one key.
LEMMA ConditionCode ==
  ASSUME NEW st \in ConditionState, NEW o, Capped(o), ConditionTracks(st, o),
         NEW raw \in BOOLEAN, NEW d \in Nat, NEW t \in 0 .. Cap, NEW c \in 0 .. Cap
  PROVE  LET next == UpdateWithClear(AgeCondition(st, d), raw, ~raw, t, c)
             w == Noted(o, raw, d)
         IN  /\ next \in ConditionState /\ ConditionTracks(next, w)
             /\ Right(next.on, w, t, c) /\ Justified(st.on, next.on, w, t, c)
<1> DEFINE next == UpdateWithClear(AgeCondition(st, d), raw, ~raw, t, c)
           w == Noted(o, raw, d)
           s == Seen(o, raw, d)
<1>1. o \in Watch
  BY DEF Capped
<1>2. next \in ConditionState /\ ConditionTracks(next, s) /\ next.on = Follow(st.on, s, t, c)
  BY <1>1, ConditionIsExact
<1>3. s \in Watch /\ s.on = raw /\ w.on = raw /\ w.age = Least(s.age, Cap) /\ s.age \in Nat
  <2>1. s \in Watch /\ s.on = raw
    BY <1>1, SeenFacts
  <2> QED
    BY <2>1, NotedFacts DEF Watch
<1>4. st.on \in BOOLEAN /\ next.on \in BOOLEAN /\ t \in Nat /\ t <= Cap /\ c \in Nat /\ c <= Cap
  BY <1>2, CapFacts DEF ConditionState
<1> HIDE DEF next, w, s
<1>5. Least(w.age, Cap) = Least(s.age, Cap)
  BY <1>3, CapFacts DEF Least
<1>6. ConditionTracks(next, w)
  BY <1>2, <1>3, <1>5 DEF ConditionTracks
<1>7. Right(next.on, w, t, c) /\ Justified(st.on, next.on, w, t, c)
  BY <1>2, <1>3, <1>4, FollowRight
<1> QED
  BY <1>2, <1>6, <1>7 DEF next, w

\* A pass of the debouncer for one rule.
LEMMA DebounceCode ==
  ASSUME NEW rule, NEW st, NEW o, Capped(o), Timed(st, o), NEW raw \in BOOLEAN, NEW d \in Nat
  PROVE  LET next == DebounceRule(rule, AgeDebounce(st, d), raw)
             w == Noted(o, raw, d)
             t == Policy(rule).trigger
             c == Policy(rule).clear
         IN  /\ Timed(next, w)
             /\ Right(next.out, w, t, c) /\ Justified(st.out, next.out, w, t, c)
<1> DEFINE next == DebounceRule(rule, AgeDebounce(st, d), raw)
           w == Noted(o, raw, d)
           t == Policy(rule).trigger
           c == Policy(rule).clear
<1>1. t \in Nat /\ t <= Cap /\ c \in Nat /\ c <= Cap /\ Cap \in Nat
  BY DelayAssumption, CapFacts DEF Policy
<1>2. Capped(w) /\ w.on = raw /\ w.age = Least(Seen(o, raw, d).age, Cap) /\ w.age \in Nat /\ w.age <= Cap
  <2>1. Capped(w) /\ w.on = raw /\ w.age = Least(Seen(o, raw, d).age, Cap)
    BY NotedFacts
  <2> HIDE DEF w
  <2> QED
    BY <2>1 DEF Capped, Watch
<1>3. CASE st.initialized = FALSE
  <2>1. st = NoDebounce /\ o.on = FALSE /\ o.age = 0
    BY <1>3 DEF Timed
  <2>2. next = [initialized |-> TRUE, last |-> raw, since |-> 0, out |-> raw /\ t = 0]
    BY <2>1 DEF DebounceRule, AgeDebounce, NoDebounce
  <2>3. (raw /\ t = 0) \in BOOLEAN
    OBVIOUS
  <2> HIDE DEF t, c
  <2>4. /\ next \in DebounceState /\ next.initialized = TRUE /\ next.last = raw /\ next.since = 0
        /\ next.out = (raw /\ t = 0)
    BY <2>2, <2>3 DEF DebounceState
  <2>5. raw = TRUE => w.age = 0
    BY <2>1 DEF Noted
  <2> HIDE DEF next, w
  <2>6. Timed(next, w)
    BY <1>1, <1>2, <2>4, <2>5 DEF Timed
  <2>7. st.out = FALSE
    BY <2>1 DEF NoDebounce
  <2>8. raw = TRUE => (w.age >= t <=> t = 0)
    BY <1>1, <2>5
  <2>9. Right(next.out, w, t, c) /\ Justified(st.out, next.out, w, t, c)
    BY <1>2, <2>4, <2>7, <2>8 DEF Right, Justified
  <2> QED
    BY <2>6, <2>9 DEF next, w, t, c
<1>4. CASE st.initialized = TRUE
  <2> DEFINE v == [on |-> st.last, age |-> st.since]
             s == Seen(v, raw, d)
  <2>1. /\ st \in DebounceState /\ st.last \in BOOLEAN /\ st.since \in Nat /\ st.since <= Cap /\ st.out \in BOOLEAN
        /\ st.last = o.on /\ (o.on \/ st.out => st.since = o.age)
    BY <1>4 DEF Timed, DebounceState
  <2>2. v \in Watch /\ v.on = o.on /\ v.age = st.since
    BY <2>1 DEF Watch
  <2>3. DebounceTracks(st, v)
    BY <1>1, <1>4, <2>1 DEF DebounceTracks, Least
  <2>4. next \in DebounceState /\ DebounceTracks(next, s) /\ next.out = Follow(st.out, s, t, c)
    BY <2>1, <2>2, <2>3, DebounceIsExact
  <2>5. s \in Watch /\ s.on = raw /\ s.age \in Nat
    <3>1. s \in Watch /\ s.on = raw
      BY <2>2, SeenFacts
    <3> QED
      BY <3>1 DEF Watch
  <2>6. raw # o.on \/ o.on \/ st.out => w.age = Least(s.age, Cap)
    <3>0. o \in Watch
      BY DEF Capped
    <3>1. CASE raw # o.on
      <4>1. s.age = 0 /\ Seen(o, raw, d).age = 0
        BY <2>2, <3>0, <3>1, SeenFacts
      <4> QED
        BY <1>2, <4>1
    <3>2. CASE raw = o.on /\ (o.on \/ st.out)
      <4>1. v.age = o.age
        BY <2>1, <3>2
      <4>2. s.age = v.age + d /\ Seen(o, raw, d).age = o.age + d
        BY <2>2, <3>0, <3>2, SeenFacts
      <4> QED
        BY <1>2, <4>1, <4>2
    <3> QED
      BY <3>1, <3>2
  <2>7. next.initialized = TRUE /\ next.last = raw /\ next.since = Least(s.age, Cap) /\ next.out \in BOOLEAN
    BY <2>4, <2>5 DEF DebounceTracks, DebounceState
  <2>8. next.since <= Cap
    BY <1>1, <2>5, <2>7 DEF Least
  <2> HIDE DEF next, w, v, s, t, c
  <2>9. CASE raw # o.on \/ o.on \/ st.out
    <3>1. Timed(next, w)
      BY <1>2, <2>4, <2>6, <2>7, <2>8, <2>9 DEF Timed
    <3>2. Right(next.out, w, t, c) /\ Justified(st.out, next.out, w, t, c)
      BY <1>1, <1>2, <2>1, <2>4, <2>5, <2>6, <2>9, FollowRight
    <3> QED
      BY <3>1, <3>2 DEF next, w, t, c
  <2>10. CASE ~(raw # o.on \/ o.on \/ st.out)
    <3>1. raw = FALSE /\ st.out = FALSE
      BY <2>1, <2>10
    <3>2. next.out = FALSE
      BY <2>4, <2>5, <3>1 DEF Follow
    <3>3. Timed(next, w)
      BY <1>2, <2>4, <2>7, <2>8, <3>1, <3>2 DEF Timed
    <3>4. Right(next.out, w, t, c) /\ Justified(st.out, next.out, w, t, c)
      BY <1>2, <3>1, <3>2 DEF Right, Justified
    <3> QED
      BY <3>3, <3>4 DEF next, w, t, c
  <2> QED
    BY <2>9, <2>10
<1>5. st.initialized \in BOOLEAN
  BY DEF Timed, DebounceState
<1> QED
  BY <1>3, <1>4, <1>5

-----------------------------------------------------------------------------
(* All evaluations of one key in a pass.                                    *)

\* Where all evaluations of a key agree, a pass does to its condition what one
\* of them does.
LEMMA KeyEvaluated ==
  ASSUME NEW evals, NEW d, NEW k \in KeysRead, NEW e, e.key = k, e.raw \in BOOLEAN,
         AgeCondition(cond[k], d) \in ConditionState,
         NEW j \in 1 .. 24, j \in DOMAIN evals, evals[j] = e,
         \A i \in DOMAIN evals : evals[i].key = k => evals[i] = e
  PROVE  EvaluateAll(evals, d)[k] = Upd(AgeCondition(cond[k], d), e)
<1> DEFINE base == [x \in KeysRead |-> AgeCondition(cond[x], d)]
           a == AgeCondition(cond[k], d)
           Hit(n) == \E i \in 1 .. n : i \in DOMAIN evals /\ evals[i].key = k
<1>1. PICK f : EvaluateAll(evals, d) = f[24] /\ Turns(f, base, evals, 24)
  BY EvaluateAllTurns
<1>2. base[k] = a /\ DOMAIN base = KeysRead
  OBVIOUS
<1>3. Upd(Upd(a, e), e) = Upd(a, e)
  BY UpdTwice
<1> HIDE DEF base, a
<1> DEFINE Good(n) == DOMAIN f[n] = KeysRead /\ f[n][k] = IF Hit(n) THEN Upd(a, e) ELSE a
           Bad == {n \in 0 .. 24 : ~Good(n)}
<1>4. ASSUME NEW n \in 0 .. 24, n # 0 => Good(n - 1) PROVE Good(n)
  <2>1. f[n] = Turn(f, base, evals, n)
    BY <1>1 DEF Turns
  <2>2. CASE n = 0
    <3>1. f[n] = base
      BY <2>1, <2>2 DEF Turn
    <3>2. ~Hit(n)
      BY <2>2
    <3> HIDE DEF Hit
    <3> QED
      BY <1>2, <3>1, <3>2
  <2>3. CASE n # 0 /\ n \notin DOMAIN evals
    <3>1. f[n] = f[n - 1]
      BY <2>1, <2>3 DEF Turn
    <3>2. Hit(n) <=> Hit(n - 1)
      BY <2>3
    <3>3. Good(n - 1)
      BY <1>4, <2>3
    <3> HIDE DEF Hit
    <3> QED
      BY <3>1, <3>2, <3>3
  <2>4. CASE n # 0 /\ n \in DOMAIN evals /\ evals[n].key # k
    <3>1. f[n] = [f[n - 1] EXCEPT ![evals[n].key] = Upd(@, evals[n])]
      BY <2>1, <2>4 DEF Turn
    <3>2. Hit(n) <=> Hit(n - 1)
      BY <2>4
    <3>3. Good(n - 1)
      BY <1>4, <2>4
    <3> HIDE DEF Hit
    <3>4. DOMAIN f[n] = DOMAIN f[n - 1] /\ f[n][k] = f[n - 1][k]
      BY <2>4, <3>1, <3>3
    <3> QED
      BY <3>2, <3>3, <3>4
  <2>5. CASE n # 0 /\ n \in DOMAIN evals /\ evals[n].key = k
    <3>1. f[n] = [f[n - 1] EXCEPT ![k] = Upd(f[n - 1][k], e)]
      BY <2>1, <2>5 DEF Turn
    <3>2. Hit(n)
      BY <2>5
    <3>3. Good(n - 1)
      BY <1>4, <2>5
    <3> HIDE DEF Hit
    <3>4. DOMAIN f[n] = DOMAIN f[n - 1] /\ f[n][k] = Upd(f[n - 1][k], e)
      BY <3>1, <3>3
    <3>5. f[n - 1][k] = a \/ f[n - 1][k] = Upd(a, e)
      BY <3>3
    <3> QED
      BY <1>3, <3>2, <3>3, <3>4, <3>5
  <2> QED
    BY <2>2, <2>3, <2>4, <2>5
<1> HIDE DEF Good
<1>5. Bad = {}
  <2> SUFFICES ASSUME Bad # {} PROVE FALSE
    OBVIOUS
  <2>0. Bad \in SUBSET Nat
    OBVIOUS
  <2> HIDE DEF Bad
  <2>1. PICK n \in Bad : \A x \in Bad : ~(<<x, n>> \in OpToRel(<, Nat))
    BY <2>0, NatLessThanWellFounded, WFMin
  <2>2. \A x \in Nat : x < n => x \notin Bad
    BY <2>0, <2>1 DEF OpToRel
  <2>3. n \in 0 .. 24 /\ ~Good(n)
    BY <2>1 DEF Bad
  <2>4. n # 0 => n - 1 \in 0 .. 24 /\ n - 1 \in Nat /\ n - 1 < n
    BY <2>3
  <2>5. n # 0 => Good(n - 1)
    BY <2>2, <2>4 DEF Bad
  <2> QED
    BY <1>4, <2>3, <2>5
<1>6. Good(24)
  BY <1>5
<1>7. Hit(24)
  OBVIOUS
<1> HIDE DEF Hit
<1> QED
  BY <1>1, <1>6, <1>7 DEF Good, a

-----------------------------------------------------------------------------
(* A pass and one code.                                                     *)

\* The output of a code: of its debounce timer, of its condition, or what was
\* observed at once.
Out(c) ==
  CASE c \in DirectCodes -> deb[c].out
    [] c \in KeyedCodes -> cond[KeyOf(RuleOf[c])].on
    [] OTHER -> obs[c].on

Tracked(c) ==
  /\ Capped(obs[c])
  /\ c \in DirectCodes => Timed(deb[c], obs[c])
  /\ c \in KeyedCodes => /\ cond[KeyOf(RuleOf[c])] \in ConditionState
                         /\ ConditionTracks(cond[KeyOf(RuleOf[c])], obs[c])
  /\ Right(Out(c), obs[c], Trigger(c), Clear(c))

\* No code is both debounced and looked up.
LEMMA KindsApart == DirectCodes \cap KeyedCodes = {}
BY DEF DirectCodes, KeyedCodes, IsRuntimeDebounceSource

\* What a pass observes of a code.
LEMMA Observed ==
  ASSUME NEW in, NEW d, NEW c \in Loaded, Evaluate(Sample(in), d), Capped(obs[c])
  PROVE  /\ ~AtOnce(c) => obs'[c] = Noted(obs[c], c \in Sample(in).meant, d)
         /\ AtOnce(c) => obs'[c] = [on |-> (c \in Sample(in).meant), age |-> 0]
         /\ c \in Sample(in).meant <=> Meant(c, in)
         /\ c \in want' <=> Confirmed(c, Sample(in).direct, cond', deb')
<1> DEFINE s == Sample(in)
           m == c \in s.meant
<1>1. /\ obs' = [x \in Loaded |-> Observe(x, x \in s.meant, d)]
      /\ want' = {x \in Loaded : Confirmed(x, s.direct, cond', deb')}
  BY DEF Evaluate
<1>2. s.meant = {x \in Loaded : Meant(x, in)}
  BY DEF Sample
<1>3. obs[c] = [on |-> obs[c].on, age |-> obs[c].age]
  BY DEF Capped, Watch
<1> HIDE DEF s, m
<1>4. obs'[c] = Observe(c, m, d)
  BY <1>1 DEF m
<1>5. ASSUME ~AtOnce(c) PROVE Observe(c, m, d) = Noted(obs[c], m, d)
  <2>1. CASE m = obs[c].on
    <3>1. Observe(c, m, d) = [obs[c] EXCEPT !.age = Later(obs[c].age, d)]
      BY <1>5, <2>1 DEF Observe
    <3>2. Observe(c, m, d) = [on |-> obs[c].on, age |-> Later(obs[c].age, d)]
      BY <1>3, <3>1
    <3> QED
      BY <2>1, <3>2 DEF Noted
  <2>2. CASE m # obs[c].on
    BY <2>2 DEF Observe, Noted
  <2> QED
    BY <2>1, <2>2
<1>6. ASSUME AtOnce(c) PROVE Observe(c, m, d) = [on |-> m, age |-> 0]
  BY <1>6 DEF Observe
<1> QED
  BY <1>1, <1>2, <1>4, <1>5, <1>6 DEF m, s

\* A pass moves the timer of a debounced code.
LEMMA DirectStep ==
  ASSUME NEW in, NEW d \in Nat, NEW c \in Loaded, c \in DeviceCodeSet, Evaluate(Sample(in), d), Tracked(c)
  PROVE  /\ Tracked(c)' /\ Justified(Out(c), Out(c)', obs'[c], Trigger(c), Clear(c))
         /\ c \in want' <=> Out(c)'
<1> DEFINE s == Sample(in)
           m == c \in s.meant
           r == Rule(RowOf(c))
<1>1. DeviceRuleRight(c, in)
  BY DeviceMeaning
<1>2. c \in DirectCodes /\ c \notin KeyedCodes /\ RuleOf[c] = r
  BY <1>1, KindsApart DEF DeviceRuleRight, DirectCodes, RuleOf
<1>3. Capped(obs[c]) /\ Timed(deb[c], obs[c]) /\ Right(Out(c), obs[c], Trigger(c), Clear(c))
  BY <1>2 DEF Tracked
<1>4. obs'[c] = Noted(obs[c], m, d) /\ (m <=> Meant(c, in)) /\ (c \in want' <=> Confirmed(c, s.direct, cond', deb'))
  <2>1. ~AtOnce(c)
    BY AtOnceTable
  <2> QED
    BY <1>3, <2>1, Observed
<1>5. s.raw[c] = m
  <2>1. s.raw[c] = EvalDevice(r.source, in.dev[r.source], r.signal, BitsOf(r.source, r.signal))
    BY <1>2 DEF Sample
  <2>2. s.raw[c] = Meant(c, in) /\ Meant(c, in) \in BOOLEAN
    BY <1>1, <2>1 DEF DeviceRuleRight
  <2> HIDE DEF s, r
  <2> QED
    BY <1>4, <2>2
<1>6. deb' = DebounceAll(s.raw, d)
  BY DEF Evaluate
<1>7. deb'[c] = DebounceRule(r, AgeDebounce(deb[c], d), m)
  BY <1>2, <1>5, <1>6 DEF DebounceAll
<1>8. Policy(r).trigger = Trigger(c) /\ Policy(r).clear = Clear(c)
  BY <1>1 DEF DeviceRuleRight
<1>9. m \in BOOLEAN
  OBVIOUS
<1> HIDE DEF s, m, r
<1>10. /\ Timed(deb'[c], obs'[c]) /\ Right(deb'[c].out, obs'[c], Trigger(c), Clear(c))
       /\ Justified(deb[c].out, deb'[c].out, obs'[c], Trigger(c), Clear(c))
  BY <1>3, <1>4, <1>7, <1>8, <1>9, DebounceCode
<1>11. Capped(obs'[c])
  BY <1>3, <1>4, <1>9, NotedFacts
<1>12. Out(c) = deb[c].out /\ Out(c)' = deb'[c].out
  BY <1>2 DEF Out
<1>13. Confirmed(c, s.direct, cond', deb') = deb'[c].out
  BY <1>2 DEF Confirmed
<1>14. Tracked(c)'
  BY <1>2, <1>10, <1>11, <1>12 DEF Tracked
<1> QED
  BY <1>4, <1>10, <1>12, <1>13, <1>14

\* A pass moves the condition of a code that is looked up.
LEMMA KeyedStep ==
  ASSUME NEW in, NEW d \in Nat, NEW c \in Loaded, c \in KeyedCodeSet, Evaluate(Sample(in), d), Tracked(c)
  PROVE  /\ Tracked(c)' /\ Justified(Out(c), Out(c)', obs'[c], Trigger(c), Clear(c))
         /\ c \in want' <=> Out(c)'
<1> DEFINE s == Sample(in)
           m == c \in s.meant
           r == Rule(RowOf(c))
           k == KeyOf(r)
           e == Eval(k, Meant(c, in), Trigger(c), Clear(c))
<1>1. KeyedRuleRight(c, in)
  BY KeyedMeaning
<1>2. c \in KeyedCodes /\ c \notin DirectCodes /\ RuleOf[c] = r
  BY <1>1, KindsApart DEF KeyedRuleRight, KeyedCodes, RuleOf
<1>3. k \in KeysRead
  BY <1>2 DEF KeysRead
<1>4. /\ Capped(obs[c]) /\ cond[k] \in ConditionState /\ ConditionTracks(cond[k], obs[c])
      /\ Right(Out(c), obs[c], Trigger(c), Clear(c))
  BY <1>2 DEF Tracked
<1>5. obs'[c] = Noted(obs[c], m, d) /\ (m <=> Meant(c, in)) /\ (c \in want' <=> Confirmed(c, s.direct, cond', deb'))
  <2>1. ~AtOnce(c)
    BY AtOnceTable
  <2> QED
    BY <1>4, <2>1, Observed
<1>6. Meant(c, in) \in BOOLEAN /\ Evaluated(e, in)
  BY <1>1 DEF KeyedRuleRight
<1>7. m = Meant(c, in) /\ m \in BOOLEAN
  BY <1>5, <1>6
<1>8. e.key = k /\ e.raw = Meant(c, in) /\ e.trigger = Trigger(c) /\ e.clear = Clear(c)
  BY DEF Eval
<1>9. /\ DOMAIN s.evals = {i \in 1 .. 24 : Evaluations(in)[i].key \in KeysRead}
      /\ \A i \in DOMAIN s.evals : s.evals[i] = Evaluations(in)[i]
  BY EvaluationsAre DEF Sample
<1>10. cond' = EvaluateAll(s.evals, d)
  BY DEF Evaluate
<1>11. AgeCondition(cond[k], d) \in ConditionState
  <2>1. \A t \in Nat : Later(t, d) \in Nat
    BY CapFacts DEF Later, Least
  <2>2. cond[k].held # NotTimed => cond[k].held \in Nat
    BY <1>4 DEF ConditionState
  <2> HIDE DEF k
  <2> QED
    BY <1>4, <2>1, <2>2 DEF AgeCondition, ConditionState
<1>12. Trigger(c) \in 0 .. Cap /\ Clear(c) \in 0 .. Cap
  BY TimesTable, DelayAssumption, CapFacts DEF KeyedCodeSet
<1> HIDE DEF s, m, r, k, e
<1>13. PICK j \in 1 .. 24 : Evaluations(in)[j] = e
  BY <1>6 DEF Evaluated
<1>14. j \in DOMAIN s.evals /\ s.evals[j] = e
  BY <1>3, <1>8, <1>9, <1>13
<1>15. \A i \in DOMAIN s.evals : s.evals[i].key = k => s.evals[i] = e
  BY <1>6, <1>8, <1>9 DEF Evaluated
<1>16. cond'[k] = Upd(AgeCondition(cond[k], d), e)
  BY <1>3, <1>6, <1>8, <1>10, <1>11, <1>14, <1>15, KeyEvaluated
<1>17. cond'[k] = UpdateWithClear(AgeCondition(cond[k], d), m, ~m, Trigger(c), Clear(c))
  BY <1>7, <1>8, <1>16 DEF Upd
<1>18. /\ cond'[k] \in ConditionState /\ ConditionTracks(cond'[k], obs'[c])
       /\ Right(cond'[k].on, obs'[c], Trigger(c), Clear(c))
       /\ Justified(cond[k].on, cond'[k].on, obs'[c], Trigger(c), Clear(c))
  BY <1>4, <1>5, <1>7, <1>12, <1>17, ConditionCode
<1>19. Capped(obs'[c])
  BY <1>4, <1>5, <1>7, NotedFacts
<1>20. Out(c) = cond[k].on /\ Out(c)' = cond'[k].on
  BY <1>2 DEF Out, k
<1>21. Confirmed(c, s.direct, cond', deb') = cond'[k].on
  BY <1>2 DEF Confirmed, k
<1>22. Tracked(c)'
  BY <1>2, <1>18, <1>19, <1>20 DEF Tracked, k
<1> QED
  BY <1>5, <1>18, <1>20, <1>21, <1>22

\* A pass sees the other codes as they are.
LEMMA PlainStep ==
  ASSUME NEW in \in Readings, NEW d \in Nat, NEW c \in Loaded, c \in BmsCodeSet \cup {\h10B9},
         Evaluate(Sample(in), d), Tracked(c)
  PROVE  /\ Tracked(c)' /\ Justified(Out(c), Out(c)', obs'[c], Trigger(c), Clear(c))
         /\ c \in want' <=> Out(c)'
<1> DEFINE s == Sample(in)
           m == c \in s.meant
           r == Rule(RowOf(c))
<1>1. PlainRuleRight(c, in)
  BY PlainMeaning
<1>2. c \notin KeyedCodes /\ c \notin DirectCodes /\ RuleOf[c] = r
  BY <1>1 DEF PlainRuleRight, KeyedCodes, DirectCodes, RuleOf
<1>3. Capped(obs[c])
  BY DEF Tracked
<1>4. obs'[c] = [on |-> m, age |-> 0] /\ (m <=> Meant(c, in)) /\ (c \in want' <=> Confirmed(c, s.direct, cond', deb'))
  BY <1>3, Observed, AtOnceTable
<1>5. c \in s.direct <=> Meant(c, in)
  BY <1>1, <1>2 DEF PlainRuleRight, Sample
<1>6. m \in BOOLEAN /\ Trigger(c) = 0 /\ Clear(c) = 0
  BY <1>1 DEF PlainRuleRight
<1> HIDE DEF s, m, r
<1>7. Capped(obs'[c]) /\ obs'[c].on = m /\ obs'[c].age \in Nat /\ obs[c].on \in BOOLEAN
  BY <1>3, <1>4, <1>6, CapFacts DEF Capped, Watch
<1>8. Out(c) = obs[c].on /\ Out(c)' = obs'[c].on
  BY <1>2 DEF Out
<1>9. Confirmed(c, s.direct, cond', deb') = (c \in s.direct)
  BY <1>2 DEF Confirmed
<1>10. obs'[c].age >= 0
  BY <1>7
<1>11. Right(Out(c)', obs'[c], 0, 0) /\ Justified(Out(c), Out(c)', obs'[c], 0, 0)
  BY <1>6, <1>7, <1>8, <1>10 DEF Right, Justified
<1>12. Tracked(c)'
  BY <1>2, <1>6, <1>7, <1>11 DEF Tracked
<1> QED
  BY <1>4, <1>5, <1>6, <1>7, <1>8, <1>9, <1>11, <1>12

-----------------------------------------------------------------------------
(* The timers in the state machine.                                         *)

\* Between two passes the active codes are those whose output is on; during a
\* pass what remains to be raised or dropped is due to what was observed.
EdgesDue ==
  /\ \A c \in want \ Range(active) : obs[c].on /\ obs[c].age >= Trigger(c)
  /\ \A c \in Range(active) \ want : ~obs[c].on /\ obs[c].age >= Clear(c)
TimesInv ==
  /\ \A c \in Loaded : Tracked(c)
  /\ want = {c \in Loaded : Out(c)}
  /\ IF pc = "apply" THEN EdgesDue ELSE want = Range(active)

\* A fresh process has seen nothing.
LEMMA TimesFresh ==
  ASSUME NEW ok \in BOOLEAN, Process(ok)
  PROVE  TimesInv'
<1> DEFINE o == [on |-> FALSE, age |-> 0]
<1>1. /\ pc' = "sleep" /\ want' = {} /\ active' = <<>> /\ obs' = [c \in Loaded |-> o]
      /\ cond' = [k \in KeysRead |-> NoCondition] /\ deb' = [c \in DirectCodes |-> NoDebounce]
  BY DEF Process
<1>2. Capped(o) /\ Timed(NoDebounce, o)
  BY CapFacts DEF Capped, Watch, Timed, NoDebounce, DebounceState
<1>3. NoCondition \in ConditionState /\ ConditionTracks(NoCondition, o)
  BY DEF NoCondition, ConditionState, ConditionTracks
<1>4. \A c \in KeyedCodes : KeyOf(RuleOf[c]) \in KeysRead
  BY DEF KeysRead
<1>5. ASSUME NEW c \in Loaded PROVE Tracked(c)' /\ Out(c)' = FALSE
  <2>1. obs'[c] = o
    BY <1>1
  <2>2. c \in DirectCodes => deb'[c] = NoDebounce
    BY <1>1
  <2>3. c \in KeyedCodes => cond'[KeyOf(RuleOf[c])] = NoCondition
    BY <1>1, <1>4
  <2>4. Out(c)' = FALSE
    <3>1. CASE c \in DirectCodes
      BY <2>2, <3>1, KindsApart DEF Out, NoDebounce
    <3>2. CASE c \in KeyedCodes
      BY <2>3, <3>2, KindsApart DEF Out, NoCondition
    <3>3. CASE c \notin DirectCodes /\ c \notin KeyedCodes
      BY <2>1, <3>3 DEF Out
    <3> QED
      BY <3>1, <3>2, <3>3
  <2>5. Right(FALSE, o, Trigger(c), Clear(c))
    BY DEF Right
  <2> HIDE DEF o
  <2> QED
    BY <1>2, <1>3, <2>1, <2>2, <2>3, <2>4, <2>5 DEF Tracked
<1>6. Range(active') = {}
  BY <1>1 DEF Range
<1> QED
  BY <1>1, <1>5, <1>6 DEF TimesInv

\* So has the first process.
LEMMA TimesInit == Init => TimesInv
<1> SUFFICES ASSUME Init PROVE TimesInv
  OBVIOUS
<1> DEFINE o == [on |-> FALSE, age |-> 0]
<1>1. /\ pc = "sleep" /\ want = {} /\ active = <<>> /\ obs = [c \in Loaded |-> o]
      /\ cond = [k \in KeysRead |-> NoCondition] /\ deb = [c \in DirectCodes |-> NoDebounce]
  BY DEF Init
<1>2. Capped(o) /\ Timed(NoDebounce, o)
  BY CapFacts DEF Capped, Watch, Timed, NoDebounce, DebounceState
<1>3. NoCondition \in ConditionState /\ ConditionTracks(NoCondition, o)
  BY DEF NoCondition, ConditionState, ConditionTracks
<1>4. \A c \in KeyedCodes : KeyOf(RuleOf[c]) \in KeysRead
  BY DEF KeysRead
<1>5. ASSUME NEW c \in Loaded PROVE Tracked(c) /\ Out(c) = FALSE
  <2>1. obs[c] = o
    BY <1>1
  <2>2. c \in DirectCodes => deb[c] = NoDebounce
    BY <1>1
  <2>3. c \in KeyedCodes => cond[KeyOf(RuleOf[c])] = NoCondition
    BY <1>1, <1>4
  <2>4. Out(c) = FALSE
    <3>1. CASE c \in DirectCodes
      BY <2>2, <3>1, KindsApart DEF Out, NoDebounce
    <3>2. CASE c \in KeyedCodes
      BY <2>3, <3>2, KindsApart DEF Out, NoCondition
    <3>3. CASE c \notin DirectCodes /\ c \notin KeyedCodes
      BY <2>1, <3>3 DEF Out
    <3> QED
      BY <3>1, <3>2, <3>3
  <2>5. Right(FALSE, o, Trigger(c), Clear(c))
    BY DEF Right
  <2> HIDE DEF o
  <2> QED
    BY <1>2, <1>3, <2>1, <2>2, <2>3, <2>4, <2>5 DEF Tracked
<1>6. Range(active) = {}
  BY <1>1 DEF Range
<1> QED
  BY <1>1, <1>5, <1>6 DEF TimesInv

\* A pass moves every code the way its rule says.
LEMMA CodeStep ==
  ASSUME \h10BA \notin Loaded, NEW in \in Readings, NEW d \in Nat, NEW c \in Loaded,
         Evaluate(Sample(in), d), Tracked(c)
  PROVE  /\ Tracked(c)' /\ Justified(Out(c), Out(c)', obs'[c], Trigger(c), Clear(c))
         /\ c \in want' <=> Out(c)'
<1>1. c \in DeviceCodeSet \/ c \in KeyedCodeSet \/ c \in BmsCodeSet \cup {\h10B9}
  <2>1. c \in Code \ {\h10BA}
    BY FaultsAssumption
  <2> QED
    BY <2>1, CodeKinds
<1> QED
  BY <1>1, DirectStep, KeyedStep, PlainStep

\* After it, what the pass has to raise or to drop is due.
LEMMA TimesEvaluate ==
  ASSUME \h10BA \notin Loaded, TimesInv, NEW s \in Samples, NEW d \in Steps, Evaluate(s, d)
  PROVE  TimesInv'
<1>1. PICK in \in Readings : s = Sample(in)
  BY DEF Samples
<1>2. d \in Nat
  BY FaultsAssumption
<1>3. pc = "sleep" /\ pc' = "apply" /\ active' = active
  BY DEF Evaluate, center
<1>4. want' \subseteq Loaded
  BY DEF Evaluate
<1>5. want = Range(active) /\ want = {c \in Loaded : Out(c)} /\ \A c \in Loaded : Tracked(c)
  BY <1>3 DEF TimesInv
<1>6. \A c \in Loaded : /\ Tracked(c)' /\ Justified(Out(c), Out(c)', obs'[c], Trigger(c), Clear(c))
                        /\ c \in want' <=> Out(c)'
  BY <1>1, <1>2, <1>5, CodeStep
<1>7. want' = {c \in Loaded : Out(c)'}
  BY <1>4, <1>6
<1>8. ASSUME NEW c \in want' \ Range(active') PROVE obs'[c].on /\ obs'[c].age >= Trigger(c)
  <2>1. c \in Loaded /\ ~Out(c) /\ Out(c)'
    BY <1>3, <1>4, <1>5, <1>6, <1>8
  <2> QED
    BY <1>6, <2>1 DEF Justified
<1>9. ASSUME NEW c \in Range(active') \ want' PROVE ~obs'[c].on /\ obs'[c].age >= Clear(c)
  <2>1. c \in Loaded /\ Out(c) /\ ~Out(c)'
    BY <1>3, <1>5, <1>6, <1>9
  <2> QED
    BY <1>6, <2>1 DEF Justified
<1>10. EdgesDue'
  BY <1>8, <1>9 DEF EdgesDue
<1> QED
  BY <1>3, <1>6, <1>7, <1>10 DEF TimesInv

\* A step that evaluates nothing leaves the codes alone.
LEMMA TimesKept ==
  ASSUME TimesInv, UNCHANGED eval, IF pc' = "apply" THEN EdgesDue' ELSE want = Range(active')
  PROVE  TimesInv'
<1>1. cond' = cond /\ deb' = deb /\ want' = want /\ obs' = obs
  BY DEF eval
<1>2. \A c \in Loaded : Out(c)' = Out(c)
  BY <1>1 DEF Out
<1>3. \A c \in Loaded : Tracked(c)' = Tracked(c)
  BY <1>1, <1>2 DEF Tracked
<1> QED
  BY <1>1, <1>2, <1>3 DEF TimesInv

\* Raising or dropping a code leaves the other edges to be done.
LEMMA TimesEdge ==
  ASSUME LogInv, TimesInv, NEW c \in Loaded, NEW ok \in BOOLEAN, SetActiveOn(c, ok) \/ SetActiveOff(c, ok)
  PROVE  TimesInv'
<1>1. active \in Seq(Loaded) /\ IsInjective(active)
  BY DEF LogInv, LogTypes
<1>2. pc = "apply" /\ pc' = pc /\ UNCHANGED eval /\ want' = want /\ obs' = obs
  BY DEF SetActiveOn, SetActiveOff, NextEdge, eval
<1>3. EdgesDue
  BY <1>2 DEF TimesInv
<1>4. /\ want \ Range(active') \subseteq want \ Range(active)
      /\ Range(active') \ want \subseteq Range(active) \ want
  <2>1. CASE SetActiveOn(c, ok)
    <3>1. c \notin Range(active) /\ c \in want /\ active' = <<c>> \o active
      BY <2>1 DEF SetActiveOn, NextEdge, Edges
    <3>2. Range(active') = Range(active) \cup {c}
      BY <1>1, <3>1, Prepend
    <3> QED
      BY <3>1, <3>2
  <2>2. CASE SetActiveOff(c, ok)
    <3>1. c \in Range(active) /\ c \notin want /\ active' = RemoveFirst(active, c)
      BY <2>2 DEF SetActiveOff, NextEdge, Edges
    <3>2. Range(active') = Range(active) \ {c}
      BY <1>1, <3>1, Erase
    <3> QED
      BY <3>1, <3>2
  <2> QED
    BY <2>1, <2>2
<1>5. EdgesDue'
  BY <1>2, <1>3, <1>4 DEF EdgesDue
<1> QED
  BY <1>2, <1>5, TimesKept

\* Every step keeps the timers in time.
LEMMA TimesStep == ASSUME \h10BA \notin Loaded PROVE LogInv /\ TimesInv /\ [Next]_vars => TimesInv'
<1> SUFFICES ASSUME LogInv, TimesInv, [Next]_vars PROVE TimesInv'
  OBVIOUS
<1>1. ASSUME NEW s \in Samples, NEW d \in Steps, Evaluate(s, d) PROVE TimesInv'
  BY <1>1, TimesEvaluate
<1>2. ASSUME NEW c \in Loaded, NEW ok \in BOOLEAN, SetActiveOn(c, ok) \/ SetActiveOff(c, ok) PROVE TimesInv'
  BY <1>2, TimesEdge
<1>3. ASSUME NEW ok \in BOOLEAN, NEW read \in BOOLEAN, NEW n \in 0 .. 3, Restart(ok, read, n) PROVE TimesInv'
  <2>1. Process(ok)
    BY <1>3 DEF Restart
  <2> QED
    BY <2>1, TimesFresh
<1>4. ASSUME UNCHANGED <<pc, eval, active>> PROVE TimesInv'
  <2>1. UNCHANGED eval /\ pc' = pc /\ active' = active /\ want' = want /\ obs' = obs
    BY <1>4 DEF eval
  <2>2. IF pc' = "apply" THEN EdgesDue' ELSE want = Range(active')
    BY <2>1 DEF TimesInv, EdgesDue
  <2> QED
    BY <2>1, <2>2, TimesKept
<1>5. ASSUME NEW o1, NEW o2, RefreshHead(o1, o2) PROVE TimesInv'
  <2>1. UNCHANGED eval /\ active' = active /\ pc' # "apply" /\ Edges = {}
    BY <1>5 DEF RefreshHead
  <2>2. want \subseteq Loaded /\ Range(active) \subseteq Loaded
    BY DEF LogInv, LogTypes, Range
  <2>3. want = Range(active)
    BY <2>1, <2>2 DEF Edges
  <2> QED
    BY <2>1, <2>3, TimesKept
<1>6. ASSUME UNCHANGED <<eval, active>>, pc # "apply", pc' # "apply" PROVE TimesInv'
  <2>1. UNCHANGED eval /\ want = Range(active')
    BY <1>6 DEF TimesInv
  <2> QED
    BY <1>6, <2>1, TimesKept
<1>7. ASSUME NEW o, FaultRefreshWindow(o) PROVE TimesInv'
  BY <1>6, <1>7 DEF FaultRefreshWindow, center
<1>8. CASE Flush
  BY <1>6, <1>8 DEF Flush, center
<1>9. ASSUME NEW o, ButtonLoad(o) PROVE TimesInv'
  BY <1>4, <1>9 DEF ButtonLoad, center
<1>10. CASE ButtonFlush \/ TurnPage \/ ClickCurNext
  BY <1>4, <1>10 DEF ButtonFlush, TurnPage, ClickCurNext, center
<1>11. ASSUME NEW first, ClickCurPrev(first) PROVE TimesInv'
  BY <1>4, <1>11 DEF ClickCurPrev
<1>12. ASSUME NEW kind, NEW o, ClickHistory(kind, o) PROVE TimesInv'
  BY <1>4, <1>12 DEF ClickHistory
<1>14. ASSUME NEW o, ClickHistoryEnter \/ ShowHistoryPage(o) PROVE TimesInv'
  BY <1>4, <1>14 DEF ClickHistoryEnter, ShowHistoryPage, center
<1>13. CASE UNCHANGED vars
  BY <1>4, <1>13 DEF vars, eval
<1> QED
  BY <1>1, <1>2, <1>3, <1>5, <1>7, <1>8, <1>9, <1>10, <1>11, <1>12, <1>13, <1>14
  DEF Next, FaultThread, Clicks, ControlThread

\* Whoever looks between two passes finds the outputs in time.
LEMMA InTime == TimesInv => Debounced
<1> SUFFICES ASSUME TimesInv PROVE Debounced
  OBVIOUS
<1>1. pc = "apply" => EdgesDue
  BY DEF TimesInv
<1>2. ASSUME pc = "sleep", NEW c \in Loaded
      PROVE  /\ obs[c].on /\ obs[c].age >= Trigger(c) => c \in Range(active)
             /\ ~obs[c].on /\ obs[c].age >= Clear(c) => c \notin Range(active)
  <2>1. c \in Range(active) <=> Out(c)
    BY <1>2 DEF TimesInv
  <2>2. Right(Out(c), obs[c], Trigger(c), Clear(c))
    BY DEF TimesInv, Tracked
  <2> QED
    BY <2>1, <2>2 DEF Right
<1> QED
  BY <1>1, <1>2 DEF Debounced, EdgesDue

\* For every fault map whose codes do not include 0x10BA, every order and any
\* times between the passes, any readings, clicks, failures of SQLite and
\* restarts: a code is raised when the condition its signal names was observed
\* for the time its rule asks, by then at the latest and never before; and
\* dropped likewise.  This covers FaultLogicEvaluator::evaluateAll with
\* several evaluations of one key in a pass, FaultConditionEngine,
\* FaultRuntimeMapper with its own debouncing, and the edges FaultCenter
\* applies one by one.  The key of 0x10BA is evaluated twice in a pass, with
\* the emergency stops of both PCUs; for it the property is false.  0x10B9
\* is covered only by being never seen: no field of LogicFaultState sets it.
THEOREM DebouncedAlways == ASSUME \h10BA \notin Loaded PROVE Spec => []Debounced
<1>1. LogInv /\ TimesInv /\ [Next]_vars => TimesInv'
  BY TimesStep
<1> QED
  BY <1>1, LogInit, LogStep, TimesInit, InTime, PTL DEF Spec
=============================================================================
