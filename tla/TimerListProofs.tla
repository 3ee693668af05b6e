-------------------------- MODULE TimerListProofs --------------------------
(***************************************************************************)
(* What holds of the timer list for every set of timers, every timeout and *)
(* every repeat count: type correctness, that a stopped or deleted timer   *)
(* is never in its callback, the bound on the repetitions, that callbacks  *)
(* are early in one window only, and that the list stays a proper sorted   *)
(* list without the stopped timers.  For at most two timers: that none of  *)
(* the running ones is lost.                                               *)
(***************************************************************************)
EXTENDS TimerList, FiniteSetTheorems, TLAPS

Order == INSTANCE OrderLemmas

Lists == [head : Handle, prev : [Timers -> Handle], next : [Timers -> Handle]]

(* _timer_list_remove yields a list.                                       *)
LEMMA RemovedType ==
  ASSUME NEW l \in Lists, NEW h \in Timers
  PROVE  Removed(l, h) \in Lists
BY DEF Removed, Cut, Lists, Handle

(* _timer_list_insert_before yields a list.                                *)
LEMMA InsertBeforeType ==
  ASSUME NEW l \in Lists, NEW c \in Timers, NEW h \in Timers
  PROVE  InsertBefore(l, c, h) \in Lists
BY DEF InsertBefore, Lists, Handle

(* _timer_list_insert_after yields a list.                                 *)
LEMMA InsertAfterType ==
  ASSUME NEW l \in Lists, NEW c \in Timers, NEW h \in Timers
  PROVE  InsertAfter(l, c, h) \in Lists
BY DEF InsertAfter, Lists, Handle

(* _timer_list_add yields a list.                                          *)
LEMMA AddedType ==
  ASSUME NEW l \in Lists, NEW at, NEW h \in Timers
  PROVE  Added(l, at, h) \in Lists
<1> DEFINE node     == Node(l.head, l.next)
           first(c) == \E k \in 0 .. N :
                         /\ node[k] = c
                         /\ Later(at, c, h)
                         /\ \A j \in 0 .. k - 1 : ~Later(at, node[j], h)
           last(c)  == l.next[c] = NULL /\ \E k \in 0 .. N : node[k] = c
           empty    == [head |-> h,
                        prev |-> [l.prev EXCEPT ![h] = NULL],
                        next |-> [l.next EXCEPT ![h] = NULL]]
           before   == CHOOSE c \in Timers : first(c)
           after    == CHOOSE c \in Timers : last(c)
<1>0. Added(l, at, h) =
        IF l.head = NULL THEN empty
        ELSE IF \E c \in Timers : first(c) THEN InsertBefore(l, before, h)
        ELSE IF \E c \in Timers : last(c) THEN InsertAfter(l, after, h)
        ELSE l
  BY DEF Added
<1>1. empty \in Lists
  BY DEF Lists, Handle
<1> HIDE DEF first, last
<1>2. ASSUME \E c \in Timers : first(c) PROVE InsertBefore(l, before, h) \in Lists
  <2>1. before \in Timers
    BY <1>2
  <2> QED BY <2>1, InsertBeforeType
<1>3. ASSUME \E c \in Timers : last(c) PROVE InsertAfter(l, after, h) \in Lists
  <2>1. after \in Timers
    BY <1>3
  <2> QED BY <2>1, InsertAfterType
<1> HIDE DEF empty, before, after
<1> QED BY <1>0, <1>1, <1>2, <1>3

-----------------------------------------------------------------------------
(* The part of TypeOK about the list.                                      *)
ListTyped ==
  /\ head \in Handle
  /\ prev \in [Timers -> Handle]
  /\ next \in [Timers -> Handle]

(* Setting the three list variables to a list keeps their types.           *)
LEMMA SetListType ==
  ASSUME NEW l \in Lists, SetList(l)
  PROVE  ListTyped'
BY DEF SetList, Lists, ListTyped

(* The current list is one.                                                *)
LEMMA ListType ==
  ASSUME TypeOK
  PROVE  List \in Lists
BY DEF TypeOK, List, Lists

(* The list without h is one.                                              *)
LEMMA WithoutType ==
  ASSUME TypeOK, NEW h \in Timers
  PROVE  Without(h) \in Lists
BY ListType, RemovedType DEF Without

(* TypeOK is preserved: p_timer_add, p_timer_start, p_timer_stop,          *)
(* p_timer_del and every step of p_timer_loop_once.                        *)
LEMMA TypeStep ==
  ASSUME TypeOK, [Next]_vars
  PROVE  TypeOK'
<1> USE TimerAssumption
<1>0. List \in Lists
  BY ListType
<1>1. CASE Tick
  BY <1>1 DEF Tick, TypeOK, listVars, timerVars, loopVars, history
<1>2. ASSUME NEW h \in Timers, Add(h) PROVE TypeOK'
  BY <1>2 DEF Add, ReadClock, TypeOK, loopVars, history, Handle
<1>3. ASSUME NEW h \in Timers, Start(h) PROVE TypeOK'
  BY <1>3 DEF Start, ReadClock, TypeOK, loopVars, history
<1>4. ASSUME NEW h \in Timers, SetTimer(h) PROVE TypeOK'
  <2>1. AbsTimeout(abs_timeout[h], h) \in Nat
    BY DEF TypeOK, AbsTimeout
  <2>2. (Repeat[h] < 0) \in BOOLEAN
    OBVIOUS
  <2> QED BY <1>4, <2>1, <2>2 DEF SetTimer, TypeOK, listVars, loopVars
<1>5. ASSUME NEW h \in Timers, StartLink(h) PROVE TypeOK'
  <2>1. Added(Without(h), abs_timeout, h) \in Lists
    BY WithoutType, AddedType
  <2>2. ListTyped'
    BY <1>5, <2>1, SetListType DEF StartLink
  <2> QED BY <1>5, <2>2 DEF StartLink, TypeOK, ListTyped, timerVars, loopVars, history
<1>6. ASSUME NEW h \in Timers, Stop(h) PROVE TypeOK'
  BY <1>6 DEF Stop, TypeOK, listVars, loopVars
<1>7. ASSUME NEW h \in Timers, StopUnlink(h) PROVE TypeOK'
  <2>1. ListTyped'
    BY <1>7, WithoutType, SetListType DEF StopUnlink
  <2> QED BY <1>7, <2>1 DEF StopUnlink, TypeOK, ListTyped, timerVars, loopVars, history
<1>8. CASE LoopTime
  BY <1>8 DEF LoopTime, TypeOK, listVars, timerVars, history
<1>9. CASE LoopLock
  BY <1>9 DEF LoopLock, TypeOK, listVars, timerVars, history
<1>10. CASE LoopUnlock
  BY <1>10 DEF LoopUnlock, TypeOK, listVars, timerVars, history, Handle
<1>11. CASE LoopDrop
  <2>1. cur \in Timers
    BY <1>11 DEF LoopDrop, ScanOver, TypeOK, Handle
  <2>2. Removed(List, cur) \in Lists
    BY <1>0, <2>1, RemovedType
  <2>3. ListTyped'
    BY <1>11, <2>2, SetListType DEF LoopDrop
  <2> QED BY <1>11, <2>1, <2>3 DEF LoopDrop, TypeOK, ListTyped, timerVars, history
<1>12. CASE LoopFire
  <2>1. cur \in Timers
    BY <1>12 DEF LoopFire, ScanOver, TypeOK, Handle
  <2> QED BY <1>12, <2>1 DEF LoopFire, TypeOK, listVars, timerVars
<1>13. CASE LoopRelink
  <2> DEFINE count == IF Repeat[cur] < 0 THEN 0 ELSE timeout_count[cur] + 1
             at    == [abs_timeout EXCEPT ![cur] = AbsTimeout(curtime, cur)]
  <2>1. cur \in Timers
    BY <1>13 DEF LoopRelink, TypeOK, Handle
  <2>2. count \in Nat
    BY <2>1 DEF TypeOK
  <2>3. at \in [Timers -> Nat]
    BY <2>1 DEF TypeOK, AbsTimeout
  <2>4. Removed(List, cur) \in Lists
    BY <1>0, <2>1, RemovedType
  <2>5. Added(Removed(List, cur), at, cur) \in Lists
    BY <2>1, <2>4, AddedType
  <2>6. ListTyped'
    BY <1>13, <2>4, <2>5, SetListType DEF LoopRelink
  <2>7. abs_timeout' \in [Timers -> Nat] /\ due' \in [Timers -> Nat]
        /\ status' \in [Timers -> {"IDLE", "RUNNING", "STOP"}]
    BY <1>13, <2>1, <2>3 DEF LoopRelink, TypeOK
  <2>8. timeout_count' \in [Timers -> Nat]
    BY <1>13, <2>1, <2>2 DEF LoopRelink, TypeOK
  <2> QED
    BY <1>13, <2>1, <2>6, <2>7, <2>8 DEF LoopRelink, TypeOK, ListTyped, Handle
<1>14. CASE UNCHANGED vars
  BY <1>14 DEF vars, TypeOK, listVars, timerVars, loopVars, history
<1> QED
  BY <1>1, <1>2, <1>3, <1>4, <1>5, <1>6, <1>7, <1>8, <1>9, <1>10, <1>11,
     <1>12, <1>13, <1>14 DEF Next, Client, Loop

(* The initial state is well typed.                                        *)
LEMMA TypeInit ==
  Init => TypeOK
BY TimerAssumption DEF Init, TypeOK, Handle

(* Every variable keeps its type, and the loop thread always works on a    *)
(* timer, never on NULL, between a callback and the relinking.             *)
THEOREM TimerTypeCorrect == Spec => []TypeOK
<1>1. Init => TypeOK
  BY TypeInit
<1>2. TypeOK /\ [Next]_vars => TypeOK'
  BY TypeStep
<1> QED BY <1>1, <1>2, PTL DEF Spec

-----------------------------------------------------------------------------
(* A timer that is stopped, or is being stopped, is not RUNNING: only      *)
(* p_timer_start sets that status.                                         *)
Halted ==
  \A h \in Timers :
    client[h] \in {"none", "unlink", "delete", "stopped"} => status[h] # "RUNNING"

StopInv == TypeOK /\ Halted /\ NoCallbackAfterStop

(* Halted and NoCallbackAfterStop are preserved by every step.             *)
LEMMA StopStep ==
  ASSUME StopInv, [Next]_vars
  PROVE  Halted' /\ NoCallbackAfterStop'
<1>0. TypeOK /\ TypeOK'
  BY TypeStep DEF StopInv
<1>a. /\ client \in [Timers -> {"none", "set", "link", "started", "unlink",
                               "delete", "stopped"}]
      /\ status \in [Timers -> {"IDLE", "RUNNING", "STOP"}]
      /\ loop = "relink" => cur \in Timers
  BY <1>0 DEF TypeOK, Handle
<1> USE <1>a DEF StopInv, Halted, NoCallbackAfterStop
<1>1. CASE Tick
  BY <1>1 DEF Tick, timerVars, loopVars
<1>2. ASSUME NEW h \in Timers, Add(h) PROVE Halted' /\ NoCallbackAfterStop'
  BY <1>2 DEF Add, ReadClock, loopVars
<1>3. ASSUME NEW h \in Timers, Start(h) PROVE Halted' /\ NoCallbackAfterStop'
  BY <1>3 DEF Start, ReadClock, loopVars
<1>4. ASSUME NEW h \in Timers, SetTimer(h) PROVE Halted' /\ NoCallbackAfterStop'
  BY <1>4 DEF SetTimer, loopVars
<1>5. ASSUME NEW h \in Timers, StartLink(h) PROVE Halted' /\ NoCallbackAfterStop'
  BY <1>5 DEF StartLink, timerVars, loopVars
<1>6. ASSUME NEW h \in Timers, Stop(h) PROVE Halted' /\ NoCallbackAfterStop'
  BY <1>6 DEF Stop, loopVars
<1>7. ASSUME NEW h \in Timers, StopUnlink(h) PROVE Halted' /\ NoCallbackAfterStop'
  BY <1>7 DEF StopUnlink, timerVars, loopVars, MutexFree
<1>8. CASE LoopTime \/ LoopLock \/ LoopUnlock \/ LoopDrop
  BY <1>8 DEF LoopTime, LoopLock, LoopUnlock, LoopDrop, timerVars
<1>9. CASE LoopFire
  <2>1. cur \in Timers
    BY <1>0, <1>9 DEF LoopFire, ScanOver, TypeOK, Handle
  <2> QED BY <1>9, <2>1 DEF LoopFire, timerVars
<1>10. CASE LoopRelink
  BY <1>10 DEF LoopRelink
<1>11. CASE UNCHANGED vars
  BY <1>11 DEF vars, timerVars, loopVars
<1> QED
  BY <1>1, <1>2, <1>3, <1>4, <1>5, <1>6, <1>7, <1>8, <1>9, <1>10, <1>11
  DEF Next, Client, Loop

(* Once p_timer_stop or p_timer_del has returned, the loop thread is not   *)
(* inside the callback of that timer: p_timer_del may free the userdata.   *)
THEOREM StopIsFinal == Spec => []NoCallbackAfterStop
<1>1. Init => StopInv
  BY TypeInit DEF Init, StopInv, Halted, NoCallbackAfterStop
<1>2. StopInv /\ [Next]_vars => StopInv'
  BY TypeStep, StopStep DEF StopInv
<1>3. StopInv => NoCallbackAfterStop
  BY DEF StopInv
<1> QED BY <1>1, <1>2, <1>3, PTL DEF Spec

-----------------------------------------------------------------------------
(* h is the timer whose callback has run and which is not yet relinked.    *)
Firing(h) == loop = "relink" /\ cur = h

(* The callbacks of a timer are counted, the one that just ran excepted,   *)
(* and a timer that is RUNNING or just ran has not used its repetitions.   *)
Counting ==
  \A h \in Timers : Repeat[h] > 0 =>
    /\ fires[h] <= timeout_count[h] + (IF Firing(h) THEN 1 ELSE 0)
    /\ timeout_count[h] <= Repeat[h]
    /\ Firing(h) \/ status[h] = "RUNNING" => timeout_count[h] < Repeat[h]

RepeatInv == TypeOK /\ Counting

(* Counting is preserved by every step.                                    *)
LEMMA CountingStep ==
  ASSUME RepeatInv, [Next]_vars
  PROVE  Counting'
<1>0. TypeOK /\ TypeOK'
  BY TypeStep DEF RepeatInv
<1>a. /\ fires \in [Timers -> Nat]
      /\ timeout_count \in [Timers -> Nat]
      /\ status \in [Timers -> {"IDLE", "RUNNING", "STOP"}]
      /\ Repeat \in [Timers -> Int]
      /\ loop = "relink" => cur \in Timers
  BY <1>0, TimerAssumption DEF TypeOK, Handle
<1> USE <1>a DEF RepeatInv, Counting, Firing
<1>1. CASE Tick
  BY <1>1 DEF Tick, timerVars, loopVars, history
<1>2. ASSUME NEW h \in Timers, Add(h) PROVE Counting'
  BY <1>2 DEF Add, ReadClock, loopVars, history
<1>3. ASSUME NEW h \in Timers, Start(h) PROVE Counting'
  BY <1>3 DEF Start, ReadClock, loopVars, history
<1>4. ASSUME NEW h \in Timers, SetTimer(h) PROVE Counting'
  BY <1>4 DEF SetTimer, loopVars
<1>5. ASSUME NEW h \in Timers, StartLink(h) PROVE Counting'
  BY <1>5 DEF StartLink, timerVars, loopVars, history
<1>6. ASSUME NEW h \in Timers, Stop(h) PROVE Counting'
  BY <1>6 DEF Stop, loopVars
<1>7. ASSUME NEW h \in Timers, StopUnlink(h) PROVE Counting'
  BY <1>7 DEF StopUnlink, timerVars, loopVars, history
<1>8. CASE LoopTime \/ LoopLock \/ LoopUnlock \/ LoopDrop
  BY <1>8 DEF LoopTime, LoopLock, LoopUnlock, LoopDrop, timerVars, history
<1>9. CASE LoopFire
  <2>1. cur \in Timers
    BY <1>0, <1>9 DEF LoopFire, ScanOver, TypeOK, Handle
  <2> QED BY <1>9, <2>1 DEF LoopFire, timerVars
<1>10. CASE LoopRelink
  <2>1. cur \in Timers /\ fires' = fires /\ loop' = "scan"
    BY <1>10 DEF LoopRelink
  <2>2. timeout_count' = [timeout_count EXCEPT ![cur] =
                            IF Repeat[cur] < 0 THEN 0 ELSE timeout_count[cur] + 1]
    BY <1>10 DEF LoopRelink
  <2>3. \/ /\ status' = status
           /\ timeout_count'[cur] < Repeat[cur] \/ Repeat[cur] < 0
        \/ status' = [status EXCEPT ![cur] = "STOP"]
    BY <1>10, <2>1, <2>2 DEF LoopRelink, Again
  <2> QED BY <1>10, <2>1, <2>2, <2>3 DEF LoopRelink
<1>11. CASE UNCHANGED vars
  BY <1>11 DEF vars, timerVars, loopVars, history
<1> QED
  BY <1>1, <1>2, <1>3, <1>4, <1>5, <1>6, <1>7, <1>8, <1>9, <1>10, <1>11
  DEF Next, Client, Loop

(* A timer with a finite repeat count runs its callback at most that often *)
(* per start, also when it is restarted while its callback runs.           *)
THEOREM RepeatCorrect == Spec => []RepeatBound
<1>1. Init => RepeatInv
  BY TypeInit, TimerAssumption DEF Init, RepeatInv, Counting, Firing
<1>2. RepeatInv /\ [Next]_vars => RepeatInv'
  BY TypeStep, CountingStep DEF RepeatInv
<1>3. RepeatInv => RepeatBound
  BY TimerAssumption DEF RepeatInv, TypeOK, Counting, Firing, RepeatBound
<1> QED BY <1>1, <1>2, <1>3, PTL DEF Spec

-----------------------------------------------------------------------------
(* Callbacks run in time.  due and abs_timeout differ only while           *)
(* p_timer_start is between reading the clock and adding timeout_ms, and   *)
(* the loop thread never works with a clock that is ahead.                 *)
DueInv ==
  /\ TypeOK
  /\ curtime <= now
  /\ \A h \in Timers : client[h] # "set" => due[h] = abs_timeout[h]

(* DueInv is preserved by every step.                                      *)
LEMMA DueStep ==
  ASSUME DueInv, [Next]_vars
  PROVE  DueInv'
<1>0. TypeOK /\ TypeOK'
  BY TypeStep DEF DueInv
<1>a. /\ now \in Int /\ curtime \in Int /\ 0 <= now
      /\ abs_timeout \in [Timers -> Nat]
      /\ due \in [Timers -> Nat]
      /\ DOMAIN client = Timers
  BY <1>0, TimerAssumption DEF TypeOK
<1> USE <1>0, <1>a DEF DueInv
<1>1. CASE Tick
  BY <1>1 DEF Tick, timerVars, loopVars, history
<1>2. ASSUME NEW h \in Timers, Add(h) PROVE DueInv'
  BY <1>2 DEF Add, ReadClock, loopVars, history
<1>3. ASSUME NEW h \in Timers, Start(h) PROVE DueInv'
  BY <1>3 DEF Start, ReadClock, loopVars, history
<1>4. ASSUME NEW h \in Timers, SetTimer(h) PROVE DueInv'
  <2>1. PICK t : t = AbsTimeout(abs_timeout[h], h)
    OBVIOUS
  <2>2. abs_timeout' = [abs_timeout EXCEPT ![h] = t] /\ due' = [due EXCEPT ![h] = t]
    BY <1>4, <2>1 DEF SetTimer
  <2> QED BY <1>4, <2>2 DEF SetTimer, loopVars
<1>5. ASSUME NEW h \in Timers, StartLink(h) PROVE DueInv'
  BY <1>5 DEF StartLink, timerVars, loopVars, history
<1>6. ASSUME NEW h \in Timers, Stop(h) PROVE DueInv'
  BY <1>6 DEF Stop, loopVars
<1>7. ASSUME NEW h \in Timers, StopUnlink(h) PROVE DueInv'
  BY <1>7 DEF StopUnlink, timerVars, loopVars, history
<1>8. CASE LoopTime \/ LoopLock \/ LoopUnlock \/ LoopDrop \/ LoopFire
  BY <1>8 DEF LoopTime, LoopLock, LoopUnlock, LoopDrop, LoopFire, timerVars, history
<1>9. CASE LoopRelink
  <2>1. cur \in Timers
    BY <1>9 DEF LoopRelink, TypeOK, Handle
  <2>2. PICK t : t = AbsTimeout(curtime, cur)
    OBVIOUS
  <2>3. \/ /\ abs_timeout' = [abs_timeout EXCEPT ![cur] = t]
           /\ due' = [due EXCEPT ![cur] = t]
        \/ UNCHANGED <<abs_timeout, due>>
    BY <1>9, <2>1, <2>2 DEF LoopRelink
  <2> QED BY <1>9, <2>1, <2>3 DEF LoopRelink
<1>10. CASE UNCHANGED vars
  BY <1>10 DEF vars, timerVars, loopVars, history
<1> QED
  BY <1>1, <1>2, <1>3, <1>4, <1>5, <1>6, <1>7, <1>8, <1>9, <1>10
  DEF Next, Client, Loop

(* Only a timer that p_timer_start is just restarting can fire too early:  *)
(* the window between its two writes of abs_timeout is the only one.       *)
THEOREM EarlyCorrect == Spec => EarlyOnlyInRestart
<1>1. Init => DueInv
  BY TypeInit DEF Init, DueInv
<1>2. DueInv /\ [Next]_vars => DueInv'
  BY DueStep
<1>3. DueInv /\ [Next]_vars => [LoopFire => due[cur] <= now \/ client[cur] = "set"]_vars
  <2> SUFFICES ASSUME DueInv, LoopFire PROVE due[cur] <= now \/ client[cur] = "set"
    OBVIOUS
  <2>1. cur \in Timers /\ ~(curtime < abs_timeout[cur])
    BY DEF DueInv, LoopFire, ScanOver, TypeOK, Handle
  <2> QED BY <2>1, TimerAssumption DEF DueInv, TypeOK
<1> QED BY <1>1, <1>2, <1>3, PTL DEF Spec, EarlyOnlyInRestart

-----------------------------------------------------------------------------
(* The list.  A list is described by the sequence of its members, given as *)
(* their number n and a function s on 1 .. n.                              *)

(* The n timers s[1], ..., s[n] are linked to each other in l, both ways.  *)
Chained(l, n, s) ==
  /\ n \in Nat
  /\ s \in [1 .. n -> Timers]
  /\ \A i, j \in 1 .. n : s[i] = s[j] => i = j
  /\ \A i \in 1 .. n : l.next[s[i]] = IF i = n THEN NULL ELSE s[i + 1]
  /\ \A i \in 1 .. n : l.prev[s[i]] = IF i = 1 THEN NULL ELSE s[i - 1]

(* The head of a chain.                                                    *)
First(n, s) == IF n = 0 THEN NULL ELSE s[1]

(* Its members.                                                            *)
On(n, s) == {s[i] : i \in 1 .. n}

(* w walks along nx from h.                                                *)
WalkOf(h, nx, w) ==
  w = [k \in 0 .. N |-> IF k = 0 THEN h
                        ELSE IF w[k - 1] = NULL THEN NULL ELSE nx[w[k - 1]]]

(* The walk along a chain.                                                 *)
Along(n, s) == [k \in 0 .. N |-> IF k < n THEN s[k + 1] ELSE NULL]

(* Along(n, s) is the walk along next from the head of a chain.            *)
LEMMA WalkExists ==
  ASSUME NEW l, NEW n, NEW s, Chained(l, n, s)
  PROVE  WalkOf(First(n, s), l.next, Along(n, s))
<1> DEFINE w == Along(n, s)
           v(k) == IF k = 0 THEN First(n, s)
                   ELSE IF w[k - 1] = NULL THEN NULL ELSE l.next[w[k - 1]]
<1>0. N \in Nat /\ NULL \notin Timers
  BY TimerAssumption, FS_CardinalityType DEF N
<1>1. ASSUME NEW k \in 0 .. N PROVE w[k] = v(k)
  <2>1. CASE k = 0
    BY <2>1, <1>0 DEF Along, First, Chained
  <2>2. CASE k # 0
    <3>1. k - 1 \in 0 .. N /\ w[k] = (IF k < n THEN s[k + 1] ELSE NULL)
      BY <1>0, <2>2 DEF Along
    <3>2. w[k - 1] = IF k - 1 < n THEN s[k] ELSE NULL
      BY <2>2, <3>1 DEF Along
    <3>3. CASE k - 1 < n
      <4>1. k \in 1 .. n /\ s[k] \in Timers /\ n \in Nat
        BY <2>2, <3>3, <1>0 DEF Chained
      <4>2. l.next[s[k]] = IF k = n THEN NULL ELSE s[k + 1]
        BY <4>1 DEF Chained
      <4>3. w[k - 1] = s[k] /\ s[k] # NULL
        BY <4>1, <3>2, <3>3, <1>0
      <4>4. v(k) = l.next[s[k]]
        BY <2>2, <4>3
      <4> HIDE DEF w, v
      <4> QED BY <3>1, <4>1, <4>2, <4>4
    <3>4. CASE ~(k - 1 < n)
      BY <2>2, <3>1, <3>2, <3>4, <1>0 DEF Chained
    <3> QED BY <3>3, <3>4
  <2> QED BY <2>1, <2>2
<1>2. w = [k \in 0 .. N |-> v(k)]
  BY <1>1 DEF Along
<1> QED BY <1>2 DEF WalkOf

(* Node is such a walk, as soon as there is one.                           *)
LEMMA NodeWalk ==
  ASSUME NEW h, NEW nx, NEW w, WalkOf(h, nx, w)
  PROVE  WalkOf(h, nx, Node(h, nx))
<1>1. Node(h, nx) = CHOOSE v : WalkOf(h, nx, v)
  BY DEF Node, WalkOf
<1> QED BY <1>1

(* A walk, step by step.                                                   *)
LEMMA WalkStep ==
  ASSUME NEW h, NEW nx, NEW w, WalkOf(h, nx, w), NEW k \in 0 .. N
  PROVE  w[k] = IF k = 0 THEN h
                ELSE IF w[k - 1] = NULL THEN NULL ELSE nx[w[k - 1]]
<1>1. PICK g : g = [j \in 0 .. N |-> IF j = 0 THEN h
                      ELSE IF w[j - 1] = NULL THEN NULL ELSE nx[w[j - 1]]]
  OBVIOUS
<1>2. g[k] = IF k = 0 THEN h ELSE IF w[k - 1] = NULL THEN NULL ELSE nx[w[k - 1]]
  BY <1>1
<1>3. w = g
  BY <1>1 DEF WalkOf
<1> QED BY <1>2, <1>3

(* There is only one walk: two differ at no least place.                   *)
LEMMA WalkUnique ==
  ASSUME NEW h, NEW nx, NEW v, NEW w, WalkOf(h, nx, v), WalkOf(h, nx, w)
  PROVE  \A k \in 0 .. N : v[k] = w[k]
<1>0. N \in Nat
  BY TimerAssumption, FS_CardinalityType DEF N
<1> DEFINE T == {k \in 0 .. N : v[k] # w[k]}
<1>1. SUFFICES ASSUME T # {} PROVE FALSE
  OBVIOUS
<1>2. PICK k \in T : \A j \in T : k <= j
  <2>1. T \subseteq Nat
    BY <1>0
  <2> HIDE DEF T
  <2> QED BY <2>1, <1>1, Order!LeastNumber
<1>a. v[k] = IF k = 0 THEN h ELSE IF v[k - 1] = NULL THEN NULL ELSE nx[v[k - 1]]
  BY WalkStep
<1>b. w[k] = IF k = 0 THEN h ELSE IF w[k - 1] = NULL THEN NULL ELSE nx[w[k - 1]]
  BY WalkStep
<1>3. k # 0
  BY <1>a, <1>b
<1>4. k - 1 \in 0 .. N /\ k - 1 \notin T
  BY <1>0, <1>2, <1>3
<1>5. v[k - 1] = w[k - 1]
  BY <1>4
<1> QED BY <1>a, <1>b, <1>3, <1>5

(* From the head of a chain, Node visits its members and then stays at     *)
(* NULL.                                                                   *)
LEMMA NodeChain ==
  ASSUME NEW l, NEW n, NEW s, Chained(l, n, s), l.head = First(n, s)
  PROVE  \A k \in 0 .. N : Node(l.head, l.next)[k] = IF k < n THEN s[k + 1] ELSE NULL
<1>1. WalkOf(First(n, s), l.next, Along(n, s))
  BY WalkExists
<1>2. WalkOf(First(n, s), l.next, Node(First(n, s), l.next))
  BY <1>1, NodeWalk
<1>3. \A k \in 0 .. N : Node(First(n, s), l.next)[k] = Along(n, s)[k]
  BY <1>1, <1>2, WalkUnique
<1> QED BY <1>3 DEF Along

(* A chain has no more members than there are timers.                      *)
LEMMA ChainShort ==
  ASSUME NEW l, NEW n, NEW s, Chained(l, n, s)
  PROVE  n <= N
<1>1. s \in Injection(1 .. n, Timers)
  BY DEF Chained, Injection, IsInjective
<1>2. Cardinality(1 .. n) <= Cardinality(Timers)
  BY <1>1, TimerAssumption, FS_Injection
<1>3. Cardinality(1 .. n) = n
  <2>1. n \in Nat
    BY DEF Chained
  <2>2. Cardinality(1 .. n) = IF 1 > n THEN 0 ELSE n - 1 + 1
    BY <2>1, FS_Interval
  <2> QED BY <2>1, <2>2
<1> QED BY <1>2, <1>3 DEF N

-----------------------------------------------------------------------------
(* The k members of s after place p.                                       *)
Slice(s, p, k) == [i \in 1 .. k |-> s[p + i]]

(* Neighbours of s are in order, unless one of them is in D.               *)
InOrder(n, s, at, D) ==
  \A i \in 1 .. n - 1 : s[i] \in D \/ s[i + 1] \in D \/ at[s[i]] <= at[s[i + 1]]

(* What a slice keeps of the list it is taken from.                        *)
LEMMA SliceMembers ==
  ASSUME NEW l, NEW n, NEW s, Chained(l, n, s),
         NEW p \in 0 .. n, NEW k \in 0 .. n - p
  PROVE  /\ k \in Nat
         /\ Slice(s, p, k) \in [1 .. k -> Timers]
         /\ \A i \in 1 .. k : p + i \in 1 .. n /\ Slice(s, p, k)[i] = s[p + i]
         /\ \A i, j \in 1 .. k : Slice(s, p, k)[i] = Slice(s, p, k)[j] => i = j
         /\ On(k, Slice(s, p, k)) \subseteq On(n, s)
<1>0. n \in Nat /\ s \in [1 .. n -> Timers]
  BY DEF Chained
<1>1. k \in Nat
  BY <1>0
<1>2. ASSUME NEW i \in 1 .. k
      PROVE  p + i \in 1 .. n /\ Slice(s, p, k)[i] = s[p + i]
  BY <1>0 DEF Slice
<1>3. Slice(s, p, k) \in [1 .. k -> Timers]
  BY <1>0 DEF Slice
<1>4. ASSUME NEW i \in 1 .. k, NEW j \in 1 .. k, Slice(s, p, k)[i] = Slice(s, p, k)[j]
      PROVE  i = j
  <2>1. s[p + i] = s[p + j] /\ p + i \in 1 .. n /\ p + j \in 1 .. n
    BY <1>2, <1>4
  <2>2. p + i = p + j
    BY <2>1 DEF Chained
  <2> QED BY <1>0, <2>2
<1>5. On(k, Slice(s, p, k)) \subseteq On(n, s)
  BY <1>2 DEF On
<1> QED BY <1>1, <1>2, <1>3, <1>4, <1>5

(* A slice of a list in order is in order.                                 *)
LEMMA SliceOrder ==
  ASSUME NEW l, NEW n, NEW s, Chained(l, n, s),
         NEW p \in 0 .. n, NEW k \in 0 .. n - p,
         NEW at, NEW D, InOrder(n, s, at, D)
  PROVE  InOrder(k, Slice(s, p, k), at, D)
<1> DEFINE t == Slice(s, p, k)
<1>0. n \in Nat
  BY DEF Chained
<1> SUFFICES ASSUME NEW i \in 1 .. k - 1
             PROVE  t[i] \in D \/ t[i + 1] \in D \/ at[t[i]] <= at[t[i + 1]]
  BY DEF InOrder
<1>1. i \in 1 .. k /\ i + 1 \in 1 .. k /\ p + i \in 1 .. n - 1 /\ p + (i + 1) = (p + i) + 1
  BY <1>0
<1>2. t[i] = s[p + i] /\ t[i + 1] = s[(p + i) + 1]
  BY <1>1, SliceMembers
<1>3. s[p + i] \in D \/ s[(p + i) + 1] \in D \/ at[s[p + i]] <= at[s[(p + i) + 1]]
  BY <1>1 DEF InOrder
<1> HIDE DEF t
<1> QED BY <1>2, <1>3

(* _timer_list_remove, link by link.                                       *)
LEMMA RemovedLinks ==
  ASSUME NEW l \in Lists, NEW h \in Timers, NEW x \in Timers
  PROVE  /\ Removed(l, h).next[x] =
              IF x = h \/ x = l.prev[h] THEN NULL ELSE l.next[x]
         /\ Removed(l, h).prev[x] =
              IF x = h \/ x = l.next[h] THEN NULL ELSE l.prev[x]
BY DEF Removed, Cut

(* Taking out the timer at place p leaves the part before it a chain, ...  *)
LEMMA CutBefore ==
  ASSUME NEW l \in Lists, NEW n, NEW s, Chained(l, n, s), NEW p \in 1 .. n
  PROVE  Chained(Removed(l, s[p]), p - 1, Slice(s, 0, p - 1))
<1> DEFINE r == Removed(l, s[p])
           t == Slice(s, 0, p - 1)
           q == p - 1
<1>0. n \in Nat /\ s \in [1 .. n -> Timers] /\ s[p] \in Timers
  BY DEF Chained
<1>1. q \in 0 .. n - 0 /\ 0 \in 0 .. n
  BY <1>0
<1>2. /\ q \in Nat
      /\ t \in [1 .. q -> Timers]
      /\ \A i, j \in 1 .. q : t[i] = t[j] => i = j
      /\ \A i \in 1 .. q : i \in 1 .. n /\ t[i] = s[i]
  <2>1. /\ q \in Nat
        /\ t \in [1 .. q -> Timers]
        /\ \A i, j \in 1 .. q : t[i] = t[j] => i = j
        /\ \A i \in 1 .. q : 0 + i \in 1 .. n /\ t[i] = s[0 + i]
    <3> HIDE DEF t, q
    <3>1. Chained(l, n, s) /\ 0 \in 0 .. n /\ q \in 0 .. n - 0 /\ t = Slice(s, 0, q)
      BY <1>1 DEF t, q
    <3> QED BY <3>1, SliceMembers
  <2>2. \A i \in 1 .. q : 0 + i = i
    BY <1>0
  <2> HIDE DEF t, q
  <2> QED BY <2>1, <2>2
<1>3. ASSUME NEW i \in 1 .. q
      PROVE  /\ r.next[t[i]] = IF i = q THEN NULL ELSE t[i + 1]
             /\ r.prev[t[i]] = IF i = 1 THEN NULL ELSE t[i - 1]
  <2>1. i \in 1 .. n /\ t[i] = s[i] /\ s[i] \in Timers /\ i < p
    BY <1>0, <1>2
  <2>2. s[i] # s[p]
    BY <2>1 DEF Chained
  <2>3. l.prev[s[p]] = s[p - 1] /\ p - 1 \in 1 .. n
    BY <2>1, <1>0 DEF Chained
  <2>4. l.next[s[i]] = s[i + 1] /\ i + 1 \in 1 .. n
    BY <2>1, <1>0 DEF Chained
  <2>5. (s[i] = l.prev[s[p]]) <=> (i = q)
    BY <2>1, <2>3 DEF Chained
  <2>6. r.next[s[i]] = IF i = q THEN NULL ELSE s[i + 1]
    BY <2>1, <2>2, <2>4, <2>5, <1>0, RemovedLinks
  <2>7. s[i] # l.next[s[p]]
    <3>1. l.next[s[p]] = IF p = n THEN NULL ELSE s[p + 1]
      BY DEF Chained
    <3>2. p # n => p + 1 \in 1 .. n /\ s[i] # s[p + 1]
      BY <2>1, <1>0 DEF Chained
    <3> QED BY <2>1, <3>1, <3>2, TimerAssumption
  <2>8. r.prev[s[i]] = IF i = 1 THEN NULL ELSE s[i - 1]
    <3>1. r.prev[s[i]] = l.prev[s[i]]
      BY <2>1, <2>2, <2>7, <1>0, RemovedLinks
    <3>2. l.prev[s[i]] = IF i = 1 THEN NULL ELSE s[i - 1]
      BY <2>1 DEF Chained
    <3> QED BY <3>1, <3>2
  <2>9. /\ i # q => t[i + 1] = s[i + 1]
        /\ i # 1 => t[i - 1] = s[i - 1]
    BY <1>2, <2>1
  <2> HIDE DEF r, t, q
  <2> QED BY <2>1, <2>6, <2>8, <2>9
<1> HIDE DEF r, t
<1>4. Chained(r, q, t)
  BY <1>2, <1>3 DEF Chained
<1> QED BY <1>4 DEF r, t

(* ... and the part after it another, ...                                  *)
LEMMA CutAfter ==
  ASSUME NEW l \in Lists, NEW n, NEW s, Chained(l, n, s), NEW p \in 1 .. n
  PROVE  Chained(Removed(l, s[p]), n - p, Slice(s, p, n - p))
<1> DEFINE r == Removed(l, s[p])
           t == Slice(s, p, n - p)
           q == n - p
<1>0. n \in Nat /\ s \in [1 .. n -> Timers] /\ s[p] \in Timers
  BY DEF Chained
<1>1. q \in 0 .. n - p /\ p \in 0 .. n
  BY <1>0
<1>2. /\ q \in Nat
      /\ t \in [1 .. q -> Timers]
      /\ \A i, j \in 1 .. q : t[i] = t[j] => i = j
      /\ \A i \in 1 .. q : p + i \in 1 .. n /\ t[i] = s[p + i]
  BY <1>0, <1>1, SliceMembers
<1>3. ASSUME NEW i \in 1 .. q
      PROVE  /\ r.next[t[i]] = IF i = q THEN NULL ELSE t[i + 1]
             /\ r.prev[t[i]] = IF i = 1 THEN NULL ELSE t[i - 1]
  <2> PICK k \in 1 .. n : k = p + i
    BY <1>2
  <2>1. t[i] = s[k] /\ s[k] \in Timers /\ p < k
    BY <1>0, <1>2
  <2>2. s[k] # s[p]
    BY <2>1 DEF Chained
  <2>3. p + 1 \in 1 .. n /\ l.next[s[p]] = s[p + 1]
    BY <2>1, <1>0 DEF Chained
  <2>4. k - 1 \in 1 .. n /\ l.prev[s[k]] = s[k - 1]
    BY <2>1, <1>0 DEF Chained
  <2>5. (s[k] = l.next[s[p]]) <=> (i = 1)
    BY <2>1, <2>3 DEF Chained
  <2>6. r.prev[s[k]] = IF i = 1 THEN NULL ELSE s[k - 1]
    BY <2>1, <2>2, <2>4, <2>5, <1>0, RemovedLinks
  <2>7. s[k] # l.prev[s[p]]
    <3>1. l.prev[s[p]] = IF p = 1 THEN NULL ELSE s[p - 1]
      BY DEF Chained
    <3>2. p # 1 => p - 1 \in 1 .. n /\ s[k] # s[p - 1]
      BY <2>1, <1>0 DEF Chained
    <3> QED BY <2>1, <3>1, <3>2, TimerAssumption
  <2>8. r.next[s[k]] = IF k = n THEN NULL ELSE s[k + 1]
    <3>1. r.next[s[k]] = l.next[s[k]]
      BY <2>1, <2>2, <2>7, <1>0, RemovedLinks
    <3>2. l.next[s[k]] = IF k = n THEN NULL ELSE s[k + 1]
      BY <2>1 DEF Chained
    <3> QED BY <3>1, <3>2
  <2>9. /\ i # q => t[i + 1] = s[k + 1]
        /\ i # 1 => t[i - 1] = s[k - 1]
        /\ (i = q) <=> (k = n)
    <3>1. i # q => i + 1 \in 1 .. q /\ p + (i + 1) = k + 1
      BY <1>0
    <3>2. i # 1 => i - 1 \in 1 .. q /\ p + (i - 1) = k - 1
      BY <1>0
    <3>3. (i = q) <=> (k = n)
      BY <1>0
    <3> HIDE DEF t, q
    <3> QED BY <1>2, <3>1, <3>2, <3>3
  <2> HIDE DEF r, t, q
  <2> QED BY <2>1, <2>6, <2>8, <2>9
<1> HIDE DEF r, t, q
<1>4. Chained(r, q, t)
  BY <1>2, <1>3 DEF Chained
<1> QED BY <1>4 DEF r, t, q

(* ... does not touch a chain it has no timer in common with, ...          *)
LEMMA CutApart ==
  ASSUME NEW l \in Lists, NEW n, NEW s, Chained(l, n, s), NEW p \in 1 .. n,
         NEW m, NEW f, Chained(l, m, f), On(n, s) \cap On(m, f) = {}
  PROVE  Chained(Removed(l, s[p]), m, f)
<1> DEFINE r == Removed(l, s[p])
<1>0. n \in Nat /\ s \in [1 .. n -> Timers] /\ s[p] \in Timers /\ f \in [1 .. m -> Timers]
  BY DEF Chained
<1>1. ASSUME NEW i \in 1 .. m
      PROVE  r.next[f[i]] = l.next[f[i]] /\ r.prev[f[i]] = l.prev[f[i]]
  <2>1. f[i] \in Timers /\ f[i] \notin On(n, s)
    BY <1>0 DEF On
  <2>2. /\ s[p] \in On(n, s)
        /\ p # n => s[p + 1] \in On(n, s)
        /\ p # 1 => s[p - 1] \in On(n, s)
    BY <1>0 DEF On
  <2>3. /\ l.next[s[p]] = IF p = n THEN NULL ELSE s[p + 1]
        /\ l.prev[s[p]] = IF p = 1 THEN NULL ELSE s[p - 1]
    BY DEF Chained
  <2>4. f[i] # s[p] /\ f[i] # l.next[s[p]] /\ f[i] # l.prev[s[p]]
    BY <2>1, <2>2, <2>3, TimerAssumption
  <2> QED BY <1>0, <2>1, <2>4, RemovedLinks
<1> HIDE DEF r
<1>2. Chained(r, m, f)
  BY <1>1 DEF Chained
<1> QED BY <1>2 DEF r

(* ... and moves the head if it was the first of its chain.                *)
LEMMA CutHead ==
  ASSUME NEW l \in Lists, NEW n, NEW s, Chained(l, n, s), NEW p \in 1 .. n
  PROVE  /\ l.next[s[p]] = First(n - p, Slice(s, p, n - p))
         /\ Removed(l, s[p]).head =
              IF p = 1 THEN First(n - p, Slice(s, p, n - p)) ELSE l.head
<1>0. n \in Nat /\ s \in [1 .. n -> Timers] /\ s[p] \in Timers
  BY DEF Chained
<1>1. /\ l.next[s[p]] = IF p = n THEN NULL ELSE s[p + 1]
      /\ l.prev[s[p]] = IF p = 1 THEN NULL ELSE s[p - 1]
  BY DEF Chained
<1>2. First(n - p, Slice(s, p, n - p)) = IF p = n THEN NULL ELSE s[p + 1]
  BY <1>0 DEF First, Slice
<1>3. p # 1 => s[p - 1] # NULL
  BY <1>0, TimerAssumption
<1>4. Removed(l, s[p]).head = IF l.prev[s[p]] = NULL THEN l.next[s[p]] ELSE l.head
  BY DEF Removed
<1> QED BY <1>1, <1>2, <1>3, <1>4

-----------------------------------------------------------------------------
(* p is the place where _timer_list_add puts h into the list s.            *)
PlaceOf(n, s, at, h, p) ==
  /\ p \in 1 .. n + 1
  /\ \A i \in 1 .. n : i < p => ~Later(at, s[i], h)
  /\ p <= n => Later(at, s[p], h)

PutAt(l, n, s, p, h) ==
  IF n = 0 THEN [head |-> h,
                 prev |-> [l.prev EXCEPT ![h] = NULL],
                 next |-> [l.next EXCEPT ![h] = NULL]]
  ELSE IF p <= n THEN InsertBefore(l, s[p], h)
  ELSE InsertAfter(l, s[n], h)

(* _timer_list_add finds such a place: the search of the code ends before  *)
(* the first timer that times out later, or at the end of the list.        *)
LEMMA AddedPlace ==
  ASSUME NEW l \in Lists, NEW n, NEW s, Chained(l, n, s), l.head = First(n, s),
         NEW at, NEW h \in Timers
  PROVE  \E p : PlaceOf(n, s, at, h, p) /\ Added(l, at, h) = PutAt(l, n, s, p, h)
<1> DEFINE node     == Node(l.head, l.next)
           first(c) == \E k \in 0 .. N :
                         /\ node[k] = c
                         /\ Later(at, c, h)
                         /\ \A j \in 0 .. k - 1 : ~Later(at, node[j], h)
           last(c)  == l.next[c] = NULL /\ \E k \in 0 .. N : node[k] = c
           empty    == [head |-> h,
                        prev |-> [l.prev EXCEPT ![h] = NULL],
                        next |-> [l.next EXCEPT ![h] = NULL]]
           before   == CHOOSE c \in Timers : first(c)
           after    == CHOOSE c \in Timers : last(c)
<1>0. Added(l, at, h) =
        IF l.head = NULL THEN empty
        ELSE IF \E c \in Timers : first(c) THEN InsertBefore(l, before, h)
        ELSE IF \E c \in Timers : last(c) THEN InsertAfter(l, after, h)
        ELSE l
  BY DEF Added
<1>1. /\ n \in Nat /\ s \in [1 .. n -> Timers] /\ n <= N /\ N \in Nat
      /\ NULL \notin Timers
  <2>1. n <= N
    BY ChainShort
  <2> QED BY <2>1, TimerAssumption, FS_CardinalityType DEF Chained, N
<1>2. \A k \in 0 .. N : node[k] = IF k < n THEN s[k + 1] ELSE NULL
  BY NodeChain
<1> HIDE DEF node
<1>3. CASE n = 0
  <2>1. l.head = NULL
    BY <1>3 DEF First
  <2>2. PlaceOf(n, s, at, h, 1)
    BY <1>3 DEF PlaceOf
  <2>3. PutAt(l, n, s, 1, h) = empty
    BY <1>3 DEF PutAt
  <2> QED BY <1>0, <2>1, <2>2, <2>3
<1>4. CASE n # 0
  <2>0. l.head # NULL
    BY <1>1, <1>4 DEF First
  <2>1. CASE \E c \in Timers : first(c)
    <3>1. before \in Timers /\ first(before)
      BY <2>1
    <3> HIDE DEF before
    <3>2. PICK k \in 0 .. N : /\ node[k] = before
                              /\ Later(at, before, h)
                              /\ \A j \in 0 .. k - 1 : ~Later(at, node[j], h)
      BY <3>1
    <3>3. k < n /\ before = s[k + 1]
      BY <1>1, <1>2, <3>1, <3>2
    <3>4. ASSUME NEW i \in 1 .. n, i < k + 1 PROVE ~Later(at, s[i], h)
      <4>1. i - 1 \in 0 .. k - 1 /\ i - 1 \in 0 .. N /\ i - 1 < n /\ (i - 1) + 1 = i
        BY <1>1, <3>4
      <4>2. node[i - 1] = s[i]
        BY <1>2, <4>1
      <4> QED BY <3>2, <4>1, <4>2
    <3>5. PlaceOf(n, s, at, h, k + 1)
      BY <1>1, <3>2, <3>3, <3>4 DEF PlaceOf
    <3>6. Added(l, at, h) = PutAt(l, n, s, k + 1, h)
      <4>1. Added(l, at, h) = InsertBefore(l, s[k + 1], h)
        BY <1>0, <2>0, <2>1, <3>3 DEF before
      <4>2. k + 1 <= n
        BY <1>1, <3>3
      <4> QED BY <1>4, <4>1, <4>2 DEF PutAt
    <3> QED BY <3>5, <3>6
  <2>2. CASE ~\E c \in Timers : first(c)
    <3>1. ASSUME NEW i \in 1 .. n, Later(at, s[i], h) PROVE FALSE
      <4> DEFINE T == {j \in 1 .. n : Later(at, s[j], h)}
      <4>1. T \subseteq Nat /\ T # {}
        BY <1>1, <3>1
      <4>2. PICK j \in T : \A k \in T : j <= k
        <5> HIDE DEF T
        <5> QED BY <4>1, Order!LeastNumber
      <4>3. /\ j \in 1 .. n /\ j - 1 \in 0 .. N /\ j - 1 < n /\ (j - 1) + 1 = j
            /\ s[j] \in Timers /\ Later(at, s[j], h)
        BY <1>1, <4>2
      <4>4. node[j - 1] = s[j]
        BY <1>2, <4>3
      <4>5. ASSUME NEW k \in 0 .. (j - 1) - 1 PROVE ~Later(at, node[k], h)
        <5>1. k \in 0 .. N /\ k < n /\ k + 1 \in 1 .. n /\ ~(j <= k + 1)
          BY <1>1, <4>3
        <5>2. node[k] = s[k + 1]
          BY <1>2, <5>1
        <5> QED BY <4>2, <5>1, <5>2
      <4>6. first(s[j])
        BY <4>3, <4>4, <4>5
      <4> HIDE DEF first, T
      <4> QED BY <2>2, <4>3, <4>6
    <3>2. PlaceOf(n, s, at, h, n + 1)
      BY <1>1, <3>1 DEF PlaceOf
    <3>3. last(s[n]) /\ s[n] \in Timers
      <4>1. n \in 1 .. n /\ n - 1 \in 0 .. N /\ (n - 1) + 1 = n /\ n - 1 < n
        BY <1>1, <1>4
      <4>2. l.next[s[n]] = NULL
        BY <4>1 DEF Chained
      <4>3. node[n - 1] = s[n]
        BY <1>2, <4>1
      <4> QED BY <1>1, <4>1, <4>2, <4>3
    <3>4. ASSUME NEW c \in Timers, last(c) PROVE c = s[n]
      <4>1. PICK k \in 0 .. N : node[k] = c
        BY <3>4
      <4>2. k < n /\ c = s[k + 1] /\ k + 1 \in 1 .. n
        BY <1>1, <1>2, <4>1
      <4>3. l.next[s[k + 1]] = IF k + 1 = n THEN NULL ELSE s[(k + 1) + 1]
        BY <4>2 DEF Chained
      <4>4. k + 1 # n => (k + 1) + 1 \in 1 .. n
        BY <1>1, <4>2
      <4>5. k + 1 = n
        BY <1>1, <3>4, <4>2, <4>3, <4>4
      <4> QED BY <4>2, <4>5
    <3>5. after = s[n]
      <4> HIDE DEF last
      <4> QED BY <3>3, <3>4
    <3>6. Added(l, at, h) = InsertAfter(l, s[n], h)
      <4> HIDE DEF first, last, before, after, empty
      <4> QED BY <1>0, <2>0, <2>2, <3>3, <3>5
    <3>7. PutAt(l, n, s, n + 1, h) = InsertAfter(l, s[n], h)
      BY <1>1, <1>4 DEF PutAt
    <3> QED BY <3>2, <3>6, <3>7
  <2> QED BY <2>1, <2>2
<1> QED BY <1>3, <1>4

(* r is l with h linked in at place p.                                     *)
Spliced(l, n, s, p, h, r) ==
  /\ r.head = IF p = 1 THEN h ELSE l.head
  /\ \A x \in Timers :
       /\ r.next[x] = IF x = h THEN (IF p <= n THEN s[p] ELSE NULL)
                      ELSE IF p > 1 /\ x = s[p - 1] THEN h ELSE l.next[x]
       /\ r.prev[x] = IF x = h THEN (IF p > 1 THEN s[p - 1] ELSE NULL)
                      ELSE IF p <= n /\ x = s[p] THEN h ELSE l.prev[x]

(* All three branches of _timer_list_add link the timer in.                *)
LEMMA PutSplices ==
  ASSUME NEW l \in Lists, NEW n, NEW s, Chained(l, n, s),
         NEW h \in Timers, h \notin On(n, s), NEW p \in 1 .. n + 1
  PROVE  Spliced(l, n, s, p, h, PutAt(l, n, s, p, h))
<1>0. /\ n \in Nat /\ s \in [1 .. n -> Timers] /\ NULL \notin Timers
      /\ l.prev \in [Timers -> Handle] /\ l.next \in [Timers -> Handle]
  BY TimerAssumption DEF Chained, Lists
<1>1. CASE n = 0
  <2>1. p = 1 /\ ~(p <= n) /\ ~(p > 1)
    BY <1>0, <1>1
  <2> QED BY <1>0, <1>1, <2>1 DEF Spliced, PutAt
<1>2. CASE n # 0 /\ p <= n
  <2>1. p \in 1 .. n /\ s[p] \in Timers /\ s[p] # h
    BY <1>0, <1>2 DEF On
  <2>2. l.prev[s[p]] = IF p > 1 THEN s[p - 1] ELSE NULL
    BY <1>0, <2>1 DEF Chained
  <2>3. p > 1 => s[p - 1] \in Timers
    BY <1>0, <2>1
  <2>4. PutAt(l, n, s, p, h) = InsertBefore(l, s[p], h)
    BY <1>2 DEF PutAt
  <2>5. (p = 1) <=> (l.prev[s[p]] = NULL)
    BY <1>0, <2>1, <2>2, <2>3
  <2>6. InsertBefore(l, s[p], h).head = IF p = 1 THEN h ELSE l.head
    BY <2>5 DEF InsertBefore
  <2>7. ASSUME NEW x \in Timers
        PROVE  /\ InsertBefore(l, s[p], h).next[x] =
                    IF x = h THEN s[p]
                    ELSE IF p > 1 /\ x = s[p - 1] THEN h ELSE l.next[x]
               /\ InsertBefore(l, s[p], h).prev[x] =
                    IF x = h THEN (IF p > 1 THEN s[p - 1] ELSE NULL)
                    ELSE IF x = s[p] THEN h ELSE l.prev[x]
    BY <1>0, <2>1, <2>2, <2>3 DEF InsertBefore
  <2> QED BY <1>2, <2>4, <2>6, <2>7 DEF Spliced
<1>3. CASE n # 0 /\ ~(p <= n)
  <2>1. p = n + 1 /\ p - 1 = n /\ p > 1 /\ n \in 1 .. n /\ s[n] \in Timers /\ s[n] # h
    BY <1>0, <1>3 DEF On
  <2>2. l.next[s[n]] = NULL
    BY <2>1 DEF Chained
  <2>3. PutAt(l, n, s, p, h) = InsertAfter(l, s[n], h)
    BY <1>3 DEF PutAt
  <2>4. InsertAfter(l, s[n], h).head = l.head
    BY DEF InsertAfter
  <2>5. ASSUME NEW x \in Timers
        PROVE  /\ InsertAfter(l, s[n], h).next[x] =
                    IF x = h THEN NULL ELSE IF x = s[n] THEN h ELSE l.next[x]
               /\ InsertAfter(l, s[n], h).prev[x] =
                    IF x = h THEN s[n] ELSE l.prev[x]
    BY <1>0, <2>1, <2>2 DEF InsertAfter
  <2>6. p # 1
    BY <2>1
  <2> QED BY <1>3, <2>1, <2>3, <2>4, <2>5, <2>6 DEF Spliced
<1> QED BY <1>1, <1>2, <1>3

(* s with h at place p.                                                    *)
InsertAt(n, s, p, h) ==
  [i \in 1 .. n + 1 |-> IF i < p THEN s[i] ELSE IF i = p THEN h ELSE s[i - 1]]

(* Inserting a new timer adds it to the members, once.                     *)
LEMMA InsertMembers ==
  ASSUME NEW n \in Nat, NEW s \in [1 .. n -> Timers],
         \A i, j \in 1 .. n : s[i] = s[j] => i = j,
         NEW h \in Timers, h \notin On(n, s), NEW p \in 1 .. n + 1
  PROVE  /\ n + 1 \in Nat
         /\ InsertAt(n, s, p, h) \in [1 .. n + 1 -> Timers]
         /\ \A i, j \in 1 .. n + 1 :
              InsertAt(n, s, p, h)[i] = InsertAt(n, s, p, h)[j] => i = j
         /\ On(n + 1, InsertAt(n, s, p, h)) = On(n, s) \cup {h}
<1> DEFINE t == InsertAt(n, s, p, h)
<1>1. t \in [1 .. n + 1 -> Timers]
  BY DEF InsertAt
<1>2. \A i \in 1 .. n + 1 : t[i] = IF i < p THEN s[i] ELSE IF i = p THEN h ELSE s[i - 1]
  BY DEF InsertAt
<1>3. \A i \in 1 .. n : s[i] # h
  BY DEF On
<1> HIDE DEF t
<1>4. ASSUME NEW i \in 1 .. n + 1, NEW j \in 1 .. n + 1, t[i] = t[j]
      PROVE  i = j
  <2>1. /\ i < p => i \in 1 .. n
        /\ i > p => i - 1 \in 1 .. n
        /\ j < p => j \in 1 .. n
        /\ j > p => j - 1 \in 1 .. n
    OBVIOUS
  <2>2. /\ t[i] = IF i < p THEN s[i] ELSE IF i = p THEN h ELSE s[i - 1]
        /\ t[j] = IF j < p THEN s[j] ELSE IF j = p THEN h ELSE s[j - 1]
    BY <1>2
  <2>3. /\ i < p /\ j < p /\ s[i] = s[j] => i = j
        /\ i > p /\ j > p /\ s[i - 1] = s[j - 1] => i - 1 = j - 1
        /\ i < p /\ j > p /\ s[i] = s[j - 1] => i = j - 1
        /\ i > p /\ j < p /\ s[i - 1] = s[j] => i - 1 = j
    BY <2>1
  <2>4. /\ i < p => s[i] # h
        /\ i > p => s[i - 1] # h
        /\ j < p => s[j] # h
        /\ j > p => s[j - 1] # h
    BY <1>3, <2>1
  <2>5. (i < p \/ i = p \/ i > p) /\ (j < p \/ j = p \/ j > p)
    OBVIOUS
  <2>6. ASSUME i < p PROVE i = j
    <3>1. t[i] = s[i]
      BY <2>2, <2>6
    <3>2. j < p => t[j] = s[j]
      BY <2>2
    <3>3. j > p => t[j] = s[j - 1] /\ i # j - 1
      BY <2>2, <2>6
    <3>4. j = p => t[j] = h
      BY <2>2
    <3> QED BY <1>4, <2>3, <2>4, <2>5, <2>6, <3>1, <3>2, <3>3, <3>4
  <2>7. ASSUME i = p PROVE i = j
    <3>1. t[i] = h
      BY <2>2, <2>7
    <3>2. j < p => t[j] = s[j]
      BY <2>2
    <3>3. j > p => t[j] = s[j - 1]
      BY <2>2
    <3> QED BY <1>4, <2>4, <2>5, <2>7, <3>1, <3>2, <3>3
  <2>8. ASSUME i > p PROVE i = j
    <3>1. t[i] = s[i - 1]
      BY <2>2, <2>8
    <3>2. j < p => t[j] = s[j] /\ i - 1 # j
      BY <2>2, <2>8
    <3>3. j > p => t[j] = s[j - 1] /\ (i - 1 = j - 1 => i = j)
      BY <2>2
    <3>4. j = p => t[j] = h
      BY <2>2
    <3> QED BY <1>4, <2>3, <2>4, <2>5, <2>8, <3>1, <3>2, <3>3, <3>4
  <2> QED BY <2>5, <2>6, <2>7, <2>8
<1>5. On(n + 1, t) \subseteq On(n, s) \cup {h}
  <2> SUFFICES ASSUME NEW i \in 1 .. n + 1 PROVE t[i] \in On(n, s) \cup {h}
    BY DEF On
  <2>1. /\ i < p => i \in 1 .. n
        /\ i > p => i - 1 \in 1 .. n
    OBVIOUS
  <2>2. t[i] = IF i < p THEN s[i] ELSE IF i = p THEN h ELSE s[i - 1]
    BY <1>2
  <2> QED BY <2>1, <2>2 DEF On
<1>6. On(n, s) \cup {h} \subseteq On(n + 1, t)
  <2>1. h \in On(n + 1, t)
    <3>1. t[p] = h
      BY <1>2
    <3> QED BY <3>1 DEF On
  <2>2. ASSUME NEW i \in 1 .. n PROVE s[i] \in On(n + 1, t)
    <3>1. CASE i < p
      <4>1. i \in 1 .. n + 1 /\ t[i] = s[i]
        BY <1>2, <3>1
      <4> QED BY <4>1 DEF On
    <3>2. CASE ~(i < p)
      <4>1. i + 1 \in 1 .. n + 1 /\ ~(i + 1 < p) /\ i + 1 # p /\ (i + 1) - 1 = i
        BY <3>2
      <4>2. t[i + 1] = s[i]
        BY <1>2, <4>1
      <4> QED BY <4>1, <4>2 DEF On
    <3> QED BY <3>1, <3>2
  <2> QED BY <2>1, <2>2 DEF On
<1>7. n + 1 \in Nat
  OBVIOUS
<1> QED BY <1>1, <1>4, <1>5, <1>6, <1>7 DEF t

(* The list stays a chain with the new timer in it.                        *)
LEMMA SpliceChain ==
  ASSUME NEW l \in Lists, NEW n, NEW s, Chained(l, n, s), l.head = First(n, s),
         NEW h \in Timers, h \notin On(n, s), NEW p \in 1 .. n + 1,
         NEW r, Spliced(l, n, s, p, h, r)
  PROVE  /\ Chained(r, n + 1, InsertAt(n, s, p, h))
         /\ r.head = First(n + 1, InsertAt(n, s, p, h))
<1> DEFINE t == InsertAt(n, s, p, h)
<1>0. /\ n \in Nat /\ s \in [1 .. n -> Timers] /\ NULL \notin Timers
      /\ \A i, j \in 1 .. n : s[i] = s[j] => i = j
  BY TimerAssumption DEF Chained
<1>1. /\ n + 1 \in Nat
      /\ t \in [1 .. n + 1 -> Timers]
      /\ \A i, j \in 1 .. n + 1 : t[i] = t[j] => i = j
  BY <1>0, InsertMembers
<1>2. \A i \in 1 .. n + 1 : t[i] = IF i < p THEN s[i] ELSE IF i = p THEN h ELSE s[i - 1]
  BY DEF InsertAt
<1> HIDE DEF t
<1>3. ASSUME NEW i \in 1 .. n + 1
      PROVE  /\ r.next[t[i]] = IF i = n + 1 THEN NULL ELSE t[i + 1]
             /\ r.prev[t[i]] = IF i = 1 THEN NULL ELSE t[i - 1]
  <2>0. /\ t[i] \in Timers
        /\ i # n + 1 => i + 1 \in 1 .. n + 1
        /\ i # 1 => i - 1 \in 1 .. n + 1
    BY <1>0, <1>1
  <2>1. /\ r.next[t[i]] = IF t[i] = h THEN (IF p <= n THEN s[p] ELSE NULL)
                          ELSE IF p > 1 /\ t[i] = s[p - 1] THEN h ELSE l.next[t[i]]
        /\ r.prev[t[i]] = IF t[i] = h THEN (IF p > 1 THEN s[p - 1] ELSE NULL)
                          ELSE IF p <= n /\ t[i] = s[p] THEN h ELSE l.prev[t[i]]
    BY <2>0 DEF Spliced
  <2>2. /\ t[i] = IF i < p THEN s[i] ELSE IF i = p THEN h ELSE s[i - 1]
        /\ i # n + 1 => t[i + 1] = IF i + 1 < p THEN s[i + 1]
                                   ELSE IF i + 1 = p THEN h ELSE s[(i + 1) - 1]
        /\ i # 1 => t[i - 1] = IF i - 1 < p THEN s[i - 1]
                               ELSE IF i - 1 = p THEN h ELSE s[(i - 1) - 1]
    BY <1>2, <2>0
  <2>3. CASE i = p
    <3>1. t[i] = h /\ (i = n + 1 <=> ~(p <= n)) /\ (i = 1 <=> ~(p > 1))
      BY <1>0, <2>2, <2>3
    <3>2. i # n + 1 => t[i + 1] = s[p]
      BY <1>0, <2>2, <2>3
    <3>3. i # 1 => t[i - 1] = s[p - 1]
      BY <1>0, <2>2, <2>3
    <3> QED BY <2>1, <3>1, <3>2, <3>3
  <2>4. CASE i < p
    <3>1. i \in 1 .. n /\ t[i] = s[i] /\ t[i] # h /\ p > 1 /\ i # n + 1 /\ p - 1 \in 1 .. n
      BY <1>0, <2>2, <2>4 DEF On
    <3>2. (t[i] = s[p - 1]) <=> (i = p - 1)
      BY <1>0, <3>1
    <3>3. ~(p <= n /\ t[i] = s[p])
      <4>1. p <= n => p \in 1 .. n /\ i # p
        BY <1>0, <2>4
      <4> QED BY <1>0, <3>1, <4>1
    <3>4. /\ l.next[s[i]] = IF i = n THEN NULL ELSE s[i + 1]
          /\ l.prev[s[i]] = IF i = 1 THEN NULL ELSE s[i - 1]
      BY <3>1 DEF Chained
    <3>5. t[i + 1] = IF i = p - 1 THEN h ELSE s[i + 1]
      BY <1>0, <2>2, <2>4, <3>1
    <3>6. i = n => i = p - 1
      BY <1>0, <2>4
    <3>7. i # 1 => t[i - 1] = s[i - 1]
      BY <1>0, <2>2, <2>4
    <3> QED BY <2>1, <3>1, <3>2, <3>3, <3>4, <3>5, <3>6, <3>7
  <2>5. CASE i > p
    <3> PICK k \in Int : k = i - 1
      BY <1>0
    <3>1. /\ k \in 1 .. n /\ t[i] = s[k] /\ t[i] # h /\ p <= n /\ i # 1 /\ p \in 1 .. n
          /\ p <= k
      BY <1>0, <2>2, <2>5 DEF On
    <3>2. (t[i] = s[p]) <=> (k = p)
      BY <1>0, <3>1
    <3>3. ~(p > 1 /\ t[i] = s[p - 1])
      <4>1. p > 1 => p - 1 \in 1 .. n /\ k # p - 1
        BY <1>0, <2>5, <3>1
      <4> QED BY <1>0, <3>1, <4>1
    <3>4. /\ l.next[s[k]] = IF k = n THEN NULL ELSE s[k + 1]
          /\ l.prev[s[k]] = IF k = 1 THEN NULL ELSE s[k - 1]
      BY <3>1 DEF Chained
    <3>5. t[i - 1] = IF k = p THEN h ELSE s[k - 1]
      BY <1>0, <2>2, <2>5, <3>1
    <3>6. k = 1 => k = p
      BY <1>0, <3>1
    <3>7. (i = n + 1 <=> k = n) /\ (i # n + 1 => t[i + 1] = s[k + 1])
      BY <1>0, <2>2, <2>5
    <3> QED BY <2>1, <3>1, <3>2, <3>3, <3>4, <3>5, <3>6, <3>7
  <2> QED BY <1>0, <2>3, <2>4, <2>5
<1>4. Chained(r, n + 1, t)
  BY <1>1, <1>3 DEF Chained
<1>5. r.head = First(n + 1, t)
  <2>1. r.head = IF p = 1 THEN h ELSE l.head
    BY DEF Spliced
  <2>2. t[1] = IF p = 1 THEN h ELSE s[1]
    BY <1>0, <1>2
  <2>3. p # 1 => n # 0
    BY <1>0
  <2>4. n + 1 # 0
    BY <1>0
  <2> QED BY <2>1, <2>2, <2>3, <2>4 DEF First
<1> QED BY <1>4, <1>5 DEF t

(* A chain that has nothing to do with it is not touched.                  *)
LEMMA SpliceApart ==
  ASSUME NEW l, NEW n, NEW s, Chained(l, n, s),
         NEW h \in Timers, NEW p \in 1 .. n + 1,
         NEW r, Spliced(l, n, s, p, h, r),
         NEW m, NEW f, Chained(l, m, f),
         On(n, s) \cap On(m, f) = {}, h \notin On(m, f)
  PROVE  Chained(r, m, f)
<1>0. n \in Nat /\ f \in [1 .. m -> Timers]
  BY DEF Chained
<1>1. ASSUME NEW i \in 1 .. m
      PROVE  r.next[f[i]] = l.next[f[i]] /\ r.prev[f[i]] = l.prev[f[i]]
  <2>1. f[i] \in Timers /\ f[i] \notin On(n, s) /\ f[i] # h
    BY <1>0 DEF On
  <2>2. /\ p <= n => s[p] \in On(n, s)
        /\ p > 1 => s[p - 1] \in On(n, s)
    BY <1>0 DEF On
  <2> QED BY <2>1, <2>2 DEF Spliced
<1> QED BY <1>1 DEF Chained

(* The new timer is in order with its neighbours.                          *)
LEMMA SpliceOrder ==
  ASSUME NEW n \in Nat, NEW s \in [1 .. n -> Timers], NEW h \in Timers,
         NEW at \in [Timers -> Nat], NEW D, InOrder(n, s, at, D),
         NEW p, PlaceOf(n, s, at, h, p)
  PROVE  InOrder(n + 1, InsertAt(n, s, p, h), at, D)
<1> DEFINE t == InsertAt(n, s, p, h)
<1>0. p \in 1 .. n + 1
  BY DEF PlaceOf
<1>1. \A i \in 1 .. n + 1 : t[i] = IF i < p THEN s[i] ELSE IF i = p THEN h ELSE s[i - 1]
  BY DEF InsertAt
<1> HIDE DEF t
<1>2. ASSUME NEW i \in 1 .. n
      PROVE  t[i] \in D \/ t[i + 1] \in D \/ at[t[i]] <= at[t[i + 1]]
  <2>1. /\ t[i] = IF i < p THEN s[i] ELSE IF i = p THEN h ELSE s[i - 1]
        /\ t[i + 1] = IF i + 1 < p THEN s[i + 1]
                      ELSE IF i + 1 = p THEN h ELSE s[(i + 1) - 1]
    BY <1>1
  <2>2. CASE i + 1 = p
    <3>1. t[i] = s[i] /\ t[i + 1] = h /\ ~Later(at, s[i], h)
      BY <1>0, <2>1, <2>2 DEF PlaceOf
    <3>2. at[s[i]] \in Nat /\ at[h] \in Nat
      OBVIOUS
    <3> QED BY <3>1, <3>2 DEF Later
  <2>3. CASE i = p
    <3>1. t[i] = h /\ t[i + 1] = s[i] /\ Later(at, s[i], h)
      BY <1>0, <2>1, <2>3 DEF PlaceOf
    <3>2. at[s[i]] \in Nat /\ at[h] \in Nat
      OBVIOUS
    <3> QED BY <3>1, <3>2 DEF Later
  <2>4. CASE i + 1 < p
    <3>1. t[i] = s[i] /\ t[i + 1] = s[i + 1] /\ i \in 1 .. n - 1
      BY <1>0, <2>1, <2>4
    <3> QED BY <3>1 DEF InOrder
  <2>5. CASE i > p
    <3>1. t[i] = s[i - 1] /\ t[i + 1] = s[i] /\ i - 1 \in 1 .. n - 1 /\ (i - 1) + 1 = i
      BY <1>0, <2>1, <2>5
    <3>2. s[i - 1] \in D \/ s[(i - 1) + 1] \in D \/ at[s[i - 1]] <= at[s[(i - 1) + 1]]
      BY <3>1 DEF InOrder
    <3> QED BY <3>1, <3>2
  <2> QED BY <1>0, <2>2, <2>3, <2>4, <2>5
<1>3. (n + 1) - 1 = n
  OBVIOUS
<1> QED BY <1>2, <1>3 DEF InOrder, t

-----------------------------------------------------------------------------
(* The list is the chain s.  While the loop thread holds the mutex it may  *)
(* also walk along f, a chain it has cut off from the list by taking out a *)
(* timer from the middle; c is the timer it looks at.                      *)
Linked(l, c, n, s, m, f) ==
  /\ Chained(l, n, s)
  /\ l.head = First(n, s)
  /\ Chained(l, m, f)
  /\ On(n, s) \cap On(m, f) = {}
  /\ IF m = 0 THEN c \in On(n, s) \cup {NULL} ELSE c = f[1]

Members(n, s, m, f) == On(n, s) \cup On(m, f)

Ordered(at, D, n, s, m, f) == InOrder(n, s, at, D) /\ InOrder(m, f, at, D)

(* The empty chain.                                                        *)
LEMMA EmptyChain ==
  ASSUME NEW l, NEW s
  PROVE  /\ Chained(l, 0, Slice(s, 0, 0))
         /\ On(0, Slice(s, 0, 0)) = {}
         /\ \A at, D : InOrder(0, Slice(s, 0, 0), at, D)
<1>1. Slice(s, 0, 0) \in [1 .. 0 -> Timers] /\ 1 .. 0 = {} /\ 1 .. 0 - 1 = {}
  BY DEF Slice
<1> QED BY <1>1 DEF Chained, On, InOrder

(* The first of a chain is one of its members.                             *)
LEMMA FirstOn ==
  ASSUME NEW l, NEW n, NEW s, Chained(l, n, s)
  PROVE  /\ First(n, s) \in On(n, s) \cup {NULL}
         /\ n = 0 => On(n, s) = {}
         /\ n # 0 => First(n, s) = s[1] /\ s[1] \in On(n, s)
         /\ On(n, s) \subseteq Timers
<1>1. n \in Nat /\ s \in [1 .. n -> Timers]
  BY DEF Chained
<1>2. n # 0 => 1 \in 1 .. n
  BY <1>1
<1>3. n = 0 => 1 .. n = {}
  BY <1>1
<1> QED BY <1>1, <1>2, <1>3 DEF First, On

(* Where the members of the two parts are.                                 *)
LEMMA CutMembers ==
  ASSUME NEW l, NEW n, NEW s, Chained(l, n, s), NEW p \in 1 .. n
  PROVE  /\ On(p - 1, Slice(s, 0, p - 1)) \subseteq On(n, s) \ {s[p]}
         /\ On(n - p, Slice(s, p, n - p)) \subseteq On(n, s) \ {s[p]}
         /\ On(p - 1, Slice(s, 0, p - 1)) \cap On(n - p, Slice(s, p, n - p)) = {}
         /\ p = n => On(p - 1, Slice(s, 0, p - 1)) = On(n, s) \ {s[p]}
         /\ p = 1 => On(n - p, Slice(s, p, n - p)) = On(n, s) \ {s[p]}
<1> DEFINE a == Slice(s, 0, p - 1)
           b == Slice(s, p, n - p)
<1>0. n \in Nat /\ \A i, j \in 1 .. n : s[i] = s[j] => i = j
  BY DEF Chained
<1>1. \A i \in 1 .. p - 1 : a[i] = s[i] /\ i \in 1 .. n /\ i < p
  BY <1>0 DEF Slice
<1>2. \A i \in 1 .. n - p : b[i] = s[p + i] /\ p + i \in 1 .. n /\ p + i > p
  BY <1>0 DEF Slice
<1> HIDE DEF a, b
<1>3. On(p - 1, a) \subseteq On(n, s) \ {s[p]}
  <2> SUFFICES ASSUME NEW i \in 1 .. p - 1 PROVE a[i] \in On(n, s) \ {s[p]}
    BY DEF On
  <2>1. a[i] = s[i] /\ i \in 1 .. n /\ i # p
    BY <1>0, <1>1
  <2> QED BY <1>0, <2>1 DEF On
<1>4. On(n - p, b) \subseteq On(n, s) \ {s[p]}
  <2> SUFFICES ASSUME NEW i \in 1 .. n - p PROVE b[i] \in On(n, s) \ {s[p]}
    BY DEF On
  <2>1. b[i] = s[p + i] /\ p + i \in 1 .. n /\ p + i # p
    BY <1>0, <1>2
  <2> QED BY <1>0, <2>1 DEF On
<1>5. On(p - 1, a) \cap On(n - p, b) = {}
  <2> SUFFICES ASSUME NEW i \in 1 .. p - 1, NEW j \in 1 .. n - p, a[i] = b[j]
               PROVE  FALSE
    BY DEF On
  <2>1. a[i] = s[i] /\ i \in 1 .. n /\ b[j] = s[p + j] /\ p + j \in 1 .. n
    BY <1>1, <1>2
  <2>2. i = p + j
    BY <1>0, <2>1
  <2> QED BY <1>0, <2>2
<1>6. ASSUME p = n PROVE On(n, s) \ {s[p]} \subseteq On(p - 1, a)
  <2> SUFFICES ASSUME NEW i \in 1 .. n, s[i] # s[p] PROVE s[i] \in On(p - 1, a)
    BY DEF On
  <2>1. i \in 1 .. p - 1
    BY <1>0, <1>6
  <2>2. a[i] = s[i]
    BY <1>1, <2>1
  <2> QED BY <2>1, <2>2 DEF On
<1>7. ASSUME p = 1 PROVE On(n, s) \ {s[p]} \subseteq On(n - p, b)
  <2> SUFFICES ASSUME NEW i \in 1 .. n, s[i] # s[p] PROVE s[i] \in On(n - p, b)
    BY DEF On
  <2>1. i - p \in 1 .. n - p /\ p + (i - p) = i
    BY <1>0, <1>7
  <2>2. b[i - p] = s[i]
    BY <1>2, <2>1
  <2> QED BY <2>1, <2>2 DEF On
<1> QED BY <1>3, <1>4, <1>5, <1>6, <1>7 DEF a, b

(* What is left after taking c out of the list or of the cut-off chain.    *)
Left(l, c, at, D, n, s, m, f, n2, s2, m2, f2) ==
  /\ Linked(Removed(l, c), l.next[c], n2, s2, m2, f2)
  /\ Ordered(at, D, n2, s2, m2, f2)
  /\ Members(n2, s2, m2, f2) \subseteq Members(n, s, m, f) \ {c}
  /\ n <= 2 /\ m = 0 =>
       m2 = 0 /\ Members(n2, s2, m2, f2) = Members(n, s, m, f) \ {c}

(* The loop thread takes out the timer it looks at and goes on with the    *)
(* next one, which may leave it on a chain of its own.                     *)
LEMMA TakeOut ==
  ASSUME NEW l \in Lists, NEW c \in Timers, NEW at, NEW D,
         NEW n, NEW s, NEW m, NEW f, Linked(l, c, n, s, m, f),
         Ordered(at, D, n, s, m, f)
  PROVE  \E n2, s2, m2, f2 : Left(l, c, at, D, n, s, m, f, n2, s2, m2, f2)
<1>0. /\ Chained(l, n, s) /\ Chained(l, m, f) /\ l.head = First(n, s)
      /\ n \in Nat /\ m \in Nat /\ NULL \notin Timers
      /\ InOrder(n, s, at, D) /\ InOrder(m, f, at, D)
      /\ On(n, s) \cap On(m, f) = {}
  BY TimerAssumption DEF Linked, Chained, Ordered
<1> DEFINE r == Removed(l, c)
           e == Slice(s, 0, 0)
<1>1. /\ Chained(r, 0, e) /\ On(0, e) = {} /\ InOrder(0, e, at, D)
  BY EmptyChain
<1> HIDE DEF r, e
<1>2. CASE m = 0
  <2>1. PICK p \in 1 .. n : c = s[p]
    BY <1>0, <1>2 DEF Linked, On
  <2>2. On(m, f) = {}
    BY <1>0, <1>2, FirstOn
  <2> DEFINE n2 == n - p
             s2 == Slice(s, p, n - p)
             a  == Slice(s, 0, p - 1)
  <2>3. Chained(r, n2, s2) /\ Chained(r, p - 1, a)
    BY <1>0, <2>1, CutBefore, CutAfter DEF r
  <2>4. InOrder(n2, s2, at, D) /\ InOrder(p - 1, a, at, D)
    <3>1. p \in 0 .. n /\ n - p \in 0 .. n - p /\ 0 \in 0 .. n /\ p - 1 \in 0 .. n - 0
      BY <1>0
    <3> QED BY <1>0, <3>1, SliceOrder
  <2>5. l.next[c] = First(n2, s2) /\ r.head = IF p = 1 THEN First(n2, s2) ELSE l.head
    BY <1>0, <2>1, CutHead DEF r
  <2>6. /\ On(p - 1, a) \subseteq On(n, s) \ {c}
        /\ On(n2, s2) \subseteq On(n, s) \ {c}
        /\ On(p - 1, a) \cap On(n2, s2) = {}
        /\ p = n => On(p - 1, a) = On(n, s) \ {c}
        /\ p = 1 => On(n2, s2) = On(n, s) \ {c}
    BY <1>0, <2>1, CutMembers
  <2>7. /\ First(n2, s2) \in On(n2, s2) \cup {NULL}
        /\ n2 = 0 => On(n2, s2) = {}
        /\ n2 # 0 => First(n2, s2) = s2[1]
    BY <2>3, FirstOn
  <2>8. CASE p = 1
    <3> HIDE DEF n2, s2, a
    <3>1. Linked(r, l.next[c], n2, s2, 0, e)
      BY <1>1, <2>3, <2>5, <2>7, <2>8 DEF Linked
    <3>2. Members(n2, s2, 0, e) = Members(n, s, m, f) \ {c}
      BY <1>1, <2>2, <2>6, <2>8 DEF Members
    <3>3. Ordered(at, D, n2, s2, 0, e)
      BY <1>1, <2>4 DEF Ordered
    <3>4. Left(l, c, at, D, n, s, m, f, n2, s2, 0, e)
      BY <3>1, <3>2, <3>3 DEF Left, r
    <3> QED BY <3>4
  <2>9. CASE p # 1
    <3>1. r.head = First(p - 1, a)
      <4>1. n # 0 /\ p - 1 # 0 /\ 1 \in 1 .. p - 1
        BY <1>0, <2>9
      <4>2. a[1] = s[1]
        BY <4>1 DEF Slice
      <4> QED BY <1>0, <2>5, <2>9, <4>1, <4>2 DEF First
    <3>2. n2 = 0 => First(n2, s2) = NULL
      BY DEF First
    <3>3. n <= 2 => p = n /\ n2 = 0
      BY <1>0, <2>9
    <3> HIDE DEF n2, s2, a
    <3>4. Linked(r, l.next[c], p - 1, a, n2, s2)
      BY <2>3, <2>5, <2>6, <2>7, <3>1, <3>2 DEF Linked
    <3>5. Members(p - 1, a, n2, s2) \subseteq Members(n, s, m, f) \ {c}
      BY <2>6 DEF Members
    <3>6. n <= 2 => n2 = 0 /\ Members(p - 1, a, n2, s2) = Members(n, s, m, f) \ {c}
      BY <2>2, <2>6, <2>7, <3>3 DEF Members
    <3>7. Ordered(at, D, p - 1, a, n2, s2)
      BY <2>4 DEF Ordered
    <3>8. Left(l, c, at, D, n, s, m, f, p - 1, a, n2, s2)
      BY <3>4, <3>5, <3>6, <3>7 DEF Left, r
    <3> QED BY <3>8
  <2> QED BY <2>8, <2>9
<1>3. CASE m # 0
  <2>1. c = f[1] /\ 1 \in 1 .. m
    BY <1>0, <1>3 DEF Linked
  <2> DEFINE n2 == m - 1
             s2 == Slice(f, 1, m - 1)
  <2>2. Chained(r, n2, s2)
    BY <1>0, <2>1, CutAfter DEF r
  <2>3. l.next[c] = First(n2, s2) /\ r.head = First(n2, s2)
    BY <1>0, <2>1, CutHead DEF r
  <2>4. On(n2, s2) \subseteq On(m, f) \ {c}
    BY <1>0, <2>1, CutMembers
  <2>5. InOrder(n2, s2, at, D)
    <3>1. 1 \in 0 .. m /\ m - 1 \in 0 .. m - 1
      BY <1>0, <1>3
    <3> QED BY <1>0, <3>1, SliceOrder
  <2>6. First(n2, s2) \in On(n2, s2) \cup {NULL}
    BY <2>2, FirstOn
  <2> HIDE DEF n2, s2
  <2>7. Linked(r, l.next[c], n2, s2, 0, e)
    BY <1>1, <2>2, <2>3, <2>6 DEF Linked
  <2>8. Members(n2, s2, 0, e) \subseteq Members(n, s, m, f) \ {c}
    BY <1>1, <2>4 DEF Members
  <2>9. Ordered(at, D, n2, s2, 0, e)
    BY <1>1, <2>5 DEF Ordered
  <2>10. Left(l, c, at, D, n, s, m, f, n2, s2, 0, e)
    BY <1>3, <2>7, <2>8, <2>9 DEF Left, r
  <2> QED BY <2>10
<1> QED BY <1>2, <1>3

(* A thread that holds the mutex takes h out; what came after it is lost   *)
(* if h was in the middle.                                                 *)
Freed(l, h, at, D, n, s, m, f, r, n2, s2, m2, f2) ==
  /\ Linked(r, NULL, n2, s2, m2, f2)
  /\ Ordered(at, D, n2, s2, m2, f2)
  /\ Members(n2, s2, m2, f2) \subseteq Members(n, s, m, f) \ {h}
  /\ n <= 2 => Members(n2, s2, m2, f2) = Members(n, s, m, f) \ {h}

(* Taking out a member of the list leaves a list.                          *)
LEMMA Unlinking ==
  ASSUME NEW l \in Lists, NEW h \in Timers, NEW at, NEW D,
         NEW n, NEW s, NEW m, NEW f, Linked(l, NULL, n, s, m, f),
         Ordered(at, D, n, s, m, f), h \in On(n, s)
  PROVE  \E n2, s2, m2, f2 :
           Freed(l, h, at, D, n, s, m, f, Removed(l, h), n2, s2, m2, f2)
<1>0. /\ Chained(l, n, s) /\ Chained(l, m, f) /\ l.head = First(n, s)
      /\ n \in Nat /\ m \in Nat /\ NULL \notin Timers
      /\ InOrder(n, s, at, D) /\ f \in [1 .. m -> Timers]
  BY TimerAssumption DEF Linked, Chained, Ordered
<1> DEFINE r == Removed(l, h)
           e == Slice(s, 0, 0)
<1>1. /\ Chained(r, 0, e) /\ On(0, e) = {} /\ InOrder(0, e, at, D)
  BY EmptyChain
<1> HIDE DEF r, e
<1>2. m = 0 /\ On(m, f) = {}
  <2>1. m # 0 => f[1] \in Timers
    BY <1>0
  <2>2. m = 0
    BY <1>0, <2>1 DEF Linked
  <2> QED BY <1>0, <2>2, FirstOn
<1>3. PICK p \in 1 .. n : h = s[p]
  BY DEF On
<1> DEFINE n2 == n - p
           s2 == Slice(s, p, n - p)
           a  == Slice(s, 0, p - 1)
<1>4. Chained(r, n2, s2) /\ Chained(r, p - 1, a)
  BY <1>0, <1>3, CutBefore, CutAfter DEF r
<1>5. InOrder(n2, s2, at, D) /\ InOrder(p - 1, a, at, D)
  <2>1. p \in 0 .. n /\ n - p \in 0 .. n - p /\ 0 \in 0 .. n /\ p - 1 \in 0 .. n - 0
    BY <1>0
  <2> QED BY <1>0, <2>1, SliceOrder
<1>6. r.head = IF p = 1 THEN First(n2, s2) ELSE l.head
  BY <1>0, <1>3, CutHead DEF r
<1>7. /\ On(p - 1, a) \subseteq On(n, s) \ {h}
      /\ On(n2, s2) \subseteq On(n, s) \ {h}
      /\ p = n => On(p - 1, a) = On(n, s) \ {h}
      /\ p = 1 => On(n2, s2) = On(n, s) \ {h}
  BY <1>0, <1>3, CutMembers
<1>8. CASE p = 1
  <2> HIDE DEF n2, s2, a
  <2>1. Linked(r, NULL, n2, s2, 0, e)
    BY <1>1, <1>4, <1>6, <1>8 DEF Linked
  <2>2. Members(n2, s2, 0, e) = Members(n, s, m, f) \ {h}
    BY <1>1, <1>2, <1>7, <1>8 DEF Members
  <2>3. Ordered(at, D, n2, s2, 0, e)
    BY <1>1, <1>5 DEF Ordered
  <2>4. Freed(l, h, at, D, n, s, m, f, Removed(l, h), n2, s2, 0, e)
    BY <2>1, <2>2, <2>3 DEF Freed, r
  <2> QED BY <2>4
<1>9. CASE p # 1
  <2>1. r.head = First(p - 1, a)
    <3>1. n # 0 /\ p - 1 # 0 /\ 1 \in 1 .. p - 1
      BY <1>0, <1>9
    <3>2. a[1] = s[1]
      BY <3>1 DEF Slice
    <3> QED BY <1>0, <1>6, <1>9, <3>1, <3>2 DEF First
  <2>2. n <= 2 => p = n
    BY <1>0, <1>9
  <2> HIDE DEF n2, s2, a
  <2>3. Linked(r, NULL, p - 1, a, 0, e)
    BY <1>1, <1>4, <2>1 DEF Linked
  <2>4. Members(p - 1, a, 0, e) \subseteq Members(n, s, m, f) \ {h}
    BY <1>1, <1>7 DEF Members
  <2>5. n <= 2 => Members(p - 1, a, 0, e) = Members(n, s, m, f) \ {h}
    BY <1>1, <1>2, <1>7, <2>2 DEF Members
  <2>6. Ordered(at, D, p - 1, a, 0, e)
    BY <1>1, <1>5 DEF Ordered
  <2>7. Freed(l, h, at, D, n, s, m, f, Removed(l, h), p - 1, a, 0, e)
    BY <2>3, <2>4, <2>5, <2>6 DEF Freed, r
  <2> QED BY <2>7
<1> QED BY <1>8, <1>9

(* _timer_list_add puts h into the list and leaves the rest as it is.      *)
Joined(r, c, at, D, n, s, m, f, h, n2, s2) ==
  /\ Linked(r, c, n2, s2, m, f)
  /\ Ordered(at, D, n2, s2, m, f)
  /\ Members(n2, s2, m, f) = Members(n, s, m, f) \cup {h}

(* Adding a timer that is not linked yields a list with it, in order.      *)
LEMMA PutIn ==
  ASSUME NEW l \in Lists, NEW c, NEW at \in [Timers -> Nat], NEW D,
         NEW n, NEW s, NEW m, NEW f, Linked(l, c, n, s, m, f),
         Ordered(at, D, n, s, m, f),
         NEW h \in Timers, h \notin Members(n, s, m, f)
  PROVE  \E n2, s2 : Joined(Added(l, at, h), c, at, D, n, s, m, f, h, n2, s2)
<1>0. /\ Chained(l, n, s) /\ Chained(l, m, f) /\ l.head = First(n, s)
      /\ n \in Nat /\ s \in [1 .. n -> Timers]
      /\ \A i, j \in 1 .. n : s[i] = s[j] => i = j
      /\ InOrder(n, s, at, D) /\ InOrder(m, f, at, D)
      /\ On(n, s) \cap On(m, f) = {} /\ h \notin On(n, s) /\ h \notin On(m, f)
  BY DEF Linked, Chained, Ordered, Members
<1>1. PICK p : PlaceOf(n, s, at, h, p) /\ Added(l, at, h) = PutAt(l, n, s, p, h)
  <2>1. Chained(l, n, s) /\ l.head = First(n, s)
    BY <1>0
  <2> QED BY <2>1, AddedPlace, Zenon
<1>2. p \in 1 .. n + 1
  BY <1>1 DEF PlaceOf
<1> DEFINE r  == Added(l, at, h)
           s2 == InsertAt(n, s, p, h)
<1>3. Spliced(l, n, s, p, h, r)
  BY <1>0, <1>1, <1>2, PutSplices
<1> HIDE DEF r
<1>4. Chained(r, n + 1, s2) /\ r.head = First(n + 1, s2)
  BY <1>0, <1>2, <1>3, SpliceChain
<1>5. Chained(r, m, f)
  BY <1>0, <1>2, <1>3, SpliceApart
<1>6. On(n + 1, s2) = On(n, s) \cup {h}
  BY <1>0, <1>2, InsertMembers
<1>7. InOrder(n + 1, s2, at, D)
  BY <1>0, <1>1, SpliceOrder
<1> HIDE DEF s2
<1>8. Linked(r, c, n + 1, s2, m, f)
  BY <1>0, <1>4, <1>5, <1>6 DEF Linked
<1>9. Ordered(at, D, n + 1, s2, m, f)
  BY <1>0, <1>7 DEF Ordered
<1>10. Members(n + 1, s2, m, f) = Members(n, s, m, f) \cup {h}
  BY <1>6 DEF Members
<1>11. Joined(r, c, at, D, n, s, m, f, h, n + 1, s2)
  BY <1>8, <1>9, <1>10 DEF Joined
<1> QED BY <1>11 DEF r

(* The order of a chain does not depend on timers outside it.              *)
LEMMA OrderFrame ==
  ASSUME NEW n \in Nat, NEW s, NEW at, NEW D, InOrder(n, s, at, D),
         NEW at2, NEW D2,
         \A x \in On(n, s) : x \in D2 \/ (x \notin D /\ at2[x] = at[x])
  PROVE  InOrder(n, s, at2, D2)
<1> SUFFICES ASSUME NEW i \in 1 .. n - 1
             PROVE  s[i] \in D2 \/ s[i + 1] \in D2 \/ at2[s[i]] <= at2[s[i + 1]]
  BY DEF InOrder
<1>1. i \in 1 .. n /\ i + 1 \in 1 .. n
  OBVIOUS
<1>2. s[i] \in On(n, s) /\ s[i + 1] \in On(n, s)
  BY <1>1 DEF On
<1>3. s[i] \in D \/ s[i + 1] \in D \/ at[s[i]] <= at[s[i + 1]]
  BY DEF InOrder
<1> QED BY <1>2, <1>3

(* The same for the list and the chain the loop thread has cut off.        *)
LEMMA OrderedFrame ==
  ASSUME NEW n \in Nat, NEW s, NEW m \in Nat, NEW f,
         NEW at, NEW D, Ordered(at, D, n, s, m, f), NEW at2, NEW D2,
         \A x \in Members(n, s, m, f) : x \in D2 \/ (x \notin D /\ at2[x] = at[x])
  PROVE  Ordered(at2, D2, n, s, m, f)
<1>1. InOrder(n, s, at2, D2)
  BY OrderFrame DEF Ordered, Members
<1>2. InOrder(m, f, at2, D2)
  BY OrderFrame DEF Ordered, Members
<1> QED BY <1>1, <1>2 DEF Ordered

-----------------------------------------------------------------------------
(* The timers p_timer_start is just restarting: their timeout has changed  *)
(* and their place in the list has not.                                    *)
Restarting(cl) == {h \in Timers : cl[h] \in {"set", "link"}}

(* The list: linked, in order but for the timers that are being restarted, *)
(* without the timers that are stopped or deleted and, if there are only   *)
(* two timers, with all those that run.                                    *)
ShapeOf(l, c, at, cl, st, n, s, m, f) ==
  /\ Linked(l, c, n, s, m, f)
  /\ Ordered(at, Restarting(cl), n, s, m, f)
  /\ \A h \in Members(n, s, m, f) : cl[h] \notin {"none", "stopped"}
  /\ N <= 2 =>
       /\ m = 0
       /\ \A h \in Timers :
            cl[h] = "started" /\ st[h] = "RUNNING" => h \in Members(n, s, m, f)

(* The members of the list are timers, and c is one of them or NULL.       *)
LEMMA LinkedTypes ==
  ASSUME NEW l, NEW c, NEW n, NEW s, NEW m, NEW f, Linked(l, c, n, s, m, f)
  PROVE  /\ n \in Nat /\ m \in Nat /\ n <= N
         /\ Members(n, s, m, f) \subseteq Timers
         /\ n = 0 => On(n, s) = {}
         /\ m = 0 => On(m, f) = {}
         /\ c \in Members(n, s, m, f) \cup {NULL}
<1>1. Chained(l, n, s) /\ Chained(l, m, f)
  BY DEF Linked
<1>2. n \in Nat /\ m \in Nat
  BY <1>1 DEF Chained
<1>3. n <= N
  BY <1>1, ChainShort
<1>4. /\ n = 0 => On(n, s) = {}
      /\ On(n, s) \subseteq Timers
  BY <1>1, FirstOn
<1>5. /\ m = 0 => On(m, f) = {}
      /\ m # 0 => f[1] \in On(m, f)
      /\ On(m, f) \subseteq Timers
  BY <1>1, FirstOn
<1>6. c \in Members(n, s, m, f) \cup {NULL}
  BY <1>5 DEF Linked, Members
<1>7. Members(n, s, m, f) \subseteq Timers
  BY <1>4, <1>5 DEF Members
<1> QED BY <1>2, <1>3, <1>4, <1>5, <1>6, <1>7

(* The list does not depend on the links of timers outside it.             *)
LEMMA LinkedFrame ==
  ASSUME NEW l, NEW c, NEW n, NEW s, NEW m, NEW f, Linked(l, c, n, s, m, f),
         NEW l2, l2.head = l.head,
         \A x \in Members(n, s, m, f) : l2.next[x] = l.next[x] /\ l2.prev[x] = l.prev[x]
  PROVE  Linked(l2, c, n, s, m, f)
<1>1. Chained(l, n, s) /\ Chained(l, m, f)
  BY DEF Linked
<1>2. \A i \in 1 .. n : l2.next[s[i]] = l.next[s[i]] /\ l2.prev[s[i]] = l.prev[s[i]]
  BY DEF Members, On
<1>3. \A i \in 1 .. m : l2.next[f[i]] = l.next[f[i]] /\ l2.prev[f[i]] = l.prev[f[i]]
  BY DEF Members, On
<1>4. Chained(l2, n, s)
  BY <1>1, <1>2 DEF Chained
<1>5. Chained(l2, m, f)
  BY <1>1, <1>3 DEF Chained
<1> QED BY <1>4, <1>5 DEF Linked

(* Only the fields of h differ.                                            *)
OnlyAt(h, g, g2) == \A x \in Timers : x # h => g2[x] = g[x]

(* p_timer_add and p_timer_start before they take the mutex.               *)
LEMMA ShapeRestart ==
  ASSUME NEW l, NEW c, NEW at, NEW cl, NEW st, NEW n, NEW s, NEW m, NEW f,
         ShapeOf(l, c, at, cl, st, n, s, m, f), NEW h \in Timers,
         NEW at2, NEW cl2, NEW st2, OnlyAt(h, at, at2), OnlyAt(h, cl, cl2),
         OnlyAt(h, st, st2), cl2[h] \in {"set", "link"}
  PROVE  ShapeOf(l, c, at2, cl2, st2, n, s, m, f)
<1>0. /\ Linked(l, c, n, s, m, f) /\ Ordered(at, Restarting(cl), n, s, m, f)
      /\ \A x \in Members(n, s, m, f) : cl[x] \notin {"none", "stopped"}
  BY DEF ShapeOf
<1>1. n \in Nat /\ m \in Nat /\ Members(n, s, m, f) \subseteq Timers
  BY <1>0, LinkedTypes
<1>2. ASSUME NEW x \in Members(n, s, m, f)
      PROVE  x \in Restarting(cl2) \/ (x \notin Restarting(cl) /\ at2[x] = at[x])
  BY <1>1 DEF Restarting, OnlyAt
<1>3. Ordered(at2, Restarting(cl2), n, s, m, f)
  BY <1>0, <1>1, <1>2, OrderedFrame
<1>4. \A x \in Members(n, s, m, f) : cl2[x] \notin {"none", "stopped"}
  BY <1>0, <1>1 DEF OnlyAt
<1>5. N <= 2 =>
        /\ m = 0
        /\ \A x \in Timers :
             cl2[x] = "started" /\ st2[x] = "RUNNING" => x \in Members(n, s, m, f)
  BY DEF OnlyAt, ShapeOf
<1> QED BY <1>0, <1>3, <1>4, <1>5 DEF ShapeOf

(* p_timer_stop and p_timer_del before they take the mutex.                *)
LEMMA ShapeStop ==
  ASSUME NEW l, NEW c, NEW at, NEW cl, NEW st, NEW n, NEW s, NEW m, NEW f,
         ShapeOf(l, c, at, cl, st, n, s, m, f), NEW h \in Timers,
         cl[h] \in {"started", "stopped"},
         NEW cl2, NEW st2, OnlyAt(h, cl, cl2), OnlyAt(h, st, st2),
         cl2[h] \in {"unlink", "delete"}
  PROVE  ShapeOf(l, c, at, cl2, st2, n, s, m, f)
<1>0. /\ Linked(l, c, n, s, m, f) /\ Ordered(at, Restarting(cl), n, s, m, f)
      /\ \A x \in Members(n, s, m, f) : cl[x] \notin {"none", "stopped"}
  BY DEF ShapeOf
<1>1. n \in Nat /\ m \in Nat /\ Members(n, s, m, f) \subseteq Timers
  BY <1>0, LinkedTypes
<1>2. Restarting(cl2) = Restarting(cl)
  BY DEF Restarting, OnlyAt
<1>4. \A x \in Members(n, s, m, f) : cl2[x] \notin {"none", "stopped"}
  BY <1>0, <1>1 DEF OnlyAt
<1>5. N <= 2 =>
        /\ m = 0
        /\ \A x \in Timers :
             cl2[x] = "started" /\ st2[x] = "RUNNING" => x \in Members(n, s, m, f)
  BY DEF OnlyAt, ShapeOf
<1> QED BY <1>0, <1>2, <1>4, <1>5 DEF ShapeOf

(* Taking h out with the mutex, if it is in the list.                      *)
LEMMA Freeing ==
  ASSUME NEW l \in Lists, NEW h \in Timers, NEW at, NEW D,
         NEW n, NEW s, NEW m, NEW f, Linked(l, NULL, n, s, m, f),
         Ordered(at, D, n, s, m, f),
         NEW r, r = IF h \in On(n, s) THEN Removed(l, h) ELSE l
  PROVE  \E n2, s2, m2, f2 : Freed(l, h, at, D, n, s, m, f, r, n2, s2, m2, f2)
<1>1. CASE h \in On(n, s)
  BY <1>1, Unlinking
<1>2. CASE h \notin On(n, s)
  <2>1. m = 0 /\ On(m, f) = {}
    <3>1. Chained(l, m, f) /\ m \in Nat /\ f \in [1 .. m -> Timers]
      BY DEF Linked, Chained
    <3>2. m # 0 => f[1] \in Timers
      BY <3>1
    <3>3. m = 0
      BY <3>2, TimerAssumption DEF Linked
    <3> QED BY <3>1, <3>3, FirstOn
  <2>2. Members(n, s, m, f) \ {h} = Members(n, s, m, f)
    BY <1>2, <2>1 DEF Members
  <2>3. Freed(l, h, at, D, n, s, m, f, r, n, s, m, f)
    BY <1>2, <2>2 DEF Freed
  <2> QED BY <2>3
<1> QED BY <1>1, <1>2

(* p_timer_stop and p_timer_del with the mutex.                            *)
LEMMA ShapeUnlink ==
  ASSUME NEW l \in Lists, NEW at, NEW cl, NEW st, NEW n, NEW s, NEW m, NEW f,
         ShapeOf(l, NULL, at, cl, st, n, s, m, f), NEW h \in Timers,
         cl[h] \in {"unlink", "delete"},
         NEW cl2, OnlyAt(h, cl, cl2), cl2[h] \in {"none", "stopped"},
         NEW r, r = IF h \in On(n, s) THEN Removed(l, h) ELSE l
  PROVE  \E n2, s2, m2, f2 : ShapeOf(r, NULL, at, cl2, st, n2, s2, m2, f2)
<1>0. /\ Linked(l, NULL, n, s, m, f) /\ Ordered(at, Restarting(cl), n, s, m, f)
      /\ \A x \in Members(n, s, m, f) : cl[x] \notin {"none", "stopped"}
  BY DEF ShapeOf
<1>1. PICK n2, s2, m2, f2 :
        Freed(l, h, at, Restarting(cl), n, s, m, f, r, n2, s2, m2, f2)
  BY <1>0, Freeing
<1>2. /\ Linked(r, NULL, n2, s2, m2, f2)
      /\ Ordered(at, Restarting(cl), n2, s2, m2, f2)
      /\ Members(n2, s2, m2, f2) \subseteq Members(n, s, m, f) \ {h}
      /\ n <= 2 => Members(n2, s2, m2, f2) = Members(n, s, m, f) \ {h}
  BY <1>1 DEF Freed
<1>3. n \in Nat /\ n <= N /\ Members(n, s, m, f) \subseteq Timers /\ N \in Nat
  BY <1>0, LinkedTypes, TimerAssumption, FS_CardinalityType DEF N
<1>4. Restarting(cl2) = Restarting(cl)
  BY DEF Restarting, OnlyAt
<1>5. \A x \in Members(n2, s2, m2, f2) : cl2[x] \notin {"none", "stopped"}
  BY <1>0, <1>2, <1>3 DEF OnlyAt
<1>6. m2 = 0
  <2>1. m2 \in Nat /\ f2 \in [1 .. m2 -> Timers]
    BY <1>2 DEF Linked, Chained
  <2>2. m2 # 0 => f2[1] \in Timers
    BY <2>1
  <2> QED BY <1>2, <2>2, TimerAssumption DEF Linked
<1>7. ASSUME N <= 2, NEW x \in Timers, cl2[x] = "started", st[x] = "RUNNING"
      PROVE  x \in Members(n2, s2, m2, f2)
  <2>1. x # h /\ cl[x] = "started"
    BY <1>7 DEF OnlyAt
  <2>2. x \in Members(n, s, m, f)
    BY <1>7, <2>1 DEF ShapeOf
  <2>3. n <= 2
    BY <1>3, <1>7
  <2> QED BY <1>2, <2>1, <2>2, <2>3
<1>8. ShapeOf(r, NULL, at, cl2, st, n2, s2, m2, f2)
  BY <1>2, <1>4, <1>5, <1>6, <1>7 DEF ShapeOf
<1> QED BY <1>8

(* p_timer_start with the mutex.                                           *)
LEMMA ShapeLink ==
  ASSUME NEW l \in Lists, NEW at \in [Timers -> Nat], NEW cl, NEW st,
         NEW n, NEW s, NEW m, NEW f,
         ShapeOf(l, NULL, at, cl, st, n, s, m, f), NEW h \in Timers,
         cl[h] = "link", NEW cl2, OnlyAt(h, cl, cl2), cl2[h] = "started",
         NEW r, r = IF h \in On(n, s) THEN Removed(l, h) ELSE l, r \in Lists
  PROVE  \E n2, s2, m2, f2 :
           ShapeOf(Added(r, at, h), NULL, at, cl2, st, n2, s2, m2, f2)
<1>0. /\ Linked(l, NULL, n, s, m, f) /\ Ordered(at, Restarting(cl), n, s, m, f)
      /\ \A x \in Members(n, s, m, f) : cl[x] \notin {"none", "stopped"}
  BY DEF ShapeOf
<1>1. PICK n2, s2, m2, f2 :
        Freed(l, h, at, Restarting(cl), n, s, m, f, r, n2, s2, m2, f2)
  BY <1>0, Freeing
<1>2. /\ Linked(r, NULL, n2, s2, m2, f2)
      /\ Ordered(at, Restarting(cl), n2, s2, m2, f2)
      /\ Members(n2, s2, m2, f2) \subseteq Members(n, s, m, f) \ {h}
      /\ n <= 2 => Members(n2, s2, m2, f2) = Members(n, s, m, f) \ {h}
  BY <1>1 DEF Freed
<1>3. n \in Nat /\ n <= N /\ Members(n, s, m, f) \subseteq Timers /\ N \in Nat
  BY <1>0, LinkedTypes, TimerAssumption, FS_CardinalityType DEF N
<1>4. n2 \in Nat /\ m2 \in Nat
  BY <1>2, LinkedTypes
<1>5. \A x \in Members(n2, s2, m2, f2) :
        x \in Restarting(cl2) \/ (x \notin Restarting(cl) /\ at[x] = at[x])
  BY <1>2, <1>3 DEF Restarting, OnlyAt
<1>6. Ordered(at, Restarting(cl2), n2, s2, m2, f2)
  BY <1>2, <1>4, <1>5, OrderedFrame
<1>7. h \notin Members(n2, s2, m2, f2)
  BY <1>2
<1>8. PICK n3, s3 : Joined(Added(r, at, h), NULL, at, Restarting(cl2),
                           n2, s2, m2, f2, h, n3, s3)
  BY <1>2, <1>6, <1>7, PutIn
<1>9. /\ Linked(Added(r, at, h), NULL, n3, s3, m2, f2)
      /\ Ordered(at, Restarting(cl2), n3, s3, m2, f2)
      /\ Members(n3, s3, m2, f2) = Members(n2, s2, m2, f2) \cup {h}
  BY <1>8 DEF Joined
<1>10. \A x \in Members(n3, s3, m2, f2) : cl2[x] \notin {"none", "stopped"}
  BY <1>0, <1>2, <1>3, <1>9 DEF OnlyAt
<1>11. m2 = 0
  <2>1. m2 \in Nat /\ f2 \in [1 .. m2 -> Timers]
    BY <1>2 DEF Linked, Chained
  <2>2. m2 # 0 => f2[1] \in Timers
    BY <2>1
  <2> QED BY <1>2, <2>2, TimerAssumption DEF Linked
<1>12. ASSUME N <= 2, NEW x \in Timers, cl2[x] = "started", st[x] = "RUNNING"
       PROVE  x \in Members(n3, s3, m2, f2)
  <2>1. CASE x = h
    BY <1>9, <2>1
  <2>2. CASE x # h
    <3>1. cl[x] = "started"
      BY <1>12, <2>2 DEF OnlyAt
    <3>2. x \in Members(n, s, m, f)
      BY <1>12, <3>1 DEF ShapeOf
    <3>3. n <= 2
      BY <1>3, <1>12
    <3> QED BY <1>2, <1>9, <2>2, <3>2, <3>3
  <2> QED BY <2>1, <2>2
<1>13. ShapeOf(Added(r, at, h), NULL, at, cl2, st, n3, s3, m2, f2)
  BY <1>9, <1>10, <1>11, <1>12 DEF ShapeOf
<1> QED BY <1>13

(* The loop thread takes out the timer it looks at ...                     *)
LEMMA ShapeDrop ==
  ASSUME NEW l \in Lists, NEW c \in Timers, NEW at, NEW cl, NEW st,
         NEW n, NEW s, NEW m, NEW f, ShapeOf(l, c, at, cl, st, n, s, m, f),
         NEW st2, OnlyAt(c, st, st2), st2[c] # "RUNNING"
  PROVE  \E n2, s2, m2, f2 :
           ShapeOf(Removed(l, c), l.next[c], at, cl, st2, n2, s2, m2, f2)
<1>0. /\ Linked(l, c, n, s, m, f) /\ Ordered(at, Restarting(cl), n, s, m, f)
      /\ \A x \in Members(n, s, m, f) : cl[x] \notin {"none", "stopped"}
  BY DEF ShapeOf
<1>1. PICK n2, s2, m2, f2 :
        Left(l, c, at, Restarting(cl), n, s, m, f, n2, s2, m2, f2)
  BY <1>0, TakeOut
<1>2. /\ Linked(Removed(l, c), l.next[c], n2, s2, m2, f2)
      /\ Ordered(at, Restarting(cl), n2, s2, m2, f2)
      /\ Members(n2, s2, m2, f2) \subseteq Members(n, s, m, f) \ {c}
      /\ n <= 2 /\ m = 0 =>
           m2 = 0 /\ Members(n2, s2, m2, f2) = Members(n, s, m, f) \ {c}
  BY <1>1 DEF Left
<1>3. n \in Nat /\ n <= N /\ N \in Nat
  BY <1>0, LinkedTypes, TimerAssumption, FS_CardinalityType DEF N
<1>4. \A x \in Members(n2, s2, m2, f2) : cl[x] \notin {"none", "stopped"}
  BY <1>0, <1>2
<1>5. ASSUME N <= 2
      PROVE  m2 = 0 /\ Members(n2, s2, m2, f2) = Members(n, s, m, f) \ {c}
  <2>1. n <= 2 /\ m = 0
    BY <1>3, <1>5 DEF ShapeOf
  <2> QED BY <1>2, <2>1
<1>6. ASSUME N <= 2, NEW x \in Timers, cl[x] = "started", st2[x] = "RUNNING"
      PROVE  x \in Members(n2, s2, m2, f2)
  <2>1. x # c /\ st[x] = "RUNNING"
    BY <1>6 DEF OnlyAt
  <2>2. x \in Members(n, s, m, f)
    BY <1>6, <2>1 DEF ShapeOf
  <2> QED BY <1>5, <1>6, <2>1, <2>2
<1>7. ShapeOf(Removed(l, c), l.next[c], at, cl, st2, n2, s2, m2, f2)
  BY <1>2, <1>4, <1>5, <1>6 DEF ShapeOf
<1> QED BY <1>7

(* ... and may put it back for its next timeout.                           *)
LEMMA ShapeRelink ==
  ASSUME NEW l \in Lists, NEW c \in Timers, NEW at, NEW cl, NEW st,
         NEW n, NEW s, NEW m, NEW f, ShapeOf(l, c, at, cl, st, n, s, m, f),
         NEW at2 \in [Timers -> Nat], OnlyAt(c, at, at2)
  PROVE  \E n2, s2, m2, f2 :
           ShapeOf(Added(Removed(l, c), at2, c), l.next[c], at2, cl, st,
                   n2, s2, m2, f2)
<1>0. /\ Linked(l, c, n, s, m, f) /\ Ordered(at, Restarting(cl), n, s, m, f)
      /\ \A x \in Members(n, s, m, f) : cl[x] \notin {"none", "stopped"}
  BY DEF ShapeOf
<1>1. PICK n2, s2, m2, f2 :
        Left(l, c, at, Restarting(cl), n, s, m, f, n2, s2, m2, f2)
  BY <1>0, TakeOut
<1>2. /\ Linked(Removed(l, c), l.next[c], n2, s2, m2, f2)
      /\ Ordered(at, Restarting(cl), n2, s2, m2, f2)
      /\ Members(n2, s2, m2, f2) \subseteq Members(n, s, m, f) \ {c}
      /\ n <= 2 /\ m = 0 =>
           m2 = 0 /\ Members(n2, s2, m2, f2) = Members(n, s, m, f) \ {c}
  BY <1>1 DEF Left
<1>3. /\ n \in Nat /\ n <= N /\ N \in Nat
      /\ Members(n, s, m, f) \subseteq Timers /\ c \in Members(n, s, m, f)
  BY <1>0, LinkedTypes, TimerAssumption, FS_CardinalityType DEF N
<1>4. n2 \in Nat /\ m2 \in Nat
  BY <1>2, LinkedTypes
<1>5. \A x \in Members(n2, s2, m2, f2) :
        x \in Restarting(cl) \/ (x \notin Restarting(cl) /\ at2[x] = at[x])
  BY <1>2, <1>3 DEF OnlyAt
<1>6. Ordered(at2, Restarting(cl), n2, s2, m2, f2)
  BY <1>2, <1>4, <1>5, OrderedFrame
<1>7. c \notin Members(n2, s2, m2, f2)
  BY <1>2
<1>8. PICK n3, s3 : Joined(Added(Removed(l, c), at2, c), l.next[c], at2, Restarting(cl),
                           n2, s2, m2, f2, c, n3, s3)
  <2>1. Removed(l, c) \in Lists
    BY RemovedType
  <2> QED BY <1>2, <1>6, <1>7, <2>1, PutIn
<1>9. /\ Linked(Added(Removed(l, c), at2, c), l.next[c], n3, s3, m2, f2)
      /\ Ordered(at2, Restarting(cl), n3, s3, m2, f2)
      /\ Members(n3, s3, m2, f2) = Members(n2, s2, m2, f2) \cup {c}
  BY <1>8 DEF Joined
<1>10. \A x \in Members(n3, s3, m2, f2) : cl[x] \notin {"none", "stopped"}
  BY <1>0, <1>2, <1>3, <1>9
<1>11. ASSUME N <= 2
       PROVE  m2 = 0 /\ Members(n3, s3, m2, f2) = Members(n, s, m, f)
  <2>1. n <= 2 /\ m = 0
    BY <1>3, <1>11 DEF ShapeOf
  <2> QED BY <1>2, <1>3, <1>9, <2>1
<1>12. ASSUME N <= 2, NEW x \in Timers, cl[x] = "started", st[x] = "RUNNING"
       PROVE  x \in Members(n3, s3, m2, f2)
  BY <1>11, <1>12 DEF ShapeOf
<1>13. ShapeOf(Added(Removed(l, c), at2, c), l.next[c], at2, cl, st, n3, s3, m2, f2)
  BY <1>9, <1>10, <1>11, <1>12 DEF ShapeOf
<1> QED BY <1>13

(* The loop thread takes the mutex and looks at the first timer.           *)
LEMMA ShapeLock ==
  ASSUME NEW l, NEW at, NEW cl, NEW st, NEW n, NEW s, NEW m, NEW f,
         ShapeOf(l, NULL, at, cl, st, n, s, m, f)
  PROVE  ShapeOf(l, l.head, at, cl, st, n, s, m, f)
<1>1. Linked(l, NULL, n, s, m, f) /\ Chained(l, n, s) /\ l.head = First(n, s)
  BY DEF ShapeOf, Linked
<1>2. m = 0
  <2>1. m \in Nat /\ f \in [1 .. m -> Timers]
    BY <1>1 DEF Linked, Chained
  <2>2. m # 0 => f[1] \in Timers
    BY <2>1
  <2> QED BY <1>1, <2>2, TimerAssumption DEF Linked
<1>3. l.head \in On(n, s) \cup {NULL}
  BY <1>1, FirstOn
<1>4. Linked(l, l.head, n, s, m, f)
  BY <1>1, <1>2, <1>3 DEF Linked
<1> QED BY <1>4 DEF ShapeOf

(* It stops looking: a chain it has cut off and not walked to the end is   *)
(* gone for good.                                                          *)
LEMMA ShapeUnlock ==
  ASSUME NEW l, NEW c, NEW at, NEW cl, NEW st, NEW n, NEW s, NEW m, NEW f,
         ShapeOf(l, c, at, cl, st, n, s, m, f)
  PROVE  \E n2, s2, m2, f2 : ShapeOf(l, NULL, at, cl, st, n2, s2, m2, f2)
<1> DEFINE e == Slice(s, 0, 0)
<1>0. Linked(l, c, n, s, m, f) /\ Ordered(at, Restarting(cl), n, s, m, f)
  BY DEF ShapeOf
<1>1. Chained(l, 0, e) /\ On(0, e) = {} /\ InOrder(0, e, at, Restarting(cl))
  BY EmptyChain
<1>2. m = 0 => On(m, f) = {}
  BY <1>0, LinkedTypes
<1> HIDE DEF e
<1>3. Linked(l, NULL, n, s, 0, e)
  BY <1>0, <1>1 DEF Linked
<1>4. Ordered(at, Restarting(cl), n, s, 0, e)
  BY <1>0, <1>1 DEF Ordered
<1>5. Members(n, s, 0, e) \subseteq Members(n, s, m, f)
  BY <1>1 DEF Members
<1>6. m = 0 => Members(n, s, 0, e) = Members(n, s, m, f)
  BY <1>1, <1>2 DEF Members
<1>7. ShapeOf(l, NULL, at, cl, st, n, s, 0, e)
  BY <1>3, <1>4, <1>5, <1>6 DEF ShapeOf
<1> QED BY <1>7

(* The walk of p_timer_start, p_timer_stop and p_timer_del finds exactly   *)
(* the timers of the list.                                                 *)
LEMMA InListOn ==
  ASSUME NEW n, NEW s, Chained(List, n, s), head = First(n, s), NEW h \in Timers
  PROVE  InList(h) <=> h \in On(n, s)
<1>0. /\ n \in Nat /\ s \in [1 .. n -> Timers] /\ n <= N /\ N \in Nat
      /\ NULL \notin Timers
  <2>1. n <= N
    BY ChainShort
  <2> QED BY <2>1, TimerAssumption, FS_CardinalityType DEF Chained, N
<1>1. List.head = head /\ List.next = next
  BY DEF List
<1>2. \A k \in 0 .. N : Node(head, next)[k] = IF k < n THEN s[k + 1] ELSE NULL
  <2>1. \A k \in 0 .. N : Node(List.head, List.next)[k] = IF k < n THEN s[k + 1] ELSE NULL
    BY <1>1, NodeChain
  <2> QED BY <1>1, <2>1
<1>3. ASSUME InList(h) PROVE h \in On(n, s)
  <2>1. PICK k \in 0 .. N : Node(head, next)[k] = h
    BY <1>3 DEF InList
  <2>2. k < n /\ h = s[k + 1] /\ k + 1 \in 1 .. n
    BY <1>0, <1>2, <2>1
  <2> QED BY <2>2 DEF On
<1>4. ASSUME h \in On(n, s) PROVE InList(h)
  <2>1. PICK i \in 1 .. n : h = s[i]
    BY <1>4 DEF On
  <2>2. i - 1 \in 0 .. N /\ i - 1 < n /\ (i - 1) + 1 = i
    BY <1>0
  <2>3. Node(head, next)[i - 1] = h
    BY <1>2, <2>1, <2>2
  <2> QED BY <2>2, <2>3 DEF InList
<1> QED BY <1>3, <1>4

-----------------------------------------------------------------------------
(* The list variables, in every state.                                     *)
Shape(n, s, m, f) ==
  ShapeOf(List, cur, abs_timeout, client, status, n, s, m, f)

(* The inductive invariant: besides the shape, the loop thread looks at no *)
(* timer while the mutex is free, and rest is what follows cur.            *)
LinkInv ==
  /\ TypeOK
  /\ MutexFree => cur = NULL
  /\ loop = "relink" => rest = next[cur]
  /\ \E n, s, m, f : Shape(n, s, m, f)

(* Setting the list variables to l makes the list l.                       *)
LEMMA SetListIs ==
  ASSUME NEW l \in Lists, SetList(l)
  PROVE  List' = l
BY DEF SetList, List, Lists

(* LinkInv is preserved by every step of the threads and of the loop.      *)
LEMMA LinkInvStep ==
  ASSUME LinkInv, [Next]_vars
  PROVE  LinkInv'
<1>0. TypeOK /\ TypeOK' /\ List \in Lists
  BY TypeStep, ListType DEF LinkInv
<1>a. /\ abs_timeout \in [Timers -> Nat]
      /\ client \in [Timers -> {"none", "set", "link", "started", "unlink", "delete",
                                "stopped"}]
      /\ status \in [Timers -> {"IDLE", "RUNNING", "STOP"}]
      /\ loop \in {"idle", "lock", "scan", "relink"}
      /\ next \in [Timers -> Handle] /\ prev \in [Timers -> Handle]
      /\ loop = "relink" => cur \in Timers
      /\ cur \in Handle
  BY <1>0 DEF TypeOK, Handle
<1>b. PICK n, s, m, f : ShapeOf(List, cur, abs_timeout, client, status, n, s, m, f)
  BY DEF LinkInv, Shape
<1>c. MutexFree => cur = NULL
  BY DEF LinkInv
<1>d. loop = "relink" => rest = next[cur]
  BY DEF LinkInv
<1>e. /\ Linked(List, cur, n, s, m, f)
      /\ \A x \in Members(n, s, m, f) : client[x] \notin {"none", "stopped"}
      /\ cur \in Members(n, s, m, f) \cup {NULL}
      /\ Members(n, s, m, f) \subseteq Timers
      /\ Chained(List, n, s) /\ head = First(n, s)
  <2>1. Linked(List, cur, n, s, m, f)
    BY <1>b DEF ShapeOf
  <2>2. \A x \in Members(n, s, m, f) : client[x] \notin {"none", "stopped"}
    BY <1>b DEF ShapeOf
  <2>3. cur \in Members(n, s, m, f) \cup {NULL} /\ Members(n, s, m, f) \subseteq Timers
    BY <2>1, LinkedTypes
  <2>4. Chained(List, n, s) /\ head = First(n, s)
    BY <2>1 DEF Linked, List
  <2> QED BY <2>1, <2>2, <2>3, <2>4
<1>f. ASSUME NEW h \in Timers
      PROVE  Without(h) = (IF h \in On(n, s) THEN Removed(List, h) ELSE List)
             /\ Without(h) \in Lists
  <2>1. InList(h) <=> h \in On(n, s)
    BY <1>e, InListOn
  <2>2. Without(h) \in Lists
    BY <1>0, WithoutType
  <2> QED BY <2>1, <2>2 DEF Without
<1>g. ASSUME NEW n2, NEW s2, NEW m2, NEW f2,
             ShapeOf(List', cur', abs_timeout', client', status', n2, s2, m2, f2),
             MutexFree' => cur' = NULL,
             loop' = "relink" => rest' = next'[cur']
      PROVE  LinkInv'
  BY <1>0, <1>g DEF LinkInv, Shape
<1> USE <1>a
<1>1. CASE Tick
  <2>1. UNCHANGED <<List, cur, abs_timeout, client, status, loop, rest, next>>
    BY <1>1 DEF Tick, List, listVars, timerVars, loopVars
  <2>2. MutexFree' = MutexFree
    BY <2>1 DEF MutexFree
  <2> QED BY <1>b, <1>c, <1>d, <1>g, <2>1, <2>2
<1>2. ASSUME NEW h \in Timers, Add(h) PROVE LinkInv'
  <2>1. /\ UNCHANGED <<cur, loop, rest, head>> /\ client[h] = "none"
        /\ OnlyAt(h, abs_timeout, abs_timeout') /\ OnlyAt(h, client, client')
        /\ OnlyAt(h, status, status') /\ client'[h] = "set"
        /\ OnlyAt(h, next, next') /\ OnlyAt(h, prev, prev')
    BY <1>2 DEF Add, ReadClock, OnlyAt, loopVars
  <2>2. h \notin Members(n, s, m, f)
    BY <1>e, <2>1
  <2>3. /\ List'.head = List.head
        /\ \A x \in Members(n, s, m, f) :
             List'.next[x] = List.next[x] /\ List'.prev[x] = List.prev[x]
    BY <1>e, <2>1, <2>2 DEF List, OnlyAt
  <2>4. Linked(List', cur, n, s, m, f)
    BY <1>e, <2>3, LinkedFrame
  <2>5. ShapeOf(List', cur, abs_timeout, client, status, n, s, m, f)
    BY <1>b, <2>4 DEF ShapeOf
  <2>6. ShapeOf(List', cur, abs_timeout', client', status', n, s, m, f)
    BY <2>1, <2>5, ShapeRestart
  <2>7. loop = "relink" => next'[cur] = next[cur]
    BY <1>e, <2>1, <2>2, TimerAssumption DEF OnlyAt
  <2>8. MutexFree' = MutexFree
    BY <2>1 DEF MutexFree
  <2> QED BY <1>c, <1>d, <1>g, <2>1, <2>6, <2>7, <2>8
<1>3. ASSUME NEW h \in Timers, Start(h) \/ SetTimer(h) PROVE LinkInv'
  <2>1. /\ UNCHANGED <<cur, loop, rest, next, List>>
        /\ OnlyAt(h, abs_timeout, abs_timeout') /\ OnlyAt(h, client, client')
        /\ OnlyAt(h, status, status') /\ client'[h] \in {"set", "link"}
    BY <1>3 DEF Start, ReadClock, SetTimer, OnlyAt, List, loopVars, listVars
  <2>2. ShapeOf(List, cur, abs_timeout', client', status', n, s, m, f)
    BY <1>b, <2>1, ShapeRestart
  <2>3. MutexFree' = MutexFree
    BY <2>1 DEF MutexFree
  <2> QED BY <1>c, <1>d, <1>g, <2>1, <2>2, <2>3
<1>4. ASSUME NEW h \in Timers, StartLink(h) PROVE LinkInv'
  <2>0. MutexFree /\ cur = NULL /\ client[h] = "link"
    BY <1>4, <1>c DEF StartLink
  <2>1. /\ UNCHANGED <<cur, loop, rest, abs_timeout, status>>
        /\ OnlyAt(h, client, client') /\ client'[h] = "started"
        /\ SetList(Added(Without(h), abs_timeout, h))
    BY <1>4 DEF StartLink, OnlyAt, loopVars, timerVars
  <2>2. PICK r : r = Without(h)
    OBVIOUS
  <2>3. r \in Lists /\ r = IF h \in On(n, s) THEN Removed(List, h) ELSE List
    BY <1>f, <2>2
  <2>4. ShapeOf(List, NULL, abs_timeout, client, status, n, s, m, f)
    BY <1>b, <2>0
  <2>5. PICK n2, s2, m2, f2 :
          ShapeOf(Added(r, abs_timeout, h), NULL, abs_timeout, client', status,
                  n2, s2, m2, f2)
    BY <1>0, <2>0, <2>1, <2>3, <2>4, ShapeLink
  <2>6. List' = Added(r, abs_timeout, h)
    <3>1. Added(r, abs_timeout, h) \in Lists
      BY <2>3, AddedType
    <3>2. SetList(Added(r, abs_timeout, h))
      BY <2>1, <2>2
    <3> QED BY <3>1, <3>2, SetListIs
  <2>7. MutexFree' /\ loop' # "relink"
    BY <2>0, <2>1 DEF MutexFree
  <2>8. ShapeOf(List', cur', abs_timeout', client', status', n2, s2, m2, f2)
    BY <2>0, <2>1, <2>5, <2>6
  <2> QED BY <1>g, <2>0, <2>1, <2>7, <2>8
<1>5. ASSUME NEW h \in Timers, Stop(h) PROVE LinkInv'
  <2>1. /\ UNCHANGED <<cur, loop, rest, next, List, abs_timeout>>
        /\ client[h] \in {"started", "stopped"}
        /\ OnlyAt(h, client, client') /\ OnlyAt(h, status, status')
        /\ client'[h] \in {"unlink", "delete"}
    BY <1>5 DEF Stop, OnlyAt, List, loopVars, listVars
  <2>2. ShapeOf(List, cur, abs_timeout, client', status', n, s, m, f)
    BY <1>b, <2>1, ShapeStop
  <2>3. MutexFree' = MutexFree
    BY <2>1 DEF MutexFree
  <2> QED BY <1>c, <1>d, <1>g, <2>1, <2>2, <2>3
<1>6. ASSUME NEW h \in Timers, StopUnlink(h) PROVE LinkInv'
  <2>0. MutexFree /\ cur = NULL /\ client[h] \in {"unlink", "delete"}
    BY <1>6, <1>c DEF StopUnlink
  <2>1. /\ UNCHANGED <<cur, loop, rest, abs_timeout, status>>
        /\ OnlyAt(h, client, client') /\ client'[h] \in {"none", "stopped"}
        /\ SetList(Without(h))
    BY <1>6 DEF StopUnlink, OnlyAt, loopVars, timerVars
  <2>2. PICK r : r = Without(h)
    OBVIOUS
  <2>3. r \in Lists /\ r = IF h \in On(n, s) THEN Removed(List, h) ELSE List
    BY <1>f, <2>2
  <2>4. ShapeOf(List, NULL, abs_timeout, client, status, n, s, m, f)
    BY <1>b, <2>0
  <2>5. PICK n2, s2, m2, f2 :
          ShapeOf(r, NULL, abs_timeout, client', status, n2, s2, m2, f2)
    BY <1>0, <2>0, <2>1, <2>3, <2>4, ShapeUnlink
  <2>6. List' = r
    BY <2>1, <2>2, <2>3, SetListIs
  <2>7. MutexFree' /\ loop' # "relink"
    BY <2>0, <2>1 DEF MutexFree
  <2>8. ShapeOf(List', cur', abs_timeout', client', status', n2, s2, m2, f2)
    BY <2>0, <2>1, <2>5, <2>6
  <2> QED BY <1>g, <2>0, <2>1, <2>7, <2>8
<1>7. CASE LoopTime
  <2>1. UNCHANGED <<List, cur, abs_timeout, client, status, next>> /\ MutexFree
        /\ loop' = "lock"
    BY <1>7 DEF LoopTime, List, listVars, timerVars, MutexFree
  <2> QED BY <1>b, <1>c, <1>g, <2>1
<1>8. CASE LoopLock
  <2>1. UNCHANGED <<List, abs_timeout, client, status>> /\ MutexFree
        /\ loop' = "scan" /\ cur' = List.head
    BY <1>8 DEF LoopLock, List, listVars, timerVars, MutexFree
  <2>2. ShapeOf(List, List.head, abs_timeout, client, status, n, s, m, f)
    BY <1>b, <1>c, <2>1, ShapeLock
  <2>3. ~MutexFree'
    BY <2>1 DEF MutexFree
  <2> QED BY <1>g, <2>1, <2>2, <2>3
<1>9. CASE LoopUnlock
  <2>1. UNCHANGED <<List, abs_timeout, client, status>>
        /\ loop' = "idle" /\ cur' = NULL
    BY <1>9 DEF LoopUnlock, List, listVars, timerVars
  <2>2. PICK n2, s2, m2, f2 :
          ShapeOf(List, NULL, abs_timeout, client, status, n2, s2, m2, f2)
    BY <1>b, ShapeUnlock
  <2> QED BY <1>g, <2>1, <2>2
<1>10. CASE LoopDrop
  <2>1. cur \in Timers /\ status[cur] # "RUNNING"
    BY <1>10 DEF LoopDrop, ScanOver, Handle
  <2>2. /\ UNCHANGED <<abs_timeout, client, status, loop>> /\ loop = "scan"
        /\ SetList(Removed(List, cur)) /\ cur' = List.next[cur]
    BY <1>10 DEF LoopDrop, List, timerVars
  <2>3. PICK n2, s2, m2, f2 :
          ShapeOf(Removed(List, cur), List.next[cur], abs_timeout, client, status,
                  n2, s2, m2, f2)
    <3>1. OnlyAt(cur, status, status)
      BY DEF OnlyAt
    <3> QED BY <1>0, <1>b, <2>1, <3>1, ShapeDrop
  <2>4. List' = Removed(List, cur)
    BY <1>0, <2>1, <2>2, RemovedType, SetListIs
  <2>5. ~MutexFree'
    BY <2>2 DEF MutexFree
  <2>6. ShapeOf(List', cur', abs_timeout', client', status', n2, s2, m2, f2)
    BY <2>2, <2>3, <2>4
  <2> QED BY <1>g, <2>2, <2>5, <2>6
<1>11. CASE LoopFire
  <2>1. UNCHANGED <<List, cur, abs_timeout, client, status, next>>
        /\ loop' = "relink" /\ rest' = next[cur]
    BY <1>11 DEF LoopFire, List, listVars, timerVars
  <2>2. ~MutexFree'
    BY <2>1 DEF MutexFree
  <2> QED BY <1>b, <1>g, <2>1, <2>2
<1>12. CASE LoopRelink
  <2>1. /\ cur \in Timers /\ client' = client /\ loop' = "scan"
        /\ cur' = List.next[cur]
    BY <1>12, <1>d DEF LoopRelink, List
  <2>2. PICK at : at = [abs_timeout EXCEPT ![cur] = AbsTimeout(curtime, cur)]
    OBVIOUS
  <2>3. \/ /\ abs_timeout' = at /\ status' = status
           /\ SetList(Added(Removed(List, cur), at, cur))
        \/ /\ abs_timeout' = abs_timeout
           /\ status' = [status EXCEPT ![cur] = "STOP"]
           /\ SetList(Removed(List, cur))
    BY <1>12, <2>2 DEF LoopRelink
  <2>4. ~MutexFree'
    BY <2>1 DEF MutexFree
  <2>5. Removed(List, cur) \in Lists
    BY <1>0, <2>1, RemovedType
  <2>6. CASE /\ abs_timeout' = at /\ status' = status
             /\ SetList(Added(Removed(List, cur), at, cur))
    <3>1. abs_timeout' \in [Timers -> Nat]
      BY <1>0 DEF TypeOK
    <3>2. at \in [Timers -> Nat] /\ OnlyAt(cur, abs_timeout, at)
      BY <2>1, <2>2, <2>6, <3>1 DEF OnlyAt
    <3>3. PICK n2, s2, m2, f2 :
            ShapeOf(Added(Removed(List, cur), at, cur), List.next[cur], at, client,
                    status, n2, s2, m2, f2)
      BY <1>0, <1>b, <2>1, <3>2, ShapeRelink
    <3>4. List' = Added(Removed(List, cur), at, cur)
      <4>1. Added(Removed(List, cur), at, cur) \in Lists
        BY <2>1, <2>5, AddedType
      <4> QED BY <2>6, <4>1, SetListIs
    <3>5. ShapeOf(List', cur', abs_timeout', client', status', n2, s2, m2, f2)
      BY <2>1, <2>6, <3>3, <3>4
    <3> QED BY <1>g, <2>1, <2>4, <3>5
  <2>7. CASE /\ abs_timeout' = abs_timeout
             /\ status' = [status EXCEPT ![cur] = "STOP"]
             /\ SetList(Removed(List, cur))
    <3>1. OnlyAt(cur, status, status') /\ status'[cur] # "RUNNING"
      BY <2>1, <2>7 DEF OnlyAt
    <3>2. PICK n2, s2, m2, f2 :
            ShapeOf(Removed(List, cur), List.next[cur], abs_timeout, client, status',
                    n2, s2, m2, f2)
      BY <1>0, <1>b, <2>1, <3>1, ShapeDrop
    <3>3. List' = Removed(List, cur)
      BY <2>5, <2>7, SetListIs
    <3>4. ShapeOf(List', cur', abs_timeout', client', status', n2, s2, m2, f2)
      BY <2>1, <2>7, <3>2, <3>3
    <3> QED BY <1>g, <2>1, <2>4, <3>4
  <2> QED BY <2>3, <2>6, <2>7
<1>13. CASE UNCHANGED vars
  <2>1. UNCHANGED <<List, cur, abs_timeout, client, status, loop, rest, next>>
    BY <1>13 DEF vars, List, listVars, timerVars, loopVars
  <2>2. MutexFree' = MutexFree
    BY <2>1 DEF MutexFree
  <2> QED BY <1>b, <1>c, <1>d, <1>g, <2>1, <2>2
<1> QED
  BY <1>1, <1>2, <1>3, <1>4, <1>5, <1>6, <1>7, <1>8, <1>9, <1>10, <1>11,
     <1>12, <1>13 DEF Next, Client, Loop

(* The empty list has the shape.                                           *)
LEMMA LinkInvInit ==
  Init => LinkInv
<1> SUFFICES ASSUME Init PROVE LinkInv
  OBVIOUS
<1> DEFINE e == Slice(<<>>, 0, 0)
<1>1. TypeOK
  BY TypeInit
<1>2. /\ Chained(List, 0, e) /\ On(0, e) = {}
      /\ InOrder(0, e, abs_timeout, Restarting(client))
  BY EmptyChain
<1>3. /\ List.head = NULL /\ cur = NULL /\ loop = "idle"
      /\ \A h \in Timers : client[h] = "none"
  BY DEF Init, List
<1> HIDE DEF e
<1>4. Linked(List, cur, 0, e, 0, e)
  BY <1>2, <1>3 DEF Linked, First
<1>5. Members(0, e, 0, e) = {}
  BY <1>2 DEF Members
<1>6. Shape(0, e, 0, e)
  BY <1>2, <1>3, <1>4, <1>5 DEF Shape, ShapeOf, Ordered
<1> QED BY <1>1, <1>3, <1>6 DEF LinkInv

(* What the walk along the list sees in a state with that shape.           *)
LEMMA ShapeNodes ==
  ASSUME NEW n, NEW s, NEW m, NEW f, Shape(n, s, m, f)
  PROVE  /\ n \in Nat /\ N \in Nat /\ n <= N
         /\ s \in [1 .. n -> Timers] /\ NULL \notin Timers
         /\ \A k \in 0 .. N : Node(head, next)[k] = IF k < n THEN s[k + 1] ELSE NULL
<1>1. Chained(List, n, s) /\ List.head = First(n, s)
  BY DEF Shape, ShapeOf, Linked
<1>2. n <= N
  BY <1>1, ChainShort
<1>3. \A k \in 0 .. N : Node(List.head, List.next)[k] = IF k < n THEN s[k + 1] ELSE NULL
  BY <1>1, NodeChain
<1>4. List.head = head /\ List.next = next
  BY DEF List
<1>5. n \in Nat /\ N \in Nat /\ s \in [1 .. n -> Timers] /\ NULL \notin Timers
  BY <1>1, TimerAssumption, FS_CardinalityType DEF Chained, N
<1> QED BY <1>2, <1>3, <1>4, <1>5

(* A list of that shape is consistent, ...                                 *)
LEMMA LinkInvConsistent ==
  LinkInv => ListConsistent
<1> SUFFICES ASSUME LinkInv PROVE ListConsistent
  OBVIOUS
<1>1. PICK n, s, m, f : Shape(n, s, m, f)
  BY DEF LinkInv
<1>2. PICK node : node = Node(head, next)
  OBVIOUS
<1>3. /\ n \in Nat /\ N \in Nat /\ n <= N
      /\ s \in [1 .. n -> Timers] /\ NULL \notin Timers
      /\ \A k \in 0 .. N : node[k] = IF k < n THEN s[k + 1] ELSE NULL
  BY <1>1, <1>2, ShapeNodes
<1>4. node[N] = NULL
  BY <1>3
<1>5. /\ head = First(n, s)
      /\ \A i \in 1 .. n : prev[s[i]] = IF i = 1 THEN NULL ELSE s[i - 1]
  BY <1>1 DEF Shape, ShapeOf, Linked, Chained, List
<1>6. head # NULL => prev[head] = NULL
  <2>1. n # 0 => 1 \in 1 .. n
    BY <1>3
  <2> QED BY <1>5, <2>1 DEF First
<1>7. ASSUME NEW k \in 0 .. N - 1, node[k] # NULL, node[k + 1] # NULL
      PROVE  prev[node[k + 1]] = node[k]
  <2>1. k \in 0 .. N /\ k + 1 \in 0 .. N
    BY <1>3
  <2>2. /\ node[k] = IF k < n THEN s[k + 1] ELSE NULL
        /\ node[k + 1] = IF k + 1 < n THEN s[(k + 1) + 1] ELSE NULL
    BY <1>3, <2>1
  <2>3. k + 1 < n /\ node[k + 1] = s[k + 2] /\ node[k] = s[k + 1]
    BY <1>3, <1>7, <2>2
  <2>4. k + 2 \in 1 .. n /\ k + 2 # 1 /\ (k + 2) - 1 = k + 1
    BY <1>3, <2>3
  <2>5. prev[s[k + 2]] = s[k + 1]
    BY <1>5, <2>4
  <2> QED BY <2>3, <2>5
<1> QED BY <1>2, <1>4, <1>6, <1>7 DEF ListConsistent

(* ... sorted when no timer is being restarted, ...                        *)
LEMMA LinkInvSorted ==
  LinkInv => Sorted
<1> SUFFICES ASSUME LinkInv, \A h \in Timers : client[h] \notin {"set", "link"}
             PROVE  \A k \in 0 .. N - 1 :
                      Node(head, next)[k] # NULL /\ Node(head, next)[k + 1] # NULL =>
                        abs_timeout[Node(head, next)[k]]
                          <= abs_timeout[Node(head, next)[k + 1]]
  BY DEF Sorted
<1>1. PICK n, s, m, f : Shape(n, s, m, f)
  BY DEF LinkInv
<1>2. PICK node : node = Node(head, next)
  OBVIOUS
<1>3. /\ n \in Nat /\ N \in Nat /\ n <= N
      /\ s \in [1 .. n -> Timers] /\ NULL \notin Timers
      /\ \A k \in 0 .. N : node[k] = IF k < n THEN s[k + 1] ELSE NULL
  BY <1>1, <1>2, ShapeNodes
<1>4. Restarting(client) = {}
  BY DEF Restarting
<1>5. \A i \in 1 .. n - 1 : abs_timeout[s[i]] <= abs_timeout[s[i + 1]]
  BY <1>1, <1>4 DEF Shape, ShapeOf, Ordered, InOrder
<1>6. ASSUME NEW k \in 0 .. N - 1, node[k] # NULL, node[k + 1] # NULL
      PROVE  abs_timeout[node[k]] <= abs_timeout[node[k + 1]]
  <2>1. k \in 0 .. N /\ k + 1 \in 0 .. N
    BY <1>3
  <2>2. /\ node[k] = IF k < n THEN s[k + 1] ELSE NULL
        /\ node[k + 1] = IF k + 1 < n THEN s[(k + 1) + 1] ELSE NULL
    BY <1>3, <2>1
  <2>3. k + 1 < n /\ node[k + 1] = s[(k + 1) + 1] /\ node[k] = s[k + 1]
    BY <1>3, <1>6, <2>2
  <2>4. k + 1 \in 1 .. n - 1
    BY <1>3, <2>3
  <2> QED BY <1>5, <2>3, <2>4
<1> QED BY <1>2, <1>6

(* ... and, with at most two timers, complete.                             *)
LEMMA LinkInvNoneLost ==
  ASSUME LinkInv, N <= 2
  PROVE  NoneLost
<1> SUFFICES ASSUME MutexFree, NEW h \in Timers,
                    client[h] = "started", status[h] = "RUNNING"
             PROVE  InList(h)
  BY DEF NoneLost
<1>1. PICK n, s, m, f : Shape(n, s, m, f)
  BY DEF LinkInv
<1>2. /\ Linked(List, cur, n, s, m, f) /\ m = 0 /\ h \in Members(n, s, m, f)
      /\ Chained(List, n, s) /\ head = First(n, s)
  BY <1>1 DEF Shape, ShapeOf, Linked, List
<1>3. h \in On(n, s)
  <2>1. On(m, f) = {}
    BY <1>2, LinkedTypes
  <2> QED BY <1>2, <2>1 DEF Members
<1> QED BY <1>2, <1>3, InListOn

(* Whenever the mutex is free the links form one proper doubly linked list *)
(* that ends, whatever the threads and the loop have done: taking out a    *)
(* timer from the middle loses timers but never breaks the list.           *)
THEOREM ListConsistentCorrect == Spec => []ListConsistent
<1>1. Init => LinkInv
  BY LinkInvInit
<1>2. LinkInv /\ [Next]_vars => LinkInv'
  BY LinkInvStep
<1>3. LinkInv => ListConsistent
  BY LinkInvConsistent
<1> QED BY <1>1, <1>2, <1>3, PTL DEF Spec

(* When no timer is just being restarted the list is sorted by timeout,    *)
(* for any number of timers, although p_timer_start changes the timeout of *)
(* a linked timer before it takes the mutex.                               *)
THEOREM SortedCorrect == Spec => []Sorted
<1>1. Init => LinkInv
  BY LinkInvInit
<1>2. LinkInv /\ [Next]_vars => LinkInv'
  BY LinkInvStep
<1>3. LinkInv => Sorted
  BY LinkInvSorted
<1> QED BY <1>1, <1>2, <1>3, PTL DEF Spec

(* With at most two timers no running timer is lost: there is no middle    *)
(* from which _timer_list_remove could take one out.  With three it is.    *)
THEOREM NoneLostOfTwo ==
  ASSUME N <= 2
  PROVE  Spec => []NoneLost
<1>1. Init => LinkInv
  BY LinkInvInit
<1>2. LinkInv /\ [Next]_vars => LinkInv'
  BY LinkInvStep
<1>3. LinkInv => NoneLost
  BY LinkInvNoneLost
<1> QED BY <1>1, <1>2, <1>3, PTL DEF Spec

(* A timer p_timer_stop or p_timer_del has returned for is not in the list *)
(* the loop thread will walk, so its handle may be reused or forgotten.    *)
StoppedUnlinked ==
  MutexFree =>
    \A h \in Timers : client[h] \in {"none", "stopped"} => ~InList(h)

(* A stopped or deleted timer is out of the list, for any number of        *)
(* timers, and also when it was stopped while its own callback ran.        *)
THEOREM StoppedUnlinkedCorrect == Spec => []StoppedUnlinked
<1>1. Init => LinkInv
  BY LinkInvInit
<1>2. LinkInv /\ [Next]_vars => LinkInv'
  BY LinkInvStep
<1>3. LinkInv => StoppedUnlinked
  <2> SUFFICES ASSUME LinkInv, NEW h \in Timers, client[h] \in {"none", "stopped"}
               PROVE  ~InList(h)
    BY DEF StoppedUnlinked
  <2>1. PICK n, s, m, f : Shape(n, s, m, f)
    BY DEF LinkInv
  <2>2. /\ Chained(List, n, s) /\ head = First(n, s) /\ h \notin On(n, s)
    BY <2>1 DEF Shape, ShapeOf, Linked, List, Members
  <2> QED BY <2>2, InListOn
<1> QED BY <1>1, <1>2, <1>3, PTL DEF Spec
=============================================================================
