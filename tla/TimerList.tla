----------------------------- MODULE TimerList -----------------------------
(***************************************************************************)
(* The timer service of src/utils/timer.c: a doubly linked list of timers  *)
(* sorted by their absolute timeout, the loop thread that fires them with  *)
(* g_timer_list_mutex held, and the threads that add, start, stop and      *)
(* delete timers.  Each timer is used by one thread of its own.  The wait  *)
(* of the loop thread (select on g_ctrl_fd) is left open: it may look at   *)
(* the list at any time.                                                   *)
(***************************************************************************)
EXTENDS Integers, FiniteSets

CONSTANTS
  Timers,     \* the timer handles
  TimeoutMs,  \* [Timers -> Nat \ {0}], timeout_ms
  Repeat,     \* [Timers -> Int], repeat; negative is TIMER_INFINITE_LOOP
  MaxTime,    \* bound of the clock
  NULL

ASSUME TimerAssumption ==
  /\ IsFiniteSet(Timers)
  /\ NULL \notin Timers
  /\ TimeoutMs \in [Timers -> Nat \ {0}]
  /\ Repeat \in [Timers -> Int \ {0}]
  /\ MaxTime \in Nat

VARIABLES
  now,          \* CLOCK_MONOTONIC
  head,         \* g_timer_list_head
  prev, next,   \* the links of a handle
  abs_timeout,
  timeout_count,
  status,
  client,       \* the thread that uses the timer: its operation
  loop,         \* p_timer_loop_once: where it is
  curtime,      \* its local variables
  cur, rest,
  fires,        \* history: callbacks since the timer was last started
  armed,        \* history: repeats for ever; started, and no callback since
  due           \* history: the timeout of the last start or repetition

listVars  == <<head, prev, next>>
timerVars == <<abs_timeout, timeout_count, status>>
loopVars  == <<loop, curtime, cur, rest>>
history   == <<fires, armed, due>>
vars == <<now, listVars, timerVars, client, loopVars, history>>

Handle == Timers \cup {NULL}
N == Cardinality(Timers)

MutexFreeAlways == TRUE
MutexFree == loop \notin {"scan", "relink"}

(* The k-th node of the list that starts at h, following next.             *)
Node(h, nx) ==
  LET walk[k \in 0 .. N] ==
        IF k = 0 THEN h
        ELSE IF walk[k - 1] = NULL THEN NULL ELSE nx[walk[k - 1]]
  IN walk

InList(h) == \E k \in 0 .. N : Node(head, next)[k] = h

TypeOK ==
  /\ now \in 0 .. MaxTime
  /\ head \in Handle
  /\ prev \in [Timers -> Handle]
  /\ next \in [Timers -> Handle]
  /\ abs_timeout \in [Timers -> Nat]
  /\ timeout_count \in [Timers -> Nat]
  /\ status \in [Timers -> {"IDLE", "RUNNING", "STOP"}]
  /\ client \in [Timers -> {"none", "set", "link", "started", "unlink", "delete",
                            "stopped"}]
  /\ loop \in {"idle", "lock", "scan", "relink"}
  /\ curtime \in 0 .. MaxTime
  /\ cur \in Handle
  /\ loop = "relink" => cur # NULL
  /\ rest \in Handle
  /\ fires \in [Timers -> Nat]
  /\ armed \in [Timers -> BOOLEAN]
  /\ due \in [Timers -> Nat]

Init ==
  /\ now = 0
  /\ head = NULL
  /\ prev = [h \in Timers |-> NULL]
  /\ next = [h \in Timers |-> NULL]
  /\ abs_timeout = [h \in Timers |-> 0]
  /\ timeout_count = [h \in Timers |-> 0]
  /\ status = [h \in Timers |-> "IDLE"]
  /\ client = [h \in Timers |-> "none"]
  /\ loop = "idle"
  /\ curtime = 0
  /\ cur = NULL
  /\ rest = NULL
  /\ fires = [h \in Timers |-> 0]
  /\ armed = [h \in Timers |-> FALSE]
  /\ due = [h \in Timers |-> 0]

-----------------------------------------------------------------------------
(* The list operations, on a list l = [head, prev, next].                  *)

List == [head |-> head, prev |-> prev, next |-> next]

SetList(l) == head' = l.head /\ prev' = l.prev /\ next' = l.next

(* f with NULL for the handles in S.                                       *)
Cut(f, S) == [x \in Timers |-> IF x \in S THEN NULL ELSE f[x]]

(* _timer_list_remove as it would be with the head branch forgotten.       *)
RemovedKeepHead(l, h) ==
  [l EXCEPT !.prev = Cut(@, {h, l.next[h]}), !.next = Cut(@, {h, l.prev[h]})]

(* _timer_list_remove.  A node in the middle is not bridged: its two       *)
(* neighbours are cut off instead.  The links of h itself keep their old   *)
(* values in the code; nothing reads them until h is added again, and they *)
(* are NULL here.                                                          *)
Removed(l, h) ==
  [head |-> IF l.prev[h] = NULL THEN l.next[h] ELSE l.head,
   prev |-> Cut(l.prev, {h, l.next[h]}),
   next |-> Cut(l.next, {h, l.prev[h]})]

InsertBefore(l, c, h) ==
  [head |-> IF l.prev[c] = NULL THEN h ELSE l.head,
   prev |-> [l.prev EXCEPT ![h] = l.prev[c], ![c] = h],
   next |-> [x \in Timers |-> IF x = h THEN c
                              ELSE IF x = l.prev[c] THEN h ELSE l.next[x]]]

InsertAfter(l, c, h) ==
  [head |-> l.head,
   prev |-> [x \in Timers |-> IF x = h THEN c
                              ELSE IF x = l.next[c] THEN h ELSE l.prev[x]],
   next |-> [l.next EXCEPT ![h] = l.next[c], ![c] = h]]

LaterReversed(at, c, h) == at[c] < at[h]
Later(at, c, h) == at[c] > at[h]

(* _timer_list_add: before the first node that times out later than h, or  *)
(* after the last one.  (On a list with a cycle the code would not return.)*)
Added(l, at, h) ==
  LET node     == Node(l.head, l.next)
      first(c) == \E k \in 0 .. N :
                    /\ node[k] = c
                    /\ Later(at, c, h)
                    /\ \A j \in 0 .. k - 1 : ~Later(at, node[j], h)
      last(c)  == l.next[c] = NULL /\ \E k \in 0 .. N : node[k] = c
  IN IF l.head = NULL
       THEN [head |-> h,
             prev |-> [l.prev EXCEPT ![h] = NULL],
             next |-> [l.next EXCEPT ![h] = NULL]]
     ELSE IF \E c \in Timers : first(c)
       THEN InsertBefore(l, CHOOSE c \in Timers : first(c), h)
     ELSE IF \E c \in Timers : last(c)
       THEN InsertAfter(l, CHOOSE c \in Timers : last(c), h)
     ELSE l

-----------------------------------------------------------------------------
Tick ==
  /\ now < MaxTime
  /\ now' = now + 1
  /\ UNCHANGED <<listVars, timerVars, client, loopVars, history>>

-----------------------------------------------------------------------------
(* _timer_add_abstimeout.  A time is one number here: the carry from       *)
(* tv_nsec to tv_sec is left out.                                          *)
AbsTimeoutBack(time, h) == time - TimeoutMs[h]
AbsTimeout(time, h) == time + TimeoutMs[h]

(* The API.  The fields of the handle are written before the mutex is      *)
(* taken, so an operation takes several steps.                             *)

(* p_timer_start reads the clock into abs_timeout ...                      *)
ReadClock(h) ==
  /\ now + TimeoutMs[h] <= MaxTime
  /\ abs_timeout' = [abs_timeout EXCEPT ![h] = now]
  /\ client' = [client EXCEPT ![h] = "set"]
  /\ UNCHANGED <<now, head, timeout_count, loopVars, history>>

(* p_timer_add: a fresh handle, which is started at once.                  *)
Add(h) ==
  /\ client[h] = "none"
  /\ prev' = [prev EXCEPT ![h] = NULL]
  /\ next' = [next EXCEPT ![h] = NULL]
  /\ status' = [status EXCEPT ![h] = "IDLE"]
  /\ ReadClock(h)

(* p_timer_start on a handle that exists, started or not.                  *)
Start(h) ==
  /\ client[h] \in {"started", "stopped"}
  /\ ReadClock(h)
  /\ UNCHANGED <<prev, next, status>>

(* ... adds timeout_ms to what it finds there, and sets the timer running. *)
SetTimer(h) ==
  /\ client[h] = "set"
  /\ abs_timeout' = [abs_timeout EXCEPT ![h] = AbsTimeout(@, h)]
  /\ due' = [due EXCEPT ![h] = AbsTimeout(abs_timeout[h], h)]
  /\ timeout_count' = [timeout_count EXCEPT ![h] = 0]
  /\ status' = [status EXCEPT ![h] = "RUNNING"]
  /\ client' = [client EXCEPT ![h] = "link"]
  /\ fires' = [fires EXCEPT ![h] = 0]
  /\ armed' = [armed EXCEPT ![h] = Repeat[h] < 0]
  /\ UNCHANGED <<now, listVars, loopVars>>

WithoutKept(h) == List
Without(h) == IF InList(h) THEN Removed(List, h) ELSE List

(* The rest of p_timer_start, with the mutex.                              *)
StartLink(h) ==
  /\ client[h] = "link"
  /\ MutexFree
  /\ SetList(Added(Without(h), abs_timeout, h))
  /\ client' = [client EXCEPT ![h] = "started"]
  /\ UNCHANGED <<now, timerVars, loopVars, history>>

(* p_timer_stop and p_timer_del, before the mutex.                         *)
Stop(h) ==
  /\ client[h] \in {"started", "stopped"}
  /\ status' = [status EXCEPT ![h] = "STOP"]
  /\ \E op \in {"unlink", "delete"} : client' = [client EXCEPT ![h] = op]
  /\ armed' = [armed EXCEPT ![h] = FALSE]
  /\ UNCHANGED <<now, listVars, abs_timeout, timeout_count, loopVars, fires, due>>

(* With the mutex; p_timer_del then frees userdata and forgets the handle. *)
StopUnlink(h) ==
  /\ client[h] \in {"unlink", "delete"}
  /\ MutexFree
  /\ SetList(Without(h))
  /\ client' = [client EXCEPT ![h] =
                  IF client[h] = "delete" THEN "none" ELSE "stopped"]
  /\ UNCHANGED <<now, timerVars, loopVars, history>>

Client(h) ==
  \/ Add(h) \/ Start(h) \/ SetTimer(h) \/ StartLink(h)
  \/ Stop(h) \/ StopUnlink(h)

-----------------------------------------------------------------------------
(* p_timer_loop_once.                                                      *)

(* The list is tested for emptiness and the clock is read without the      *)
(* mutex.                                                                  *)
LoopTime ==
  /\ loop = "idle"
  /\ head # NULL
  /\ curtime' = now
  /\ loop' = "lock"
  /\ UNCHANGED <<now, listVars, timerVars, client, cur, rest, history>>

LoopLock ==
  /\ loop = "lock"
  /\ loop' = "scan"
  /\ cur' = head
  /\ UNCHANGED <<now, listVars, timerVars, client, curtime, rest, history>>

ScanOverNever == cur = NULL
ScanOver == IF cur = NULL THEN TRUE ELSE curtime < abs_timeout[cur]

LoopUnlock ==
  /\ loop = "scan"
  /\ ScanOver
  /\ loop' = "idle"
  /\ curtime' = 0
  /\ cur' = NULL
  /\ UNCHANGED <<now, listVars, timerVars, client, rest, history>>

LoopDrop ==
  /\ loop = "scan"
  /\ ~ScanOver
  /\ status[cur] # "RUNNING"
  /\ SetList(Removed(List, cur))
  /\ cur' = next[cur]
  /\ UNCHANGED <<now, timerVars, client, loop, curtime, rest, history>>

(* The callback runs with the mutex held.                                  *)
LoopFire ==
  /\ loop = "scan"
  /\ ~ScanOver
  /\ status[cur] = "RUNNING"
  /\ loop' = "relink"
  /\ rest' = next[cur]
  /\ fires' = [fires EXCEPT ![cur] = IF Repeat[cur] < 0 THEN 0 ELSE @ + 1]
  /\ armed' = [armed EXCEPT ![cur] = FALSE]
  /\ UNCHANGED <<now, listVars, timerVars, client, curtime, cur, due>>

AgainOnceMore(h, count) == count <= Repeat[h] \/ Repeat[h] < 0
AgainFinite(h, count) == count < Repeat[h]
Again(h, count) == count < Repeat[h] \/ Repeat[h] < 0

(* After the callback: back into the list for another timeout, or stopped. *)
(* The count of a timer that repeats for ever is not observed: it stays 0. *)
LoopRelink ==
  LET count == IF Repeat[cur] < 0 THEN 0 ELSE timeout_count[cur] + 1
      at    == [abs_timeout EXCEPT ![cur] = AbsTimeout(curtime, cur)]
  IN /\ loop = "relink"
     /\ timeout_count' = [timeout_count EXCEPT ![cur] = count]
     /\ IF Again(cur, count)
          THEN /\ abs_timeout' = at
               /\ due' = [due EXCEPT ![cur] = at[cur]]
               /\ SetList(Added(Removed(List, cur), at, cur))
               /\ UNCHANGED status
          ELSE /\ status' = [status EXCEPT ![cur] = "STOP"]
               /\ SetList(Removed(List, cur))
               /\ UNCHANGED <<abs_timeout, due>>
     /\ cur' = rest
     /\ rest' = NULL
     /\ loop' = "scan"
     /\ UNCHANGED <<now, client, curtime, fires, armed>>

Loop == LoopTime \/ LoopLock \/ LoopUnlock \/ LoopDrop \/ LoopFire \/ LoopRelink

-----------------------------------------------------------------------------
Next == Tick \/ Loop \/ \E h \in Timers : Client(h)

Spec == Init /\ [][Next]_vars

(* Time passes; the loop thread polls at least every 10 seconds; a thread  *)
(* that began p_timer_start, p_timer_stop or p_timer_del gets the mutex.   *)
Fairness ==
  /\ WF_vars(Tick)
  /\ WF_vars(Loop)
  /\ \A h \in Timers : /\ WF_vars(SetTimer(h))
                        /\ SF_vars(StartLink(h))
                        /\ SF_vars(StopUnlink(h))

FairSpec == Spec /\ Fairness

-----------------------------------------------------------------------------
(* Properties.                                                             *)

(* Whenever the mutex is free the links form one proper doubly linked      *)
(* list: it ends, and prev mirrors next.                                   *)
ListConsistent ==
  MutexFree =>
    LET node == Node(head, next)
    IN /\ node[N] = NULL
       /\ head # NULL => prev[head] = NULL
       /\ \A k \in 0 .. N - 1 :
            node[k] # NULL /\ node[k + 1] # NULL => prev[node[k + 1]] = node[k]

(* With no operation under way the list is sorted by timeout, although     *)
(* p_timer_start changes the timeout of a linked timer without the mutex.  *)
Sorted ==
  MutexFree /\ (\A h \in Timers : client[h] \notin {"set", "link"}) =>
    LET node == Node(head, next)
    IN \A k \in 0 .. N - 1 :
         node[k] # NULL /\ node[k + 1] # NULL =>
           abs_timeout[node[k]] <= abs_timeout[node[k + 1]]

(* A running timer is in the list: stopping, restarting or firing another  *)
(* timer never takes it out.                                               *)
NoneLost ==
  MutexFree =>
    \A h \in Timers : client[h] = "started" /\ status[h] = "RUNNING" => InList(h)

(* No callback runs for a timer once p_timer_stop or p_timer_del has       *)
(* returned (p_timer_del frees the userdata the callback would use).       *)
NoCallbackAfterStop ==
  loop = "relink" => client[cur] \notin {"stopped", "none"}

(* A timer with a finite repeat fires at most that often per start.        *)
RepeatBound ==
  \A h \in Timers : Repeat[h] > 0 => fires[h] <= Repeat[h]

(* A timer that repeats for ever fires after every start, unless it is     *)
(* stopped first or its timeout lies beyond the end of the clock, also     *)
(* when it is restarted while its callback runs.                           *)
Fires ==
  \A h \in Timers :
    Repeat[h] < 0 => (armed[h] ~> ~armed[h] \/ abs_timeout[h] > MaxTime)

(* A callback runs when timeout_ms have passed since the timer was last    *)
(* started or repeated, never before.                                      *)
NotEarly == [][LoopFire => due[cur] <= now]_vars

(* What is left of it: only a timer that p_timer_start is just restarting  *)
(* can fire too early, because the loop thread sees abs_timeout between    *)
(* the reading of the clock and the addition.                              *)
EarlyOnlyInRestart ==
  [][LoopFire => due[cur] <= now \/ client[cur] = "set"]_vars
=============================================================================
