----------------------------- MODULE TimerPool -----------------------------
(***************************************************************************)
(* The timer pool of the OCPP part (tool/timer): one pool thread that      *)
(* sleeps until the next wake-up time, and timers that other threads       *)
(* start, restart and stop under m_wakeup_mutex.  The pool thread runs a   *)
(* callback without the mutex, and a callback that works on a timer does   *)
(* not take it either (TimerPool::lock compares the thread's id), so its   *)
(* access to the list of active timers races with theirs.                  *)
(*                                                                         *)
(* A timer's interval and mode are the same in every start.  The critical  *)
(* sections of the other threads are single steps; `pt = "blocking"' is    *)
(* the only time the pool thread keeps the mutex over several steps.       *)
(***************************************************************************)
EXTENDS ListOps, Functions

CONSTANTS
  Timers,
  Interval,    \* m_interval of each timer
  SingleShot,  \* m_single_shot of each timer
  Idle,        \* 2400 hours: the sleep without any active timer
  MaxTime,     \* bound of the clock
  MaxOps,      \* bound of the calls of start, restart and stop
  NoTimer

ASSUME TimerPoolAssumption ==
  /\ Interval \in [Timers -> Nat \ {0}]
  /\ SingleShot \in [Timers -> BOOLEAN]
  /\ Idle \in Nat \ {0}
  /\ MaxTime \in Nat
  /\ MaxOps \in Nat
  /\ NoTimer \notin Timers

VARIABLES
  now,
  active,     \* m_active_timers
  started,    \* m_started of each timer
  wake,       \* m_wake_up_time_point of each timer
  wakeTime,   \* m_wake_up_time_point of the pool
  update,     \* m_update_wakeup_time
  stop,       \* m_stop
  pt,         \* where the pool thread is
  cbOp,       \* the operation a callback is in the middle of
  all,        \* stopAllTimers: the timers still to stop
  allOn,      \* stopAllTimers is between its first and its last section
  ops,        \* calls made so far
  \* history
  idleArmed,  \* wakeTime was set without an active timer
  missed,     \* the destructor's notification found nobody waiting
  raced,      \* timers whose entry in the list was decided in a race
  fired       \* timers whose callback ran since their last start

threadVars == <<pt, cbOp>>
allVars    == <<all, allOn, ops>>
stopVars   == <<stop, missed>>
vars == <<now, active, started, wake, wakeTime, update, stopVars, threadVars,
          allVars, idleArmed, raced, fired>>

NoOp == [t |-> NoTimer, kind |-> "none", snap |-> <<>>]

TypeOK ==
  /\ now \in 0 .. MaxTime
  /\ active \in Seq(Timers)
  /\ started \in [Timers -> BOOLEAN]
  /\ wake \in [Timers -> Nat]
  /\ wakeTime \in Nat
  /\ update \in BOOLEAN
  /\ stop \in BOOLEAN
  /\ pt \in {"top", "blocking", "asleep", "callback", "exit", "crashed"}
  /\ cbOp \in [t : Timers \cup {NoTimer}, kind : {"none", "add", "move", "remove"},
               snap : Seq(Timers)]
  /\ all \in Seq(Timers)
  /\ allOn \in BOOLEAN
  /\ ops \in 0 .. MaxOps
  /\ idleArmed \in BOOLEAN
  /\ missed \in BOOLEAN
  /\ raced \subseteq Timers
  /\ fired \subseteq Timers

Init ==
  /\ now = 0
  /\ active = <<>>
  /\ started = [t \in Timers |-> FALSE]
  /\ wake = [t \in Timers |-> 0]
  /\ wakeTime = Idle
  /\ update = FALSE
  /\ stop = FALSE
  /\ pt = "top"
  /\ cbOp = NoOp
  /\ all = <<>>
  /\ allOn = FALSE
  /\ ops = 0
  /\ idleArmed = TRUE
  /\ missed = FALSE
  /\ raced = {}
  /\ fired = {}

-----------------------------------------------------------------------------
(* The list of active timers.                                              *)

(* std::list::sort by wake-up time, which keeps the order of equal ones:   *)
(* the k-th timer goes to the place that Rank gives it.                    *)
Rank(list, w, k) ==
  Cardinality({j \in DOMAIN list : \/ w[list[j]] < w[list[k]]
                                   \/ w[list[j]] = w[list[k]] /\ j <= k})
SortedBy(list, w) ==
  [i \in DOMAIN list |-> list[CHOOSE k \in DOMAIN list : Rank(list, w, k) = i]]

ComputeNextWakeupTimepoint(list, w) ==
  LET sorted == SortedBy(list, w) IN
  /\ active' = sorted
  /\ wakeTime' = IF list = <<>> THEN now + Idle ELSE w[Head(sorted)]
  /\ idleArmed' = (list = <<>>)

(* notify_one reaches the pool thread only while it sleeps.                *)
Notify(p) == IF p = "asleep" THEN "top" ELSE p

(* addTimer and removeTimer tell the pool thread to look again when what   *)
(* it waits for may have changed.                                          *)
AddNotifiesNever(w) == FALSE
AddNotifies(w) == w < wakeTime
RemoveNotifiesLast(list, t) == list # <<>> /\ t = list[Len(list)]
RemoveNotifies(list, t) == list # <<>> /\ t = Head(list)

WakePool(b) ==
  /\ update' = (update \/ b)
  /\ pt' = IF b THEN Notify(pt) ELSE pt

WakeAtBack(t, immediately) == IF immediately THEN now ELSE now - Interval[t]
WakeAt(t, immediately) == IF immediately THEN now ELSE now + Interval[t]

-----------------------------------------------------------------------------
(* Threads other than the pool thread.                                     *)

(* The mutex is free, and the pool has not been destroyed.                 *)
MutexFree == pt # "blocking" /\ ~stop /\ pt # "crashed"

Call == ops < MaxOps /\ ops' = ops + 1

(* A change of the list that a callback or stopAllTimers may undo.  Only   *)
(* list::remove outside such a race gets the entries of a timer right.     *)
Race(t, removes) ==
  raced' = CASE cbOp # NoOp \/ allOn -> raced \cup {t}
             [] OTHER -> IF removes THEN raced \ {t} ELSE raced

Start(t, immediately) ==
  LET w == WakeAt(t, immediately) IN
  /\ MutexFree
  /\ ~started[t]
  /\ wake' = [wake EXCEPT ![t] = w]
  /\ WakePool(AddNotifies(w))
  /\ active' = Append(active, t)
  /\ started' = [started EXCEPT ![t] = TRUE]
  /\ fired' = fired \ {t}
  /\ Race(t, FALSE)
  /\ Call
  /\ UNCHANGED <<now, wakeTime, stopVars, cbOp, all, allOn, idleArmed>>

RestartKeepsEntry(t, immediately) ==
  LET w == WakeAt(t, immediately)
      rest == active
  IN
  /\ MutexFree
  /\ started[t]
  /\ wake' = [wake EXCEPT ![t] = w]
  /\ WakePool(AddNotifies(w))
  /\ active' = Append(rest, t)
  /\ fired' = fired \ {t}
  /\ Race(t, TRUE)
  /\ Call
  /\ UNCHANGED <<now, started, wakeTime, stopVars, cbOp, all, allOn, idleArmed>>
(* restart of a timer that is not started does what start does.            *)
Restart(t, immediately) ==
  LET w == WakeAt(t, immediately)
      rest == Without(active, {t})
  IN
  /\ MutexFree
  /\ started[t]
  /\ wake' = [wake EXCEPT ![t] = w]
  /\ WakePool(RemoveNotifies(active, t) \/ AddNotifies(w))
  /\ active' = Append(rest, t)
  /\ fired' = fired \ {t}
  /\ Race(t, TRUE)
  /\ Call
  /\ UNCHANGED <<now, started, wakeTime, stopVars, cbOp, all, allOn, idleArmed>>

(* The critical section of Timer::stop, also used by stopAllTimers.        *)
StopSection(t) ==
  /\ WakePool(started[t] /\ RemoveNotifies(active, t))
  /\ active' = IF started[t] THEN Without(active, {t}) ELSE active
  /\ started' = [started EXCEPT ![t] = FALSE]

Stop(t) ==
  /\ MutexFree
  /\ started[t]
  /\ StopSection(t)
  /\ Race(t, TRUE)
  /\ Call
  /\ UNCHANGED <<now, wake, wakeTime, stopVars, cbOp, all, allOn, idleArmed, fired>>

(* stopAllTimers: a copy of the list, stop for each timer of it, and a     *)
(* last section that empties the list.                                     *)
StopAllCopy ==
  /\ MutexFree
  /\ ~allOn
  /\ all' = active
  /\ allOn' = TRUE
  /\ Call
  /\ UNCHANGED <<now, active, started, wake, wakeTime, update, stopVars, threadVars,
                 idleArmed, raced, fired>>

StopAllOne ==
  /\ MutexFree
  /\ all # <<>>
  /\ StopSection(Head(all))
  /\ all' = Tail(all)
  /\ raced' = IF cbOp # NoOp THEN raced \cup {Head(all)} ELSE raced
  /\ UNCHANGED <<now, wake, wakeTime, stopVars, cbOp, allOn, ops, idleArmed, fired>>

StopAllClear ==
  /\ MutexFree
  /\ allOn
  /\ all = <<>>
  /\ ComputeNextWakeupTimepoint(<<>>, wake)
  /\ update' = TRUE
  /\ pt' = Notify(pt)
  /\ allOn' = FALSE
  /\ raced' = IF cbOp # NoOp THEN Timers ELSE raced
  /\ UNCHANGED <<now, started, wake, stopVars, cbOp, all, ops, fired>>

(* The destructor sets m_stop and notifies without the mutex.              *)
DestroyQuiet ==
  /\ ~stop
  /\ stop' = TRUE
  /\ missed' = (pt # "asleep")
  /\ UNCHANGED <<now, active, started, wake, wakeTime, update, threadVars,
                 allVars, idleArmed, raced, fired>>
Destroy ==
  /\ ~stop
  /\ stop' = TRUE
  /\ missed' = (pt # "asleep")
  /\ pt' = Notify(pt)
  /\ UNCHANGED <<now, active, started, wake, wakeTime, update, cbOp,
                 allVars, idleArmed, raced, fired>>

-----------------------------------------------------------------------------
(* The pool thread: threadLoop.                                            *)

(* The predicate of the wait holds: the loop ends, or the wake-up time is  *)
(* computed anew.                                                          *)
PoolExit ==
  /\ pt = "top"
  /\ stop
  /\ pt' = "exit"
  /\ UNCHANGED <<now, active, started, wake, wakeTime, update, stopVars, cbOp,
                 allVars, idleArmed, raced, fired>>

PoolUpdateKeepsFlag == pt = "top" /\ ~stop /\ update /\ ComputeNextWakeupTimepoint(active, wake)
  /\ UNCHANGED <<now, started, wake, update, stopVars, threadVars, allVars, raced, fired>>
PoolUpdate ==
  /\ pt = "top"
  /\ ~stop
  /\ update
  /\ ComputeNextWakeupTimepoint(active, wake)
  /\ update' = FALSE
  /\ UNCHANGED <<now, started, wake, stopVars, threadVars, allVars, raced, fired>>

(* It does not hold: the thread is going to sleep, with the mutex until it *)
(* really does.                                                            *)
PoolBlock ==
  /\ pt = "top"
  /\ ~stop
  /\ ~update
  /\ pt' = "blocking"
  /\ UNCHANGED <<now, active, started, wake, wakeTime, update, stopVars, cbOp,
                 allVars, idleArmed, raced, fired>>

PoolSleep ==
  /\ pt = "blocking"
  /\ pt' = "asleep"
  /\ UNCHANGED <<now, active, started, wake, wakeTime, update, stopVars, cbOp,
                 allVars, idleArmed, raced, fired>>

(* The wait times out; with the predicate true after all, it ends as if    *)
(* notified.                                                               *)
PoolTimeoutLate ==
  /\ pt = "asleep"
  /\ now >= wakeTime
  /\ stop \/ update
  /\ pt' = "top"
  /\ UNCHANGED <<now, active, started, wake, wakeTime, update, stopVars, cbOp,
                 allVars, idleArmed, raced, fired>>

(* Otherwise the first timer of the list is taken as the one that expired, *)
(* and its callback is called without the mutex.                           *)
PoolFire ==
  /\ pt = "asleep"
  /\ now >= wakeTime
  /\ ~stop
  /\ ~update
  /\ active # <<>>
  /\ LET t    == Head(active)
         w    == [wake EXCEPT ![t] = IF SingleShot[t] THEN @ ELSE @ + Interval[t]]
         list == IF SingleShot[t] THEN Tail(active) ELSE active
     IN /\ started' = [started EXCEPT ![t] = ~SingleShot[t]]
        /\ wake' = w
        /\ ComputeNextWakeupTimepoint(list, w)
        /\ fired' = fired \cup {t}
  /\ pt' = "callback"
  /\ UNCHANGED <<now, update, stopVars, cbOp, allVars, raced>>

(* front() of an empty list.                                               *)
PoolFireNothing ==
  /\ pt = "asleep"
  /\ now >= wakeTime
  /\ ~stop
  /\ ~update
  /\ active = <<>>
  /\ pt' = "crashed"
  /\ UNCHANGED <<now, active, started, wake, wakeTime, update, stopVars, cbOp,
                 allVars, idleArmed, raced, fired>>

CallbackReturn ==
  /\ pt = "callback"
  /\ cbOp = NoOp
  /\ pt' = "top"
  /\ UNCHANGED <<now, active, started, wake, wakeTime, update, stopVars, cbOp,
                 allVars, idleArmed, raced, fired>>

(* A callback starts, restarts or stops a timer without the mutex.  The    *)
(* list is read at the beginning and written at the end of the operation.  *)
CallbackBegin(t, kind, immediately) ==
  LET w == WakeAt(t, immediately) IN
  /\ pt = "callback"
  /\ cbOp = NoOp
  /\ kind = "add" <=> ~started[t]
  /\ wake' = IF kind = "remove" THEN wake ELSE [wake EXCEPT ![t] = w]
  /\ update' = (update \/ (kind # "add" /\ RemoveNotifies(active, t))
                       \/ (kind # "remove" /\ AddNotifies(w)))
  /\ cbOp' = [t |-> t, kind |-> kind, snap |-> active]
  /\ Race(t, kind # "add")
  /\ Call
  /\ UNCHANGED <<now, active, started, wakeTime, stopVars, pt, all, allOn, idleArmed, fired>>

(* A list another thread has changed meanwhile is either seen as it is now *)
(* or overwritten by what the callback had read.                           *)
CallbackEnd ==
  /\ cbOp # NoOp
  /\ \E list \in {active, cbOp.snap} :
       LET rest == Without(list, {cbOp.t}) IN
       active' = CASE cbOp.kind = "add"    -> Append(list, cbOp.t)
                   [] cbOp.kind = "move"   -> Append(rest, cbOp.t)
                   [] cbOp.kind = "remove" -> rest
  /\ started' = [started EXCEPT ![cbOp.t] = cbOp.kind # "remove"]
  /\ fired' = IF cbOp.kind = "remove" THEN fired ELSE fired \ {cbOp.t}
  /\ raced' = IF allOn THEN raced \cup {cbOp.t} ELSE raced
  /\ cbOp' = NoOp
  /\ UNCHANGED <<now, wake, wakeTime, update, stopVars, pt, allVars, idleArmed>>

Tick ==
  /\ now < MaxTime
  /\ now' = now + 1
  /\ UNCHANGED <<active, started, wake, wakeTime, update, stopVars, threadVars,
                 allVars, idleArmed, raced, fired>>

PoolThread ==
  \/ PoolExit \/ PoolUpdate \/ PoolBlock \/ PoolSleep \/ PoolTimeoutLate
  \/ PoolFire \/ CallbackReturn \/ CallbackEnd

Next ==
  \/ PoolThread
  \/ PoolFireNothing
  \/ \E t \in Timers, immediately \in BOOLEAN :
       \/ Start(t, immediately)
       \/ Restart(t, immediately)
       \/ \E kind \in {"add", "move", "remove"} : CallbackBegin(t, kind, immediately)
  \/ \E t \in Timers : Stop(t)
  \/ StopAllCopy \/ StopAllOne \/ StopAllClear
  \/ Destroy
  \/ Tick

Spec == Init /\ [][Next]_vars

(* The pool thread runs, its callbacks included, and time passes.          *)
Fairness ==
  /\ WF_vars(PoolThread)
  /\ WF_vars(Tick)

FairSpec == Spec /\ Fairness

-----------------------------------------------------------------------------
(* Properties.                                                             *)

(* The pool thread never sleeps past a timer: unless it is told to look    *)
(* again, the time it waits for is not later than that of any active       *)
(* timer, whatever the callbacks do to the list without the mutex.         *)
WakeBound ==
  ~update => \A t \in Range(active) : wakeTime <= wake[t]

(* front() is taken of an empty list only when the wake-up time was set    *)
(* while no timer was active, and a callback runs before its time only     *)
(* then or when a race left an old entry of the timer behind: addTimer     *)
(* does not correct the wake-up time for a timer that is due later         *)
(* (TimerPool.cpp:137), and the loop takes the end of the 2400 hours for   *)
(* the expiry of whatever is first in the list.                            *)
EarlyOnlyAfterIdle ==
  [][ /\ pt' = "crashed" /\ pt # "crashed" => idleArmed
      /\ pt = "asleep" /\ pt' = "callback" /\ now < wake[Head(active)]
           => idleArmed \/ Head(active) \in raced ]_vars

(* A timer counts as started exactly when it is in the list, once, except  *)
(* for one that another thread changed while a callback was working on the *)
(* list or while stopAllTimers was between its two sections.               *)
ListAgrees ==
  \A t \in Timers \ (raced \cup {cbOp.t}) :
     Cardinality({i \in DOMAIN active : active[i] = t}) = IF started[t] THEN 1 ELSE 0

(* A started timer fires unless it is stopped or moved beyond the bound,   *)
(* or got into one of those races.                                         *)
Fires ==
  \A t \in Timers :
    started[t] /\ wake[t] <= MaxTime
      ~> t \in fired \/ ~started[t] \/ wake[t] > MaxTime \/ t \in raced \/ stop \/ pt = "crashed"

(* The destructor can miss the pool thread on its way to sleep; the thread *)
(* then ends at its wake-up time.                                          *)
DestroyedExits ==
  stop ~> pt \in {"exit", "crashed"} \/ (missed /\ wakeTime > MaxTime)
=============================================================================
