# TLA+ models of the charge point software

This directory models parts of the repository in TLA+: of the OCPP 1.6 charge
point the client, the timer pool, the connectors with their status notifications,
the configuration manager and the local authorization list; of the utilities the
timer service and the LRU cache. TLC checks the models on small instances; TLAPS proves
the safety properties, with the exceptions named below, for every instance. `PROJECT.json` relates every definition to the source lines it
stands for and lists the runs, mutants, findings, hazards and theorems.

    tlc -workers 2 -config OCPPCall_safety.cfg MCOCPPCall     # a run
    tlapm OCPPCallProofs.tla                                  # the proofs

## The system

The program has an OCPP part (C++, `src/src/ocpp`) and a C part (`src/src/utils`,
`database`, `can`, `fcgi`, ...). Vendored code (`include`, `lib`, `lighttpd`),
generated code (`src/src/main.i`) and the samples under `mode` are left aside.

| component | state | operations | what is hard | what makes it correct |
|---|---|---|---|---|
| OCPP client (`client/OCPPClient.cpp`) | `m_pending`, one context with two queues per connector, `m_running`, `m_isConnected` | start, stop, disConnect, sendCall, sendCallResult, sendCallError; threads: sendThread per context, retryTimeoutThread | callers, senders, retry thread and websocket thread on one PendingCall; deadline against late reply; resend of what was answered; stop while calls are under way | one outcome per call, true only with a CallResult, bounded resends, every call returns, nothing sent after stop |
| WebSocket client (`client/websocketclient`) | service thread, `m_queue`, connection flag, fragment buffer | Connect, disConnect, send, library callbacks | connection loss drops the queue; the thread may end itself while the owner joins it | no message duplicated, reconnect after a loss |
| Timer service (`utils/timer.c`) | sorted list of handles under one mutex | p_timer_add, start, stop, del; loop thread | fields written before the mutex is taken; callbacks under the mutex; restart during the callback | list proper and sorted, no timer lost, no callback after stop, repeat bound, never early |
| LRU cache (`utils/cache/lru.c`) | hash table, list, `used_mem` | get, put (new, update), remove, new, delete | eviction before an allocation that may fail; counter kept by increments | list and table agree, limits, exact counter, order of use |
| Timer pool (`tool/timer`) | list of active timers, wake-up time, pool thread | start, stop, restart, stopAllTimers | callbacks outside the lock; operations from the callback without the lock; destructor's lost wake-up | started timers fire, stopped ones do not |
| Connectors (`Connector`, `action/status`) | status, transaction, reservation, availability per connector, table in the database | updateStatus and other updates, load, reset | some updates take no lock and share one statement; notifications through a thread pool | memory and database agree, only legal transitions, last notification is the last status |
| Configuration manager (`config`) | configuration document, cached file, subscriptions | setConfig, getConfig, subscribe, restoreConfig | callbacks outside the lock, deferred save, restore under the lock | callbacks for exactly what changed, file follows memory |
| Authorization cache and local list (`action/authorize`) | tables in the database, list version | check, update, sendLocalList full and differential | several statements without a transaction | version and contents change together, bounded cache |
| Database executor, thread pool (`tool`) | task queue, worker(s) | post and wait, enqueue | a task that posts to its own worker | every task runs once, no deadlock |
| ChargePoint (`ChargePoint.cpp`) | the components | construction | start and stop are not implemented yet | - |
| C utilities (`priority_queue`, `can`, `database/dao`, `fcgi`, `config`) | heap, CAN queues, statement cache | push, pop, prepared_stmt_get/put, requests | an order that changes with time; a mutex held between get and put | see `PROJECT.json` |

Interaction: ChargePoint creates the rest. OCPPClient is the listener of
WebSocketClient, whose service thread calls `wsClient...` and `parseMessage`.
Connectors change status under a lock and post notifications to the thread pool,
where `sendCall` blocks a worker until the reply. Lists and connectors reach
SQLite through the single worker of DBExecutor.

## Plan

1. `OCPPCall` with the abstract `CallContract` and proofs; `TimerList` with
   proofs; `LruCache`. **Done.**
2. `ThreadPool` and `Statement`, the two services the other components share;
   `TimerPool`; `Connectors`, which composes pool and statement; `ConfigManager`,
   which uses the pool; `LocalList`, which composes `ConfigManager` and `Statement`,
   with its first proofs. **Done.** Left of this step: the authorization cache, and
   the answers to calls of the central system (`sendCallResult`, dispatch to the
   handlers) as a further kind of message in `OCPPCall`.
3. Proofs of the safety properties of all modules. **Done.** `NoneLost` of `TimerList` is
   proved for at most two timers: with three it is false.

## Modules

**`OCPPCall`** - one invocation of `sendCall` is a member of `Calls` and stands
for its uniqueId, its text and its PendingCall. Actors and their actions:

- caller (`sendCall`): `Reject`, `SendCall` (checks, PendingCall, insertion into
  `m_pending`), `Enqueue` (push without the lock), `Return` (end of `wait_until`).
- `sendThread(i)`: `Pop` (transaction queue first), `DoSend`, `SenderExit`.
- `retryTimeoutThread`: `RetryWake`, `RetryScan` (one critical section),
  `Resend` per listed call, `RetrySleep`. A reply applied in the middle of the
  scan has the effect of one applied before or after it, so one step is enough.
- websocket thread: `Established`, `ClientClosed`, `ClientWriteable`,
  `ReceiveReply` (parseMessage up to the end of the `m_pendingMutex` section),
  `ApplyReply` (the section under the call's mutex). A reply may be of either
  kind, fail validation, be late or never come.
- owner: `Start`, `StartAgain`, `Disconnect`, `Stop`, `StopClear`, `StopDisconnect`.
  stop takes several steps because it joins threads. `WsDisconnect` takes the
  outcome in which the owner's join wins against the thread's own disConnect.

The clock is a number; each `Tick` may fall between any two steps. Messages are
model values. The queues are unbounded, as their `MAX_SIZE` is the largest
`size_t`. `sent` and `replied` are history variables.

**`CallContract`** - what sendCall promises: a call is judged at most once, in
favour only after a CallResult, and the caller gets the verdict, or false if it
stops waiting. `OCPPCall!ImplementsContract` is the refinement.

**`TimerList`** - handles with `prev`, `next`, `abs_timeout`, `timeout_count`,
`status`; the list operations are functions on `[head, prev, next]` and follow
the pointer assignments of the code. `p_timer_start` is three steps (`Start` or
`Add` reads the clock into `abs_timeout`, `SetTimer` adds the timeout and sets
the other fields, `StartLink` takes the mutex); stop and del are two. The loop
thread's steps are those of `p_timer_loop_once`; the callback is the interval
between `LoopFire` and `LoopRelink`, with the mutex held. A timespec is one
number; reading and writing one is atomic. Each timer is used by one thread.
`fires`, `armed` and `due` are history variables.

**`LruCache`** - the hash table as a function from keys to data, the list as a
sequence of keys; a failed allocation is the second disjunct of `Insert` (in
`update_data` it changes nothing). `recent` is a history variable. The memory of the
entries is the number of the elements of `Bytes`, a pair of key and number for each
byte, so that no sum over the table is needed.

**`ListOps`** - taking elements out of a list, for `TimerPool` and `LruCache`. `Without`
gives the result position by position (`Nth`), so that proofs can use it; `MCTimerPool`
has TLC compare it with `SelectSeq` on all lists of up to five entries.

**`ThreadPool`** - the queue, the task of each worker, the stop flag. It is extended
by the components that post tasks; they say what running a task does. The workers
wait with a predicate under the mutex, so no wake-up can be lost and taking a task
is simply enabled while there is one. A stopped pool works its queue off.

**`Statement`** - a prepared statement: its bindings and whether it has been stepped
since the last reset. `DBExecutor::postAndWait` runs every call on the one database
worker while the caller waits, so each call is one step, and two threads that use
one statement interleave between their calls.

**`TimerPool`** - `m_active_timers` as a sequence with the wake-up times beside it.
The critical sections of other threads are single steps (`Start`, `Restart`, `Stop`,
and the three parts of `stopAllTimers`: copy, stop one, clear). The pool thread is
`top`, `blocking` (it has found nothing to do and holds the mutex), `asleep` or in a
`callback`. An operation made by a callback takes no mutex, because `lock` compares
thread ids: it reads the list in `CallbackBegin` and writes it in `CallbackEnd`, and
the outcome of a race on the list is either its copy or what the others made of it.
`Destroy` notifies without the mutex and wakes only a thread that is asleep.
History: `idleArmed`, `missed`, `raced`, `fired`.

**`Connectors`** - `m_connectors` in memory, the rows, the statement `m_qUpdate`, the
callers of the update functions. `UpdateStatus` takes `m_mutex` and keeps it through
the save and the posting of the notification (`Post`); the other three updates take
none. `save` is `SaveReset`, one `SaveBind` per value, `SaveExec` or `SaveFails`, and
`SaveClear`; it binds what is in memory at that moment. The tasks end in `Notify` or
`NotifyDropped` (not registered, or no answer). The start is `BootCount`, then either
`BootLoad` for each row or `BootDelete` and `BootInsert`, each with its failure.
`Crash` keeps the rows only. History: `tainted`, `safe`, `bootFault`, `reported`,
`crowded`, `posted`, `settled`.

**`ConfigManager`** - the document as a function on its leaves, with the JSON type and
number representation of each value, the cached file, `m_isSavePending`, the
subscriptions. `setConfig` is one step for each kind of key (`SetLeaf`, `SetSection`,
`SetAll`), which ends in `Change`: new document, callback tasks, a save task unless
one is pending. The tasks: `SaveOpen` (truncates the file, holding `m_cfgMutex`),
`SaveWrite`, `CopyNode` (under the lock), `CallBack` (outside). `BootLoad` and
`BootWrite` are initConfig, `Restore` is restoreConfig up to the point where it waits
for its own mutex. History: `behind`, `seen`, `mixed`.

**`LocalList`** - the table by tag, the statement, the version in memory, and the
handlers of SendLocalList, which run on any worker of the client. A full update is
`FullClear`, then for each record `InsertReset`, `BindTag`, `BindInfo`, `InsertExec`
or `InsertFails`, then `FullDone`; a differential one is `PartialUpdate`. `SetVersion`
is setConfig of the version (a step of `ConfigManager`), `AssignVersion` the copy in
memory. `InitList` reads the version at the start, `Crash` keeps table and file.
History: `torn`, `listOf`, `diverged`.

The MC modules (`MCOCPPCall`, `MCTimerList`, `MCLruCache`, `MCTimerPool`,
`MCConnectors`, `MCLocalList`) define the instances. Operators such as
`OpenAlways`, standing directly before the definition they vary, are the mutants:
each property of a passing run is violated when its mutant replaces the original.

## Runs

| run | instance | checks |
|---|---|---|
| `call_safety` | a transaction call and another on one connector, one resend, one connection loss, clock to 2 | types; true means CallResult; resend budget; one outcome; quiet after stop |
| `call_backoff` | one transaction call, two resends, deadline 4, clock to 6 | copies on the wire; spacing of resends; refinement of the contract |
| `call_liveness` | one call, one resend, one connection loss | calls return, entries are erased, queues are served |
| `call_restart` | two starts | **violated**: `QueueServed` |
| `timer_two` | an infinite timer (timeout 1) and a one-shot (timeout 2), clock to 3 | list shape and order, no loss, no callback after stop, repeat bound, firing, early firing only in a restart |
| `timer_three` | three timers | **violated**: `NoneLost` |
| `timer_early` | two timers | **violated**: `NotEarly` |
| `lru` | four keys, sizes 1, 2 and 5, three keys and nine units at most | agreement of table and list, counter, order, eviction |
| `timer_pool` | a periodic timer (interval 1) and a single-shot one (2), three calls, idle sleep 3, clock to 4 | the sleep is never too long; list and started flags agree; early firing only after an idle sleep; started timers fire; a destroyed pool ends |
| `connectors` | the charge point and one connector, two callers, two workers, two calls, one database error, one crash | memory and rows agree; recovery after a crash; last notification is the last status; pool drained at the end |
| `local_list` | three leaves in two sections, two subscribers, two workers, two handlers, three calls of which two requests, one error, one crash | no change unsaved; newest value delivered; table is the list that was sent; versions agree |
| `local_list_diff` | as above, with one handler and two calls | **violated**: `DifferentialApplied` |

Bounds. Two calls are enough for every pair of actors to meet on one PendingCall
and for one queue to hold two messages; calls share nothing else. Two resends show
the doubling of the delay. One loss of the connection drops every kind of message
that can be on its way. The clock reaches past every deadline and every resend that
the instance allows; calls and timers are only started when their deadline lies
within it. With two timers the list has a first and a last node but no middle one:
that is why `timer_two` passes and `timer_three` does not. The LRU instance reaches
both limits, by the number of keys and by memory, with entries of every size.
In the timer pool, idle sleep 3 lies between the intervals and the end of the clock,
so an idle sleep can expire with and without timers in the list; three calls are enough
for a timer to be started, for a callback to work on it and for another thread to
interfere. Two callers meet on the statement of the connectors, two workers can swap
two notifications, and Available and Preparing allow a legal change in both directions.
The documents of `local_list` are another version, one of another number type, one
that is gone and one with its section; a list of two records has a first and a last.
One crash falls between any two steps, also of a start. Deadlock is not checked where
the system may stop: the client and the pools may be stopped for good, restoreConfig
hangs, and clocks and calls are bounded.

Fairness. `OCPPCall!Fairness`: time passes and the client's threads keep running,
which their timed waits justify (100 ms, 200 ms, `expireAt`). Nothing is assumed
of the network, the central system or the owner. `TimerList!Fairness`: the loop
thread runs (its `select` has a timeout of at most ten seconds) and a thread waiting
for the mutex gets it in the end, strong fairness because the loop takes it again
and again. `TimerPool!Fairness`: the pool thread runs, its callbacks return and time
passes; its wait has a timeout, so a missed notification delays it at most until its
wake-up time. Nothing is assumed of the threads that start and stop timers. The runs
`connectors` and `local_list` check safety only.

### What the violated runs show

- `call_restart`: `stop` leaves the old contexts in `m_connectors`; `start` appends
  new ones and starts threads for the first indices, the stopped ones. They exit at
  once, and messages for connector 0 are never sent.
- `timer_three`: `_timer_list_remove` does not join the neighbours of a middle node.
- `timer_early`: `p_timer_start` on a linked timer stores the current time in
  `abs_timeout` before adding the timeout, without the mutex; the loop thread may fire
  it there and then. `EarlyOnlyInRestart` says that this is the only way to be early.
- `local_list_diff`: the update statement of `performPartialUpdate` takes the tag last
  and is bound with the tag first. No row matches, nothing fails, the tag is logged as
  updated, the version is raised and the request accepted.

### What the exceptions in the passing properties stand for

Several properties hold only outside situations that a history variable names. These
are behaviours of the code that a reader should know of:

- Timer pool. A timer started during the idle sleep and due after its end fires at that
  end, and without any timer the loop takes `front()` of an empty list (`idleArmed`).
  The destructor's notification can be missed; the join then lasts until the wake-up
  time (`missed`). A callback that works on a timer, or stopAllTimers between its
  sections, can lose or double the entry of a timer that another thread changes
  (`raced`).
- Connectors. Two saves that interleave on `m_qUpdate` may write a mixture or NULLs;
  an availability of NULL is loaded as Inoperative. A failed save is ignored
  (`tainted`). With one row missing the next start deletes them all. The status of a
  reservation is not a column. Two notifications of a connector in the pool at once may
  be sent in either order (`crowded`), and one that is dropped is not repeated. The
  comments of the transition table (`Connectors.h:62-70`) list transitions the sets lack
  (A to 3, C to 8, H to 3, 4 and 5, I to 3); the model has the sets.
- Configuration. Opening the file truncates it, so a crash before the write leaves the
  default file to start from. restoreConfig locks `m_cfgMutex` and calls initConfig,
  which locks it again. A subscriber of a section is not told of a change within it,
  although `ConfigManager.h:127` says so, and neither is one of a leaf whose section comes
  or goes, or whose number changes its representation (`mixed`, through `Overlooked`). An
  older copy may be delivered last.
- Local list. Two full updates at once may leave a mixture of both lists, or rows
  whose tag is NULL; one that fails or is cut off by a crash leaves the list as far as
  it came (`torn`). Two handlers between their assignments may leave the version in memory
  and in the configuration different (`diverged`). The version reaches the file only
  with the deferred save, so after a crash the table may be newer than the version.

## Proofs

`OCPPCallProofs` proves, for all sets of calls and all values of the constants:

- `TypeCorrect`: `[]TypeOK`.
- `ReplyCorrect`: `[]TrueMeansCallResult`. Inductive invariant `ReplyInv`: a call
  that returned true is finished and succeeded, one that succeeded is finished and
  has a CallResult in `replied`, and a reply about to be applied is in `replied`.
  All three are needed because lookup, application and return are separate steps
  of different threads.
- `OutcomeCorrect`: `OutcomeIsFinal`, from the type invariant, action by action.
- `RetryCorrect`: `[]RetryBudget`. `RetryInv` adds that a call on the retry
  list is a transaction call with attempts left, which stays true until it is worked
  off because only the retry thread counts.
- `StopCorrect`: `StopQuiesces`. `StopInv` adds that no send thread exists, or holds
  a message, once stop has joined them.
- `ContractCorrect`: `ImplementsContract`, step by step under the refinement mapping;
  `RetryScan` maps to `Expire` of the set of expired calls.
- `BackoffCorrect`: `[]Backoff`. `BackoffInv` adds that a listed call is still pending and
  was due when the pass began, that there is no list outside a pass, and that the retry
  thread is gone whenever the client can be started again: otherwise a new thread could
  find the list of an old one. `ShiftDoubles` compares the table of delays with the powers
  of two, entry by entry.
- `WireCorrect`: `[]WireBudget`. `WireInv` counts the copies of a call in the queues, in
  the hands of the send threads and in `m_queue` together with those already sent: pops
  and sends move copies, a lost connection destroys some, only the push and the resends
  make any. A call is only in the context of its connector, so the count is a sum of
  four numbers.

`TimerListProofs` proves, for every set of timers, timeouts and repeat counts:

- `TimerTypeCorrect`: `[]TypeOK`, from lemmas on the list operations.
- `StopIsFinal`: `[]NoCallbackAfterStop`. `StopInv` adds `Halted`: a timer that is
  stopped or being stopped is not RUNNING. It holds in spite of the list defect.
- `RepeatCorrect`: `[]RepeatBound`. `Counting` relates callbacks to `timeout_count`
  across the window between callback and relinking, in which a restart may reset both.
- `EarlyCorrect`: `EarlyOnlyInRestart`. `DueInv` says that `abs_timeout` is the time the
  timer was started for, except while a start is between its two assignments.
- `ListConsistentCorrect`: `[]ListConsistent`, and `SortedCorrect`: `[]Sorted`, for any
  number of timers. The inductive invariant `LinkInv` names the timers of the list in
  their order, `s`, and a second chain `f`. That one is needed because the loop thread may
  relink a timer in front of the one it looks at next; when that one has been restarted
  meanwhile and is due, it is taken out of the middle and the loop goes on along the part
  behind it, which is no longer in the list. Removing the first timer of `f` makes the rest
  of `f` the list, so a proper list remains in every case: the defect loses timers, it does
  not break the links. Neighbours in `s` and in `f` are in order unless one of them is
  being restarted (`InOrder`). A timer put in front of a restarted one need not be in order
  with those behind it; the restart, when it gets the mutex, cuts them off.
- `StoppedUnlinkedCorrect`: `[]StoppedUnlinked`, from the same invariant: a timer for
  which `p_timer_stop` or `p_timer_del` has returned is not in the list.
- `NoneLostOfTwo`: `[]NoneLost` under the hypothesis that there are at most two timers.
  Then no timer is in the middle, `f` stays empty and a removal takes out one timer.

These rest on lemmas on the list operations: what `Node` visits from the head of a chain
(`NodeChain`; two walks cannot differ at a least place, which replaces induction), that
`Removed` splits a chain in two (`CutBefore`, `CutAfter`, `CutApart`, `CutHead`), and that
`Added` finds the first later timer and links in before it (`AddedPlace`, `PutSplices`,
`SpliceChain`, `SpliceOrder`).

`TimerPoolProofs` proves, for every set of timers, all intervals and any number of calls:

- `TimerPoolTypeCorrect`: `[]TypeOK`, with `OpInv`: a callback is in the middle of an
  operation only while it runs.
- `WakeCorrect`: `[]WakeBound`. `BoundInv` extends the bound to the list that a callback
  has read without the mutex and may write back, and to the timer it is about to insert.
- `ListCorrect`: `[]ListAgrees`. `AgreeInv` does the same for the entries of the timers,
  and adds that stopAllTimers still has every started timer before it.
- `EarlyCorrect`: `EarlyOnlyAfterIdle`. `HeadInv`: the first entry is due at the wake-up
  time unless it is left over from a race, also in the list a callback has read.

`ConnectorsProofs` proves, for every number of connectors, callers and workers:

- `ConnectorsTypeCorrect`: `[]TypeOK`.
- `DrainCorrect`: `[]Drained`. `PoolInv` adds that a worker exits only from a stopped pool
  with an empty queue, that nobody posts after the stop, and that every notification not
  settled yet is in the queue or with a worker.
- `ReportCorrect`: `[]ReportedUnlessCrowded`. `ReportInv`: the caller that sets a status
  holds `m_mutex` until it has posted, so what is in the pool for a connector is what it
  has in memory.
- `RowsCorrect`: `[]SavedAgrees`. `AloneInv` follows the bindings of a save that has the
  statement to itself; `IdInv` says whose row an interleaved save can hit; `RowInv`
  carries the claim through the phases of a start.
- `RecoveryCorrect`: `Recovered`. `StartInv`: a start without an error that began with
  right rows finds them all, and loads them.

`LruCacheProofs` proves, for all keys, data, sizes and limits and with any allocation
failing:

- `LruTypeCorrect`, `LimitCorrect`, `MemCorrect`: `[]TypeOK`, `[]WithinKeyLimit`,
  `[]UsedMemExact`, from one invariant `CacheInv`. The parts need each other: a full cache
  has a tail to delete only because counter, table and list agree, and the counter stays
  a natural number only because it is exact. Each operation has a lemma that it keeps a
  cache `Sound`.
- `OrderCorrect`: `[]LruOrder`, by `OrderInv`: the history knows every key of the list
  once, and the list is in its order.
- `EvictionCorrect`: `EvictsOldest`, from both invariants: the evicted key is the tail.

`OrderLemmas` has what these share: a least number exists in every set of numbers, a
finite chain of sets counts its members through, and `Without` is the list without the
removed elements, in the same order. The first takes the place of an induction.

`LocalListProofs` proves, for every number of workers, handlers, leaves, subscribers
and requests:

- `SaveCorrect`: `[]SavePending`. `SaveInv` adds that `pending` is set only while a save
  task is in the queue or with a worker, and extends the claim to the phase before the
  list is initialised. It needs both: `Change` posts no save when the flag is set, and
  `SaveWrite` may clear it because the document it wrote is the current one, as both
  happen under `m_cfgMutex`.
- `VersionCorrect`: `[]VersionsAgree`. `VersionInv` adds that the configuration already
  holds the version any handler is about to assign, and that no handler runs before the
  program is up, which carries the claim across restarts.
- `ListCorrect`: `[]ListMatches`. `TableInv` says, for a handler that is alone with the
  table, which records it has inserted and what the statement holds at each step.
- `LocalListTypeCorrect`: `[]TypeOK`, also of the configuration manager.

`DeliveryProofs` proves `DeliveryCorrect`: `[]NewestDelivered`. `DeliverInv` adds that a
copy a worker holds is the current value unless the subscriber is marked, and follows a
change from the comparison of the documents to the posted callbacks.

Assumptions: those named in the modules (`CallAssumption`, `NumberAssumption`,
`TimerAssumption`, `LruAssumption`, `TimerPoolAssumption`, `ConnectorAssumption`,
`ConfigAssumption`, the two `TaskAssumption`s, `ListAssumption`), which TLC evaluates in
every run of their module. They say what the constants are: sets are finite where the
code enumerates them, the markers for nothing are no values, intervals and sizes are
positive, bounds are numbers. `new_lru_cache` refuses limits of zero; a thread pool has at
least one worker.

Each inductive invariant was checked by TLC on the instance of its module before it was
proved, `LinkInv` with three timers as well. One of them led to a change of a model: the history `due` of `TimerList` follows
the relinking of a restarted timer now.

Only model-checked: the liveness properties (`CallReturns`, `PendingErased`, `QueueServed`,
`Fires` of both timer modules, `DestroyedExits`), which need fairness and `ENABLED`. Every
invariant and every action property of the passing runs has a theorem; that of `NoneLost`
is for at most two timers, because `timer_three` refutes it for three.

## Not modelled

String and JSON handling, schema validation, URL parsing, TLS and fragment
reassembly (no control state of their own), SQLite and libwebsockets (external),
the CAN driver, FastCGI and the samples (I/O). Of the repository's lines most are
vendored: headers of libhv, SQLite, RapidJSON, libwebsockets and others under `include`,
and lighttpd; they are not part of the charge point's own logic.

In the modelled parts: the undefined behaviour of joining and detaching one
`std::thread` from two threads, callbacks that call the C timer API (they would block
on the timer mutex), torn reads of a timespec, the carry of `_timer_add_abstimeout`;
operations that only read (getConfig, checkLocalAuth, getVersionCallHandler); requests
that are refused before they change anything, and the text of answers; documents deeper
than two levels; the start and end of the database worker, and the open that fails
and then waits for its own worker in `lastError` (`DataBase.cpp:29`).

Not yet modelled: the authorization cache, whose operations are a find and a change
of one row and whose size a trigger of the database bounds; the answers to calls of the
central system; the priority queue of the CAN module. The hazards in `PROJECT.json` say
for each of these what is open.
