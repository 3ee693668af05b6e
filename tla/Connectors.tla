----------------------------- MODULE Connectors -----------------------------
(***************************************************************************)
(* The connectors of the charge point (Connector/Connectors.cpp): their    *)
(* state in memory, their rows in the database, and the status             *)
(* notifications posted to the thread pool.                                *)
(*                                                                         *)
(* updateStatus holds m_mutex from the check of the transition to the      *)
(* posting of the notification; updateTransaction, updateReservation and   *)
(* updateAvailability take no lock.  All four end in save, which uses the  *)
(* one statement m_qUpdate in several calls, each a task of the database   *)
(* worker.  Tags and ids of a transaction or reservation are one value.    *)
(***************************************************************************)
EXTENDS ThreadPool, Statement

CONSTANTS
  Ids,           \* 0 is the charge point, 1..n its connectors
  Callers,       \* threads that call the update functions
  Targets,       \* statuses they ask for
  Transactions,  \* transactions other than none
  Reservations,
  Replies,       \* reservation statuses they set
  Availabilities,
  MaxOps,        \* bound of the calls
  MaxFaults,     \* bound of failing database operations
  MaxCrashes,
  None           \* no transaction, no reservation, nobody

(* statusToTableId: the statuses by their row in the table.                *)
Available == 1
Statuses  == 1 .. 9

ASSUME ConnectorAssumption ==
  /\ Ids # {} /\ Callers # {} /\ Workers # {} /\ None \notin Callers
  /\ Ids \subseteq Nat /\ IsFiniteSet(Ids)
  /\ Targets \subseteq Statuses
  /\ Replies \subseteq {"Accepted", "Rejected"}
  /\ Availabilities \subseteq {"Operative", "Inoperative"}
  /\ None \notin Transactions \cup Reservations \cup Ids \cup Statuses
  /\ Null \notin Transactions \cup Reservations \cup Ids \cup Statuses \cup {None}
  /\ Null \notin {"Operative", "Inoperative"}
  /\ MaxOps \in Nat /\ MaxFaults \in Nat /\ MaxCrashes \in Nat

(* What a task of the pool is given, and a number of its own.              *)
Notification == [n : Nat, c : Ids, status : Statuses]

ASSUME TaskAssumption == NoTask \notin Notification

(* checkStatusTransition.                                                  *)
AllowedTransitions ==
  << {2, 4, 5, 7, 8, 9}, {1, 3, 4, 5, 6, 9}, {1, 4, 5, 6, 9},
     {1, 3, 5, 6, 8, 9}, {1, 3, 4, 6, 8, 9}, {1, 2, 8, 9},
     {1, 2, 8, 9}, {1, 2, 9}, {1, 2, 4, 5, 6, 7, 8} >>
CheckStatusTransition(current, target) == target \in AllowedTransitions[current]

(* What is kept of a connector; reservation.status is not a column.        *)
Columns == {"status", "transaction", "reservation", "availability"}
Order   == <<"status", "transaction", "reservation", "availability", "id">>

DefaultConnector ==
  [status |-> Available, transaction |-> None, reservation |-> None,
   availability |-> "Operative", reserved |-> "Rejected"]

ColumnsOf(m) == [f \in Columns |-> m[f]]

LoadNoAvailability(r) ==
  [DefaultConnector EXCEPT !.status = r.status, !.transaction = r.transaction,
                           !.reservation = r.reservation]
LoadRaw(r) ==
  [DefaultConnector EXCEPT !.status = r.status, !.transaction = r.transaction,
                           !.reservation = r.reservation, !.availability = r.availability]
(* load: a column that is NULL reads as zero or as the empty string.       *)
Loaded(r) ==
  [DefaultConnector EXCEPT
     !.status       = r.status,
     !.transaction  = IF r.transaction = Null THEN None ELSE r.transaction,
     !.reservation  = IF r.reservation = Null THEN None ELSE r.reservation,
     !.availability = IF r.availability = Null THEN "Inoperative" ELSE r.availability]

VARIABLES
  mem,        \* m_connectors
  row,        \* the table; Null for a row that is not there
  stmt,       \* m_qUpdate
  thr,        \* what each caller is doing
  lock,       \* m_mutex: its holder or None
  accepted,   \* m_regStatus is Accepted
  boot,       \* initConnectorData: the phase and the ids still to do
  ops, faults, crashes,
  \* history
  tainted,    \* connectors whose row may differ from memory
  safe,       \* at a crash: the columns, for a connector that was not tainted
  bootFault,  \* a database operation of the running start has failed
  reported,   \* the status in the last notification
  crowded,    \* connectors with two notifications in the pool at once
  posted,     \* numbers of the notifications posted
  settled     \* numbers of the notifications sent or dropped

dbVars   == <<row, stmt>>
callVars == <<thr, lock>>
bounds   == <<ops, faults, crashes>>
history  == <<tainted, safe, bootFault, reported, crowded, posted, settled>>
vars == <<poolVars, mem, dbVars, callVars, accepted, boot, bounds, history>>

Idle == [pc |-> "idle", c |-> None, target |-> None, n |-> 0, k |-> 1, alone |-> TRUE]

Up == boot.phase = "up"

RowType ==
  [status : Statuses, transaction : Transactions \cup {None, Null},
   reservation : Reservations \cup {None, Null},
   availability : {"Operative", "Inoperative", Null}]

TypeOK ==
  /\ mem \in [Ids -> [status : Statuses, transaction : Transactions \cup {None},
                      reservation : Reservations \cup {None},
                      availability : {"Operative", "Inoperative"},
                      reserved : {"Accepted", "Rejected"}]]
  /\ row \in [Ids -> RowType \cup {Null}]
  /\ stmt.ready \in BOOLEAN
  /\ \A p \in Callers :
       /\ thr[p].pc \in {"idle", "reset", "bind", "exec", "clear", "post"}
       /\ thr[p].k \in DOMAIN Order
       /\ thr[p].c \in Ids \cup {None}
       /\ thr[p].target \in Statuses \cup {None}
  /\ lock \in Callers \cup {None}
  /\ accepted \in BOOLEAN
  /\ boot.phase \in {"count", "load", "delete", "insert", "up"}
  /\ boot.left \subseteq Ids
  /\ tainted \subseteq Ids
  /\ crowded \subseteq Ids
  /\ ops \in 0 .. MaxOps /\ faults \in 0 .. MaxFaults /\ crashes \in 0 .. MaxCrashes

(* A new database: the table has just been created.                        *)
Init ==
  /\ PoolInit
  /\ mem = [c \in Ids |-> DefaultConnector]
  /\ row = [c \in Ids |-> Null]
  /\ stmt = Prepared({Order[k] : k \in DOMAIN Order})
  /\ thr = [p \in Callers |-> Idle]
  /\ lock = None
  /\ accepted = FALSE
  /\ boot = [phase |-> "count", left |-> Ids]
  /\ ops = 0 /\ faults = 0 /\ crashes = 0
  /\ tainted = {}
  /\ safe = [c \in Ids |-> Null]
  /\ bootFault = FALSE
  /\ reported = [c \in Ids |-> None]
  /\ crowded = {}
  /\ posted = {}
  /\ settled = {}

Call  == Up /\ CanEnqueue /\ ops < MaxOps /\ ops' = ops + 1 /\ UNCHANGED <<faults, crashes>>
Fault == faults < MaxFaults /\ faults' = faults + 1 /\ UNCHANGED <<ops, crashes>>

-----------------------------------------------------------------------------
(* The update functions.                                                   *)

InSave(p) == thr[p].pc \in {"reset", "bind", "exec", "clear"}

(* A save begins; it is alone unless another one is under way.             *)
BeginSave(p, c, target) ==
  LET others == {q \in Callers \ {p} : InSave(q)} IN
  thr' = [q \in Callers |->
            IF q = p THEN [pc |-> "reset", c |-> c, target |-> target, n |-> ops',
                           k |-> 1, alone |-> others = {}]
            ELSE IF q \in others THEN [thr[q] EXCEPT !.alone = FALSE]
            ELSE thr[q]]

UpdateStatus(p, c, target, force) ==
  /\ thr[p] = Idle
  /\ lock = None
  /\ force \/ CheckStatusTransition(mem[c].status, target)
  /\ Call
  /\ lock' = p
  /\ IF mem[c].status # target
       THEN /\ mem' = [mem EXCEPT ![c].status = target]
            /\ BeginSave(p, c, target)
       ELSE /\ mem' = mem
            /\ thr' = [thr EXCEPT ![p] = [Idle EXCEPT !.pc = "post", !.c = c,
                                                      !.target = target, !.n = ops']]
  /\ UNCHANGED <<poolVars, dbVars, accepted, boot, history>>

UpdateUnlocked(p, c, m) ==
  /\ thr[p] = Idle
  /\ Call
  /\ mem' = [mem EXCEPT ![c] = m]
  /\ BeginSave(p, c, None)
  /\ UNCHANGED <<poolVars, dbVars, lock, accepted, boot, history>>

UpdateTransaction(p, c, t) ==
  UpdateUnlocked(p, c, [mem[c] EXCEPT !.transaction = t])

UpdateReservation(p, c, r, status) ==
  UpdateUnlocked(p, c, [mem[c] EXCEPT !.reservation = r, !.reserved = status])

UpdateAvailability(p, c, a) ==
  UpdateUnlocked(p, c, [mem[c] EXCEPT !.availability = a])

-----------------------------------------------------------------------------
(* save: reset, ten binds (the columns of one value taken together), exec  *)
(* and, if that succeeded, a last reset.                                   *)

AfterSave(p) == IF thr[p].target = None THEN Idle ELSE [thr[p] EXCEPT !.pc = "post"]

SaveNoReset(p) ==
  /\ thr[p].pc = "reset"
  /\ thr' = [thr EXCEPT ![p].pc = "bind"]
  /\ UNCHANGED <<poolVars, mem, row, stmt, lock, accepted, boot, bounds, history>>
SaveReset(p) ==
  /\ thr[p].pc = "reset"
  /\ stmt' = ResetQuery(stmt)
  /\ thr' = [thr EXCEPT ![p].pc = "bind"]
  /\ UNCHANGED <<poolVars, mem, row, lock, accepted, boot, bounds, history>>

(* The next value, or the execution.                                       *)
AfterBind(p) ==
  IF thr[p].k = Len(Order) THEN [thr[p] EXCEPT !.pc = "exec"]
  ELSE [thr[p] EXCEPT !.k = @ + 1]

SaveBind(p) ==
  /\ thr[p].pc = "bind"
  /\ LET f == Order[thr[p].k]
         c == thr[p].c
     IN stmt' = BindQuery(stmt, f, IF f = "id" THEN c ELSE mem[c][f])
  /\ thr' = [thr EXCEPT ![p] = AfterBind(p)]
  /\ UNCHANGED <<poolVars, mem, row, lock, accepted, boot, bounds, history>>

(* UPDATE ... WHERE connector_id = ?: no row for a NULL id, and status     *)
(* must not be NULL in a row it changes.                                   *)
Matched == {c \in Ids : stmt.args["id"] = c /\ row[c] # Null}

SaveExec(p) ==
  /\ thr[p].pc = "exec"
  /\ Matched # {} => stmt.args["status"] # Null
  /\ row' = [c \in Ids |->
               IF c \in Matched THEN [f \in Columns |-> stmt.args[f]] ELSE row[c]]
  /\ stmt' = SteppedQuery(stmt)
  /\ thr' = [thr EXCEPT ![p].pc = "clear"]
  /\ tainted' = IF thr[p].alone THEN tainted \ {thr[p].c} ELSE tainted \cup {thr[p].c}
  /\ UNCHANGED <<poolVars, mem, lock, accepted, boot, bounds, safe, bootFault,
                 reported, crowded, posted, settled>>

(* It fails: on that constraint, or because of an error of the database.   *)
SaveFails(p) ==
  /\ thr[p].pc = "exec"
  /\ \/ Matched # {} /\ stmt.args["status"] = Null /\ UNCHANGED bounds
     \/ Fault
  /\ stmt' = SteppedQuery(stmt)
  /\ thr' = [thr EXCEPT ![p] = AfterSave(p)]
  /\ tainted' = tainted \cup {thr[p].c}
  /\ UNCHANGED <<poolVars, mem, row, lock, accepted, boot, safe, bootFault,
                 reported, crowded, posted, settled>>

SaveClear(p) ==
  /\ thr[p].pc = "clear"
  /\ stmt' = ResetQuery(stmt)
  /\ thr' = [thr EXCEPT ![p] = AfterSave(p)]
  /\ UNCHANGED <<poolVars, mem, row, lock, accepted, boot, bounds, history>>

-----------------------------------------------------------------------------
(* The notification.                                                       *)

PostOld(p) ==
  LET c == thr[p].c
      t == [n |-> thr[p].n, c |-> c, status |-> IF row[c] = Null THEN Available ELSE row[c].status]
  IN
  /\ thr[p].pc = "post"
  /\ Enqueue(t)
  /\ crowded' = IF \E u \in Outstanding : u.c = c THEN crowded \cup {c} ELSE crowded \ {c}
  /\ posted' = posted \cup {t.n}
  /\ thr' = [thr EXCEPT ![p] = Idle]
  /\ lock' = None
  /\ UNCHANGED <<mem, dbVars, accepted, boot, bounds, tainted, safe, bootFault,
                 reported, settled>>
(* The end of updateStatus: the task is posted and m_mutex released.       *)
Post(p) ==
  LET c == thr[p].c
      t == [n |-> thr[p].n, c |-> c, status |-> thr[p].target]
  IN
  /\ thr[p].pc = "post"
  /\ Enqueue(t)
  /\ crowded' = IF \E u \in Outstanding : u.c = c THEN crowded \cup {c} ELSE crowded \ {c}
  /\ posted' = posted \cup {t.n}
  /\ thr' = [thr EXCEPT ![p] = Idle]
  /\ lock' = None
  /\ UNCHANGED <<mem, dbVars, accepted, boot, bounds, tainted, safe, bootFault,
                 reported, settled>>

TakeTask(w) ==
  /\ Take(w)
  /\ UNCHANGED <<mem, dbVars, callVars, accepted, boot, bounds, history>>

(* The task: StatusNotification::sendCall, if the charge point is          *)
(* registered.                                                             *)
Notify(w) ==
  /\ doing[w] # NoTask
  /\ accepted
  /\ reported' = [reported EXCEPT ![doing[w].c] = doing[w].status]
  /\ settled' = settled \cup {doing[w].n}
  /\ Finish(w)
  /\ UNCHANGED <<mem, dbVars, callVars, accepted, boot, bounds, tainted, safe,
                 bootFault, crowded, posted>>

(* Not registered, or sendCall returned false; nobody looks at the result. *)
NotifyDropped(w) ==
  /\ doing[w] # NoTask
  /\ reported' = [reported EXCEPT ![doing[w].c] = None]
  /\ settled' = settled \cup {doing[w].n}
  /\ Finish(w)
  /\ UNCHANGED <<mem, dbVars, callVars, accepted, boot, bounds, tainted, safe,
                 bootFault, crowded, posted>>

WorkerExit(w) ==
  /\ Exit(w)
  /\ UNCHANGED <<mem, dbVars, callVars, accepted, boot, bounds, history>>

(* Between Accepted and the other values.                                  *)
SetRegistrationStatus ==
  /\ Up
  /\ accepted' = ~accepted
  /\ UNCHANGED <<poolVars, mem, dbVars, callVars, boot, bounds, history>>

(* The end of the program: no more calls, the pool is destroyed.           *)
Shutdown ==
  /\ Up
  /\ \A p \in Callers : thr[p] = Idle
  /\ StopPool
  /\ UNCHANGED <<mem, dbVars, callVars, accepted, boot, bounds, history>>
-----------------------------------------------------------------------------
(* initDatabaseTable and initConnectorData: before any other thread works  *)
(* on the connectors.  stopAllTimers finds no timer in a new process.      *)

NextId == CHOOSE c \in boot.left : \A d \in boot.left : c <= d

BootDone(phase, c) ==
  boot' = IF boot.left = {c} THEN [phase |-> "up", left |-> {}]
          ELSE [phase |-> phase, left |-> boot.left \ {c}]

BootStep == UNCHANGED <<poolVars, stmt, callVars, accepted, safe, reported, crowded, posted, settled>>

(* A count that cannot be read is 0, which is never the configured one.    *)
Count(failed) == IF failed THEN 0 ELSE Cardinality({c \in Ids : row[c] # Null})

BootCount(failed) ==
  /\ boot.phase = "count"
  /\ boot' = [boot EXCEPT !.phase =
                IF Count(failed) = Cardinality(Ids) THEN "load" ELSE "delete"]
  /\ IF failed THEN Fault /\ bootFault' = TRUE ELSE UNCHANGED <<bounds, bootFault>>
  /\ BootStep
  /\ UNCHANGED <<mem, row, tainted>>

BootLoad ==
  /\ boot.phase = "load"
  /\ mem' = [mem EXCEPT ![NextId] = Loaded(row[NextId])]
  /\ BootDone("load", NextId)
  /\ BootStep
  /\ UNCHANGED <<row, bounds, tainted, bootFault>>

BootLoadFails ==
  /\ boot.phase = "load"
  /\ Fault
  /\ mem' = [mem EXCEPT ![NextId] = DefaultConnector]
  /\ tainted' = tainted \cup {NextId}
  /\ bootFault' = TRUE
  /\ BootDone("load", NextId)
  /\ BootStep
  /\ UNCHANGED row

(* resetConnectors.                                                        *)
BootDelete ==
  /\ boot.phase = "delete"
  /\ row' = [c \in Ids |-> Null]
  /\ boot' = [boot EXCEPT !.phase = "insert"]
  /\ BootStep
  /\ UNCHANGED <<mem, bounds, tainted, bootFault>>

BootDeleteFails ==
  /\ boot.phase = "delete"
  /\ Fault
  /\ tainted' = Ids
  /\ bootFault' = TRUE
  /\ boot' = [phase |-> "up", left |-> {}]
  /\ BootStep
  /\ UNCHANGED <<mem, row>>

BootInsert ==
  /\ boot.phase = "insert"
  /\ mem' = [mem EXCEPT ![NextId] = DefaultConnector]
  /\ row' = [row EXCEPT ![NextId] = ColumnsOf(DefaultConnector)]
  /\ BootDone("insert", NextId)
  /\ BootStep
  /\ UNCHANGED <<bounds, tainted, bootFault>>

(* The connectors that are left get no row; the start goes on.             *)
BootInsertFails ==
  /\ boot.phase = "insert"
  /\ Fault
  /\ bootFault' = TRUE
  /\ boot' = [phase |-> "up", left |-> {}]
  /\ BootStep
  /\ UNCHANGED <<mem, row, tainted>>

(* The process ends at any point and is started again; the rows stay.      *)
Crash ==
  /\ crashes < MaxCrashes
  /\ crashes' = crashes + 1
  /\ tasks' = <<>>
  /\ doing' = [w \in Workers |-> NoTask]
  /\ poolStop' = FALSE
  /\ exited' = {}
  /\ mem' = [c \in Ids |-> DefaultConnector]
  /\ stmt' = ResetQuery(stmt)
  /\ thr' = [p \in Callers |-> Idle]
  /\ lock' = None
  /\ accepted' = FALSE
  /\ boot' = [phase |-> "count", left |-> Ids]
  /\ tainted' = {}
  /\ safe' = [c \in Ids |->
                IF ~Up THEN IF bootFault THEN Null ELSE safe[c]
                ELSE IF \/ c \in tainted
                        \/ \E d \in Ids : row[d] = Null
                        \/ \E p \in Callers : InSave(p) /\ thr[p].c = c THEN Null
                ELSE ColumnsOf(mem[c])]
  /\ bootFault' = FALSE
  /\ reported' = [c \in Ids |-> None]
  /\ crowded' = {}
  /\ posted' = {}
  /\ settled' = {}
  /\ UNCHANGED <<row, ops, faults>>

-----------------------------------------------------------------------------
CallerStep(p) ==
  SaveReset(p) \/ SaveBind(p) \/ SaveExec(p) \/ SaveFails(p) \/ SaveClear(p) \/ Post(p)

WorkerStep(w) == TakeTask(w) \/ Notify(w) \/ NotifyDropped(w) \/ WorkerExit(w)

BootNext ==
  \/ \E failed \in BOOLEAN : BootCount(failed)
  \/ BootLoad \/ BootLoadFails \/ BootDelete \/ BootDeleteFails
  \/ BootInsert \/ BootInsertFails

Next ==
  \/ \E p \in Callers :
       \/ CallerStep(p)
       \/ \E c \in Ids :
            \/ \E s \in Targets, force \in BOOLEAN : UpdateStatus(p, c, s, force)
            \/ \E t \in Transactions : UpdateTransaction(p, c, t)
            \/ \E r \in Reservations, st \in Replies :
                 UpdateReservation(p, c, r, st)
            \/ \E a \in Availabilities : UpdateAvailability(p, c, a)
  \/ \E w \in Workers : WorkerStep(w)
  \/ SetRegistrationStatus
  \/ Shutdown
  \/ BootNext
  \/ Crash

Spec == Init /\ [][Next]_vars

-----------------------------------------------------------------------------
(* Properties.                                                             *)

(* Between saves, the row of a connector reads as what is in memory,       *)
(* unless its last save failed, was interleaved with another one on the    *)
(* same statement, or the start could not read or delete the rows.         *)
SavedAgrees ==
  Up => \A c \in Ids \ tainted :
          \/ row[c] = Null
          \/ \E p \in Callers : InSave(p) /\ thr[p].c = c
          \/ ColumnsOf(Loaded(row[c])) = ColumnsOf(mem[c])

(* A connector whose row was right when the program crashed is restored by *)
(* the next start without a database error, even if that start is itself   *)
(* interrupted, except for the status of its reservation.  It takes the    *)
(* rows of all connectors: with one missing, since an insertion failed in  *)
(* an earlier start, initConnectorData deletes the others as well.         *)
Recovered ==
  [][ ~Up /\ Up' /\ ~bootFault' =>
        \A c \in Ids : safe[c] # Null =>
          mem'[c] = [f \in DOMAIN mem[c] |->
                       IF f = "reserved" THEN "Rejected" ELSE safe[c][f]] ]_vars

(* When nothing is under way for a connector, the central system was last  *)
(* told its status, unless a notification was dropped or two of them were  *)
(* in the pool at the same time, where the workers may swap them.          *)
ReportedUnlessCrowded ==
  \A c \in Ids \ crowded :
    \/ ~Up
    \/ \E t \in Outstanding : t.c = c
    \/ \E p \in Callers : thr[p].c = c
    \/ reported[c] \in {None, mem[c].status}

(* When the destructor of the pool has joined all workers, every change of *)
(* a status that was accepted has been notified or dropped.                *)
Drained ==
  exited = Workers => /\ tasks = <<>>
                      /\ \A n \in posted : n \in settled
=============================================================================
