-------------------------- MODULE ConnectorsProofs --------------------------
(***************************************************************************)
(* What holds of the connectors for every number of connectors, callers    *)
(* and workers, and for every bound of calls, faults and crashes.          *)
(***************************************************************************)
EXTENDS Connectors, OrderLemmas

-----------------------------------------------------------------------------
(* Types.                                                                  *)

Pcs    == {"idle", "reset", "bind", "exec", "clear", "post"}
Phases == {"count", "load", "delete", "insert", "up"}

Connector ==
  [status : Statuses, transaction : Transactions \cup {None},
   reservation : Reservations \cup {None}, availability : {"Operative", "Inoperative"},
   reserved : {"Accepted", "Rejected"}]

Args ==
  [status : Statuses \cup {Null}, transaction : Transactions \cup {None, Null},
   reservation : Reservations \cup {None, Null},
   availability : {"Operative", "Inoperative", Null}, id : Ids \cup {Null}]

Thread ==
  [pc : Pcs, c : Ids \cup {None}, target : Statuses \cup {None}, n : Nat, k : 1 .. 5,
   alone : BOOLEAN]

Working(t) == /\ t.pc # "idle" => t.c \in Ids
              /\ t.pc = "post" => t.target # None

TypeInv ==
  /\ mem \in [Ids -> Connector]
  /\ row \in [Ids -> RowType \cup {Null}]
  /\ stmt \in [ready : BOOLEAN, args : Args]
  /\ thr \in [Callers -> Thread]
  /\ \A p \in Callers : Working(thr[p])
  /\ lock \in Callers \cup {None}
  /\ accepted \in BOOLEAN
  /\ boot \in [phase : Phases, left : SUBSET Ids]
  /\ ~Up => boot.left # {} /\ \A p \in Callers : thr[p] = Idle
  /\ boot.phase = "load" => \A c \in Ids : row[c] # Null
  /\ tainted \subseteq Ids /\ crowded \subseteq Ids
  /\ ops \in 0 .. MaxOps /\ faults \in 0 .. MaxFaults /\ crashes \in 0 .. MaxCrashes

LEMMA OrderIs ==
  /\ DOMAIN Order = 1 .. 5 /\ Len(Order) = 5
  /\ Order[1] = "status" /\ Order[2] = "transaction" /\ Order[3] = "reservation"
  /\ Order[4] = "availability" /\ Order[5] = "id"
BY DEF Order

LEMMA IdleThread == Idle \in Thread /\ Working(Idle)
BY ConnectorAssumption DEF Idle, Thread, Working, Pcs

LEMMA DefaultIsConnector ==
  /\ DefaultConnector \in Connector
  /\ ColumnsOf(DefaultConnector) \in RowType
BY ConnectorAssumption DEF DefaultConnector, Connector, ColumnsOf, Columns, RowType,
                           Available, Statuses

LEMMA LoadedIsConnector == \A r \in RowType : Loaded(r) \in Connector
BY DEF Loaded, RowType, Connector, DefaultConnector

(* The statement after each of its operations.                             *)
LEMMA ResetArgs ==
  \A s \in [ready : BOOLEAN, args : Args] : ResetQuery(s) \in [ready : BOOLEAN, args : Args]
BY DEF ResetQuery, Prepared, Args

LEMMA FirstArgs == Prepared({Order[k] : k \in DOMAIN Order}) \in [ready : BOOLEAN, args : Args]
<1>1. {Order[k] : k \in DOMAIN Order} = {"status", "transaction", "reservation", "availability", "id"}
  BY OrderIs
<1> QED
  BY <1>1 DEF Prepared, Args

LEMMA SteppedArgs ==
  \A s \in [ready : BOOLEAN, args : Args] : SteppedQuery(s) \in [ready : BOOLEAN, args : Args]
BY DEF SteppedQuery

LEMMA BindArgs ==
  ASSUME NEW s \in [ready : BOOLEAN, args : Args], NEW m \in Connector, NEW c \in Ids,
         NEW k \in 1 .. 5
  PROVE  BindQuery(s, Order[k], IF Order[k] = "id" THEN c ELSE m[Order[k]])
           \in [ready : BOOLEAN, args : Args]
<1>1. CASE k = 1
  BY <1>1, OrderIs DEF BindQuery, Args, Connector
<1>2. CASE k = 2
  BY <1>2, OrderIs DEF BindQuery, Args, Connector
<1>3. CASE k = 3
  BY <1>3, OrderIs DEF BindQuery, Args, Connector
<1>4. CASE k = 4
  BY <1>4, OrderIs DEF BindQuery, Args, Connector
<1>5. CASE k = 5
  BY <1>5, OrderIs DEF BindQuery, Args, Connector
<1> QED
  BY <1>1, <1>2, <1>3, <1>4, <1>5

LEMMA NextIdIn == TypeInv /\ ~Up => NextId \in boot.left /\ NextId \in Ids
<1> SUFFICES ASSUME TypeInv, ~Up PROVE NextId \in boot.left /\ NextId \in Ids
  OBVIOUS
<1>1. boot.left \subseteq Ids /\ boot.left # {}
  BY DEF TypeInv
<1>2. boot.left \subseteq Nat
  BY <1>1, ConnectorAssumption
<1>3. \E m \in boot.left : \A n \in boot.left : m <= n
  BY <1>1, <1>2, LeastNumber
<1> QED
  BY <1>1, <1>3 DEF NextId

LEMMA TypeInit == Init => TypeInv
<1> SUFFICES ASSUME Init PROVE TypeInv
  OBVIOUS
<1>1. stmt \in [ready : BOOLEAN, args : Args]
  BY FirstArgs DEF Init
<1>2. mem \in [Ids -> Connector] /\ row \in [Ids -> RowType \cup {Null}]
  BY DefaultIsConnector DEF Init
<1>3. thr \in [Callers -> Thread] /\ \A p \in Callers : Working(thr[p])
  BY IdleThread DEF Init
<1>4. /\ boot \in [phase : Phases, left : SUBSET Ids] /\ boot.phase # "load"
      /\ ~Up => boot.left # {} /\ \A p \in Callers : thr[p] = Idle
  BY ConnectorAssumption DEF Init, Phases, Up
<1>5. ops \in 0 .. MaxOps /\ faults \in 0 .. MaxFaults /\ crashes \in 0 .. MaxCrashes
  BY ConnectorAssumption DEF Init
<1> QED
  BY <1>1, <1>2, <1>3, <1>4, <1>5 DEF Init, TypeInv

LEMMA CountersType ==
  /\ TypeInv /\ Call => ops' \in 0 .. MaxOps /\ UNCHANGED <<faults, crashes>>
  /\ TypeInv /\ Fault => faults' \in 0 .. MaxFaults /\ UNCHANGED <<ops, crashes>>
BY ConnectorAssumption DEF TypeInv, Call, Fault

LEMMA BeginSaveType ==
  ASSUME TypeInv, NEW p \in Callers, NEW c \in Ids, NEW target \in Statuses \cup {None},
         ops' \in Nat, BeginSave(p, c, target)
  PROVE  thr' \in [Callers -> Thread] /\ \A q \in Callers : Working(thr'[q])
<1> DEFINE others == {q \in Callers \ {p} : InSave(q)}
           mine   == [pc |-> "reset", c |-> c, target |-> target, n |-> ops', k |-> 1,
                      alone |-> others = {}]
<1>1. mine \in Thread /\ Working(mine)
  BY DEF Thread, Pcs, Working
<1>2. \A q \in Callers : [thr[q] EXCEPT !.alone = FALSE] \in Thread
                         /\ Working([thr[q] EXCEPT !.alone = FALSE])
  <2> SUFFICES ASSUME NEW q \in Callers
               PROVE  [thr[q] EXCEPT !.alone = FALSE] \in Thread
                      /\ Working([thr[q] EXCEPT !.alone = FALSE])
    OBVIOUS
  <2>1. thr[q] \in Thread /\ Working(thr[q])
    BY DEF TypeInv
  <2> QED
    BY <2>1 DEF Thread, Working
<1>3. thr' = [q \in Callers |-> IF q = p THEN mine
                                ELSE IF q \in others THEN [thr[q] EXCEPT !.alone = FALSE]
                                ELSE thr[q]]
  BY DEF BeginSave
<1> HIDE DEF mine, others
<1> QED
  BY <1>1, <1>2, <1>3 DEF TypeInv

LEMMA AfterSaveType ==
  ASSUME TypeInv, NEW p \in Callers, InSave(p)
  PROVE  AfterSave(p) \in Thread /\ Working(AfterSave(p))
<1>1. CASE thr[p].target = None
  BY <1>1, IdleThread DEF AfterSave
<1>2. CASE thr[p].target # None
  BY <1>2 DEF AfterSave, TypeInv, Thread, Working, InSave, Pcs
<1> QED
  BY <1>1, <1>2

(* A step of one caller that keeps the rest of the types.                  *)
LEMMA OneThreadType ==
  ASSUME TypeInv, NEW p \in Callers, NEW t \in Thread, Working(t),
         thr' = [thr EXCEPT ![p] = t]
  PROVE  thr' \in [Callers -> Thread] /\ \A q \in Callers : Working(thr'[q])
BY DEF TypeInv

LEMMA CallType ==
  ASSUME TypeInv, NEW p \in Callers, NEW c \in Ids
  PROVE  /\ \A s \in Targets, force \in BOOLEAN : UpdateStatus(p, c, s, force) => TypeInv'
         /\ \A m \in Connector : UpdateUnlocked(p, c, m) => TypeInv'
<1>1. ASSUME NEW s \in Targets, NEW force \in BOOLEAN, UpdateStatus(p, c, s, force)
      PROVE  TypeInv'
  <2>1. s \in Statuses
    BY ConnectorAssumption
  <2>2. ops' \in 0 .. MaxOps /\ ops' \in Nat /\ UNCHANGED <<faults, crashes>>
    BY <1>1, CountersType DEF UpdateStatus
  <2>3. mem' \in [Ids -> Connector]
    BY <1>1, <2>1 DEF UpdateStatus, TypeInv, Connector
  <2>4. thr' \in [Callers -> Thread] /\ \A q \in Callers : Working(thr'[q])
    <3>1. CASE mem[c].status # s
      BY <1>1, <2>1, <2>2, <3>1, BeginSaveType DEF UpdateStatus
    <3>2. CASE mem[c].status = s
      <4> DEFINE t == [Idle EXCEPT !.pc = "post", !.c = c, !.target = s, !.n = ops']
      <4>1. t \in Thread /\ Working(t)
        BY <2>1, <2>2, IdleThread, ConnectorAssumption DEF Thread, Working, Pcs
      <4>2. thr' = [thr EXCEPT ![p] = t]
        BY <1>1, <3>2 DEF UpdateStatus
      <4> HIDE DEF t
      <4> QED
        BY <4>1, <4>2, OneThreadType
    <3> QED
      BY <3>1, <3>2
  <2> QED
    BY <1>1, <2>2, <2>3, <2>4 DEF UpdateStatus, Call, TypeInv, dbVars, history, Up
<1>2. ASSUME NEW m \in Connector, UpdateUnlocked(p, c, m)
      PROVE  TypeInv'
  <2>1. ops' \in 0 .. MaxOps /\ ops' \in Nat /\ UNCHANGED <<faults, crashes>>
    BY <1>2, CountersType DEF UpdateUnlocked
  <2>2. mem' \in [Ids -> Connector]
    BY <1>2 DEF UpdateUnlocked, TypeInv
  <2>3. thr' \in [Callers -> Thread] /\ \A q \in Callers : Working(thr'[q])
    BY <1>2, <2>1, BeginSaveType DEF UpdateUnlocked
  <2> QED
    BY <1>2, <2>1, <2>2, <2>3 DEF UpdateUnlocked, Call, TypeInv, dbVars, history, Up
<1> QED
  BY <1>1, <1>2

LEMMA CallerType ==
  ASSUME TypeInv, NEW p \in Callers, CallerStep(p)
  PROVE  TypeInv'
<1>0. Up
  BY DEF CallerStep, SaveReset, SaveBind, SaveExec, SaveFails, SaveClear, Post, TypeInv, Idle
<1>1. CASE SaveReset(p)
  <2> DEFINE t == [thr[p] EXCEPT !.pc = "bind"]
  <2>1. t \in Thread /\ Working(t)
    BY <1>1 DEF SaveReset, TypeInv, Thread, Working, Pcs
  <2>2. thr' = [thr EXCEPT ![p] = t] /\ stmt' \in [ready : BOOLEAN, args : Args]
    BY <1>1, ResetArgs DEF SaveReset, TypeInv
  <2> HIDE DEF t
  <2>3. thr' \in [Callers -> Thread] /\ \A q \in Callers : Working(thr'[q])
    BY <2>1, <2>2, OneThreadType
  <2> QED
    BY <1>0, <1>1, <2>2, <2>3 DEF SaveReset, TypeInv, bounds, history, Up
<1>2. CASE SaveBind(p)
  <2>1. thr[p] \in Thread /\ thr[p].c \in Ids /\ thr[p].pc = "bind"
    BY <1>2 DEF SaveBind, TypeInv, Working
  <2>2. AfterBind(p) \in Thread /\ Working(AfterBind(p))
    <3>1. CASE thr[p].k = 5
      BY <2>1, <3>1, OrderIs DEF AfterBind, Thread, Working, Pcs
    <3>2. CASE thr[p].k # 5
      <4>1. PICK n \in 1 .. 5 : n = thr[p].k + 1
        BY <2>1, <3>2 DEF Thread
      <4>2. AfterBind(p) = [thr[p] EXCEPT !.k = n]
        BY <3>2, <4>1, OrderIs DEF AfterBind
      <4> QED
        BY <2>1, <4>2 DEF Thread, Working, Pcs
    <3> QED
      BY <3>1, <3>2
  <2>3. thr' \in [Callers -> Thread] /\ \A q \in Callers : Working(thr'[q])
    BY <1>2, <2>2, OneThreadType DEF SaveBind
  <2>4. stmt' \in [ready : BOOLEAN, args : Args]
    <3>1. stmt \in [ready : BOOLEAN, args : Args] /\ mem[thr[p].c] \in Connector /\ thr[p].k \in 1 .. 5
      BY <2>1 DEF TypeInv, Thread
    <3>2. stmt' = BindQuery(stmt, Order[thr[p].k],
                            IF Order[thr[p].k] = "id" THEN thr[p].c
                            ELSE mem[thr[p].c][Order[thr[p].k]])
      BY <1>2 DEF SaveBind
    <3> QED
      BY <2>1, <3>1, <3>2, BindArgs, Zenon
  <2> QED
    BY <1>0, <1>2, <2>3, <2>4 DEF SaveBind, TypeInv, bounds, history, Up
<1>3. CASE SaveExec(p)
  <2> DEFINE t == [thr[p] EXCEPT !.pc = "clear"]
             new == [f \in Columns |-> stmt.args[f]]
  <2>1. t \in Thread /\ Working(t) /\ thr[p].c \in Ids
    BY <1>3 DEF SaveExec, TypeInv, Thread, Working, Pcs
  <2>2. thr' = [thr EXCEPT ![p] = t] /\ stmt' \in [ready : BOOLEAN, args : Args]
    BY <1>3, SteppedArgs DEF SaveExec, TypeInv
  <2>3. Matched # {} => new \in RowType
    BY <1>3 DEF SaveExec, TypeInv, Args, RowType, Columns
  <2>4. row' \in [Ids -> RowType \cup {Null}]
    <3>1. row' = [c \in Ids |-> IF c \in Matched THEN new ELSE row[c]]
      BY <1>3 DEF SaveExec
    <3> HIDE DEF new
    <3> QED
      BY <2>3, <3>1 DEF TypeInv
  <2>5. tainted' \subseteq Ids
    BY <1>3, <2>1 DEF SaveExec, TypeInv
  <2> HIDE DEF t
  <2>6. thr' \in [Callers -> Thread] /\ \A q \in Callers : Working(thr'[q])
    BY <2>1, <2>2, OneThreadType
  <2> QED
    BY <1>0, <1>3, <2>2, <2>4, <2>5, <2>6 DEF SaveExec, TypeInv, bounds, Up
<1>4. CASE SaveFails(p)
  <2>1. AfterSave(p) \in Thread /\ Working(AfterSave(p)) /\ thr[p].c \in Ids
    BY <1>4, AfterSaveType DEF SaveFails, InSave, TypeInv, Working
  <2>2. thr' = [thr EXCEPT ![p] = AfterSave(p)] /\ stmt' \in [ready : BOOLEAN, args : Args]
    BY <1>4, SteppedArgs DEF SaveFails, TypeInv
  <2>3. thr' \in [Callers -> Thread] /\ \A q \in Callers : Working(thr'[q])
    BY <2>1, <2>2, OneThreadType
  <2>4. ops' \in 0 .. MaxOps /\ faults' \in 0 .. MaxFaults /\ crashes' \in 0 .. MaxCrashes
    BY <1>4, CountersType DEF SaveFails, bounds, TypeInv
  <2> QED
    BY <1>0, <1>4, <2>1, <2>2, <2>3, <2>4 DEF SaveFails, TypeInv, Up
<1>5. CASE SaveClear(p)
  <2>1. AfterSave(p) \in Thread /\ Working(AfterSave(p))
    BY <1>5, AfterSaveType DEF SaveClear, InSave
  <2>2. thr' = [thr EXCEPT ![p] = AfterSave(p)] /\ stmt' \in [ready : BOOLEAN, args : Args]
    BY <1>5, ResetArgs DEF SaveClear, TypeInv
  <2>3. thr' \in [Callers -> Thread] /\ \A q \in Callers : Working(thr'[q])
    BY <2>1, <2>2, OneThreadType
  <2> QED
    BY <1>0, <1>5, <2>2, <2>3 DEF SaveClear, TypeInv, bounds, history, Up
<1>6. CASE Post(p)
  <2>1. thr' \in [Callers -> Thread] /\ \A q \in Callers : Working(thr'[q])
    BY <1>6, IdleThread, OneThreadType DEF Post
  <2>2. crowded' \subseteq Ids
    BY <1>6 DEF Post, TypeInv, Working
  <2> QED
    BY <1>0, <1>6, <2>1, <2>2 DEF Post, TypeInv, dbVars, bounds, Up
<1> QED
  BY <1>1, <1>2, <1>3, <1>4, <1>5, <1>6 DEF CallerStep

LEMMA WorkerType ==
  ASSUME TypeInv, NEW w \in Workers, WorkerStep(w)
  PROVE  TypeInv'
<1>1. UNCHANGED <<mem, dbVars, callVars, accepted, boot, bounds, tainted, crowded>>
  BY DEF WorkerStep, TakeTask, Notify, NotifyDropped, WorkerExit, history
<1> QED
  BY <1>1 DEF TypeInv, dbVars, callVars, bounds, Up

LEMMA AllRows ==
  ASSUME NEW failed \in BOOLEAN, Count(failed) = Cardinality(Ids)
  PROVE  ~failed /\ \A c \in Ids : row[c] # Null
<1>1. IsFiniteSet(Ids) /\ Cardinality(Ids) # 0
  BY ConnectorAssumption, FS_EmptySet
<1>2. ~failed
  BY <1>1 DEF Count
<1>3. Cardinality({c \in Ids : row[c] # Null}) = Cardinality(Ids)
  BY <1>2 DEF Count
<1>4. {c \in Ids : row[c] # Null} \in SUBSET Ids
  OBVIOUS
<1>5. {c \in Ids : row[c] # Null} = Ids
  BY <1>1, <1>3, <1>4, FS_Subset
<1> QED
  BY <1>2, <1>5

LEMMA BootType ==
  ASSUME TypeInv, BootNext
  PROVE  TypeInv'
<1>0. ~Up /\ NextId \in boot.left /\ NextId \in Ids
  <2>1. ~Up
    BY DEF BootNext, BootCount, BootLoad, BootLoadFails, BootDelete, BootDeleteFails,
           BootInsert, BootInsertFails, Up
  <2> QED
    BY <2>1, NextIdIn
<1>1. UNCHANGED <<stmt, thr, lock, accepted, crowded>>
  BY DEF BootNext, BootCount, BootLoad, BootLoadFails, BootDelete, BootDeleteFails,
         BootInsert, BootInsertFails, BootStep, callVars
<1>2. ops' \in 0 .. MaxOps /\ faults' \in 0 .. MaxFaults /\ crashes' \in 0 .. MaxCrashes
  BY CountersType DEF BootNext, BootCount, BootLoad, BootLoadFails, BootDelete,
     BootDeleteFails, BootInsert, BootInsertFails, bounds, TypeInv
<1>3. tainted' \subseteq Ids
  BY <1>0 DEF BootNext, BootCount, BootLoad, BootLoadFails, BootDelete,
     BootDeleteFails, BootInsert, BootInsertFails, TypeInv
<1>4. ASSUME NEW phase \in {"load", "insert"}, BootDone(phase, NextId)
      PROVE  boot' \in [phase : Phases, left : SUBSET Ids] /\ (~Up' => boot'.left # {})
  BY <1>0, <1>4 DEF BootDone, TypeInv, Phases, Up
<1>5. boot' \in [phase : Phases, left : SUBSET Ids] /\ (~Up' => boot'.left # {})
  <2>1. CASE \E failed \in BOOLEAN : BootCount(failed)
    BY <1>0, <2>1 DEF BootCount, TypeInv, Phases, Up
  <2>2. CASE BootLoad \/ BootLoadFails \/ BootInsert
    BY <2>2, <1>4 DEF BootLoad, BootLoadFails, BootInsert
  <2>3. CASE BootDelete
    BY <1>0, <2>3 DEF BootDelete, TypeInv, Phases, Up
  <2>4. CASE BootDeleteFails \/ BootInsertFails
    BY <2>4 DEF BootDeleteFails, BootInsertFails, Phases, Up
  <2> QED
    BY <2>1, <2>2, <2>3, <2>4 DEF BootNext
<1>6. mem' \in [Ids -> Connector]
  <2>1. CASE BootLoad
    <3>1. Loaded(row[NextId]) \in Connector
      BY <1>0, <2>1, LoadedIsConnector DEF BootLoad, TypeInv
    <3> QED
      BY <2>1, <3>1 DEF BootLoad, TypeInv
  <2>2. CASE ~BootLoad
    BY <2>2, DefaultIsConnector DEF BootNext, BootCount, BootLoadFails, BootDelete,
       BootDeleteFails, BootInsert, BootInsertFails, TypeInv
  <2> QED
    BY <2>1, <2>2
<1>7. row' \in [Ids -> RowType \cup {Null}]
  BY DefaultIsConnector DEF BootNext, BootCount, BootLoad, BootLoadFails, BootDelete,
     BootDeleteFails, BootInsert, BootInsertFails, TypeInv
<1>8. boot'.phase = "load" => \A c \in Ids : row'[c] # Null
  <2>1. ASSUME NEW failed \in BOOLEAN, BootCount(failed), boot'.phase = "load"
        PROVE  \A c \in Ids : row'[c] # Null
    BY <2>1, AllRows DEF BootCount, TypeInv
  <2>2. CASE BootLoad \/ BootLoadFails
    BY <2>2 DEF BootLoad, BootLoadFails, TypeInv
  <2>3. CASE BootDelete \/ BootDeleteFails \/ BootInsert \/ BootInsertFails
    BY <2>3 DEF BootDelete, BootDeleteFails, BootInsert, BootInsertFails, BootDone, TypeInv
  <2> QED
    BY <2>1, <2>2, <2>3 DEF BootNext
<1> QED
  BY <1>0, <1>1, <1>2, <1>3, <1>5, <1>6, <1>7, <1>8 DEF TypeInv, Up

(* The calls of Next, with the unlocked updates taken together.            *)
LEMMA NextCases ==
  ASSUME TypeInv, Next
  PROVE  \/ \E p \in Callers, c \in Ids :
               \/ \E s \in Targets, force \in BOOLEAN : UpdateStatus(p, c, s, force)
               \/ \E m \in Connector : m.status = mem[c].status /\ UpdateUnlocked(p, c, m)
         \/ \E p \in Callers : CallerStep(p)
         \/ \E w \in Workers : WorkerStep(w)
         \/ SetRegistrationStatus \/ Shutdown \/ BootNext \/ Crash
<1>1. ASSUME NEW p \in Callers, NEW c \in Ids,
             \/ \E t \in Transactions : UpdateTransaction(p, c, t)
             \/ \E r \in Reservations, st \in Replies : UpdateReservation(p, c, r, st)
             \/ \E a \in Availabilities : UpdateAvailability(p, c, a)
      PROVE  \E m \in Connector : m.status = mem[c].status /\ UpdateUnlocked(p, c, m)
  <2>1. ASSUME NEW t \in Transactions
        PROVE  [mem[c] EXCEPT !.transaction = t] \in Connector
               /\ [mem[c] EXCEPT !.transaction = t].status = mem[c].status
    BY DEF TypeInv, Connector
  <2>2. ASSUME NEW r \in Reservations, NEW st \in Replies
        PROVE  [mem[c] EXCEPT !.reservation = r, !.reserved = st] \in Connector
               /\ [mem[c] EXCEPT !.reservation = r, !.reserved = st].status = mem[c].status
    <3>1. mem[c] \in Connector /\ st \in {"Accepted", "Rejected"}
      BY ConnectorAssumption DEF TypeInv
    <3> QED
      BY <3>1 DEF Connector
  <2>3. ASSUME NEW a \in Availabilities
        PROVE  [mem[c] EXCEPT !.availability = a] \in Connector
               /\ [mem[c] EXCEPT !.availability = a].status = mem[c].status
    BY ConnectorAssumption DEF TypeInv, Connector
  <2> QED
    BY <1>1, <2>1, <2>2, <2>3 DEF UpdateTransaction, UpdateReservation, UpdateAvailability
<1> QED
  BY <1>1 DEF Next

LEMMA TypeStep == TypeInv /\ [Next]_vars => TypeInv'
<1> SUFFICES ASSUME TypeInv, [Next]_vars PROVE TypeInv'
  OBVIOUS
<1>1. ASSUME NEW p \in Callers, NEW c \in Ids,
             \/ \E s \in Targets, force \in BOOLEAN : UpdateStatus(p, c, s, force)
             \/ \E m \in Connector : UpdateUnlocked(p, c, m)
      PROVE  TypeInv'
  BY <1>1, CallType
<1>2. ASSUME NEW p \in Callers, CallerStep(p) PROVE TypeInv'
  BY <1>2, CallerType
<1>3. ASSUME NEW w \in Workers, WorkerStep(w) PROVE TypeInv'
  BY <1>3, WorkerType
<1>4. CASE SetRegistrationStatus
  BY <1>4 DEF SetRegistrationStatus, TypeInv, dbVars, callVars, bounds, history, Up
<1>5. CASE Shutdown
  BY <1>5 DEF Shutdown, TypeInv, dbVars, callVars, bounds, history, Up
<1>6. CASE BootNext
  BY <1>6, BootType
<1>7. CASE Crash
  <2>1. thr' \in [Callers -> Thread] /\ \A q \in Callers : Working(thr'[q]) /\ thr'[q] = Idle
    BY <1>7, IdleThread DEF Crash
  <2>2. mem' \in [Ids -> Connector]
    BY <1>7, DefaultIsConnector DEF Crash
  <2>3. stmt' \in [ready : BOOLEAN, args : Args]
    BY <1>7, ResetArgs DEF Crash, TypeInv
  <2>4. boot' \in [phase : Phases, left : SUBSET Ids] /\ boot'.phase # "load" /\ boot'.left # {}
    BY <1>7, ConnectorAssumption DEF Crash, Phases
  <2>5. crashes' \in 0 .. MaxCrashes
    BY <1>7, ConnectorAssumption DEF Crash, TypeInv
  <2> QED
    BY <1>7, <2>1, <2>2, <2>3, <2>4, <2>5 DEF Crash, TypeInv
<1>8. CASE UNCHANGED vars
  BY <1>8 DEF vars, TypeInv, dbVars, callVars, bounds, history, Up
<1> QED
  BY <1>1, <1>2, <1>3, <1>4, <1>5, <1>6, <1>7, <1>8, NextCases DEF Next

(* Memory, rows, threads and the start keep their types, for every number  *)
(* of connectors and callers.                                              *)
THEOREM ConnectorsTypeCorrect == Spec => []TypeOK
<1>1. TypeInv => TypeOK
  BY OrderIs DEF TypeInv, TypeOK, Connector, Thread, Pcs, Phases
<1> QED
  BY <1>1, TypeInit, TypeStep, PTL DEF Spec

-----------------------------------------------------------------------------
(* The pool.                                                               *)

PoolInv ==
  /\ tasks \in Seq(Notification)
  /\ doing \in [Workers -> Notification \cup {NoTask}]
  /\ exited \subseteq Workers
  /\ exited # {} => poolStop /\ tasks = <<>>
  /\ \A w \in exited : doing[w] = NoTask
  /\ poolStop => \A p \in Callers : thr[p] = Idle
  /\ \A n \in posted \ settled : \E t \in Outstanding : t.n = n

LEMMA TakeOutstanding ==
  ASSUME PoolInv, NEW w \in Workers, Take(w)
  PROVE  /\ Outstanding' = Outstanding
         /\ tasks' \in Seq(Notification)
         /\ doing' \in [Workers -> Notification \cup {NoTask}]
<1>1. /\ tasks \in Seq(Notification) /\ tasks # <<>> /\ doing[w] = NoTask
      /\ doing \in [Workers -> Notification \cup {NoTask}]
      /\ doing' = [doing EXCEPT ![w] = Head(tasks)]
      /\ tasks' = Tail(tasks)
  BY DEF Take, PoolInv
<1>2. Head(tasks) \in Notification /\ tasks' \in Seq(Notification) /\ Head(tasks) # NoTask
  BY <1>1, TaskAssumption
<1>3. {tasks[i] : i \in DOMAIN tasks} = {Head(tasks)} \cup {tasks'[i] : i \in DOMAIN tasks'}
  <2>1. /\ Len(tasks) \in Nat /\ DOMAIN tasks = 1 .. Len(tasks)
        /\ DOMAIN tasks' = 1 .. Len(tasks) - 1
        /\ \A j \in 1 .. Len(tasks) - 1 : tasks'[j] = tasks[j + 1]
        /\ Head(tasks) = tasks[1] /\ 1 \in DOMAIN tasks
    BY <1>1
  <2>2. ASSUME NEW i \in DOMAIN tasks, i # 1
        PROVE  i - 1 \in DOMAIN tasks' /\ tasks'[i - 1] = tasks[i]
    BY <2>1, <2>2
  <2>3. ASSUME NEW i \in DOMAIN tasks'
        PROVE  i + 1 \in DOMAIN tasks /\ tasks'[i] = tasks[i + 1]
    BY <2>1, <2>3
  <2> QED
    BY <2>1, <2>2, <2>3
<1>4. {doing'[v] : v \in Workers} \ {NoTask}
        = ({doing[v] : v \in Workers} \ {NoTask}) \cup {Head(tasks)}
  BY <1>1, <1>2
<1> QED
  BY <1>1, <1>2, <1>3, <1>4 DEF Outstanding

LEMMA FinishOutstanding ==
  ASSUME PoolInv, NEW w \in Workers, doing[w] # NoTask, Finish(w)
  PROVE  /\ doing[w] \in Notification
         /\ doing' \in [Workers -> Notification \cup {NoTask}]
         /\ doing[w] \in Outstanding
         /\ Outstanding' \subseteq Outstanding
         /\ Outstanding \ {doing[w]} \subseteq Outstanding'
<1>1. /\ doing \in [Workers -> Notification \cup {NoTask}]
      /\ doing' = [doing EXCEPT ![w] = NoTask]
      /\ tasks' = tasks
  BY DEF Finish, PoolInv
<1> QED
  BY <1>1 DEF Outstanding

LEMMA PostOutstanding ==
  ASSUME PoolInv, NEW t \in Notification, Enqueue(t)
  PROVE  /\ Outstanding' = Outstanding \cup {t}
         /\ tasks' \in Seq(Notification)
<1>1. /\ tasks \in Seq(Notification)
      /\ tasks' = Append(tasks, t) /\ doing' = doing
  BY DEF Enqueue, PoolInv
<1>2. /\ Len(tasks) \in Nat /\ DOMAIN tasks = 1 .. Len(tasks)
      /\ DOMAIN tasks' = 1 .. Len(tasks) + 1
      /\ \A i \in 1 .. Len(tasks) : tasks'[i] = tasks[i]
      /\ tasks'[Len(tasks) + 1] = t
  BY <1>1
<1>3. {tasks'[i] : i \in DOMAIN tasks'} = {tasks[i] : i \in DOMAIN tasks} \cup {t}
  <2>1. \A i \in DOMAIN tasks' : i = Len(tasks) + 1 \/ i \in DOMAIN tasks
    BY <1>2
  <2>2. \A i \in DOMAIN tasks : i \in DOMAIN tasks'
    BY <1>2
  <2>3. Len(tasks) + 1 \in DOMAIN tasks'
    BY <1>2
  <2> QED
    BY <1>2, <2>1, <2>2, <2>3
<1> QED
  BY <1>1, <1>3 DEF Outstanding

(* The notification of a thread that posts.                                *)
Posted(p) == [n |-> thr[p].n, c |-> thr[p].c, status |-> thr[p].target]

LEMMA PostedIs == ASSUME TypeInv, NEW p \in Callers, Post(p) PROVE Posted(p) \in Notification
BY DEF Post, Posted, Notification, TypeInv, Thread, Working

LEMMA PoolUnchanged ==
  ASSUME PoolInv, UNCHANGED <<poolVars, posted, settled>>,
         poolStop => \A p \in Callers : thr'[p] = Idle
  PROVE  PoolInv'
BY DEF PoolInv, poolVars, Outstanding

LEMMA PoolStep == TypeInv /\ PoolInv /\ [Next]_vars => PoolInv'
<1> SUFFICES ASSUME TypeInv, PoolInv, [Next]_vars PROVE PoolInv'
  OBVIOUS
<1>1. ASSUME NEW p \in Callers, NEW c \in Ids,
             \/ \E s \in Targets, force \in BOOLEAN : UpdateStatus(p, c, s, force)
             \/ \E m \in Connector : UpdateUnlocked(p, c, m)
      PROVE  PoolInv'
  <2>1. ~poolStop /\ UNCHANGED <<poolVars, posted, settled>>
    BY <1>1 DEF UpdateStatus, UpdateUnlocked, Call, CanEnqueue, history
  <2> QED
    BY <2>1, PoolUnchanged
<1>2. ASSUME NEW p \in Callers, CallerStep(p) PROVE PoolInv'
  <2>0. ~poolStop
    BY <1>2 DEF CallerStep, SaveReset, SaveBind, SaveExec, SaveFails, SaveClear, Post,
                PoolInv, Idle
  <2>1. CASE Post(p)
    <3>1. Posted(p) \in Notification /\ Enqueue(Posted(p))
      BY <2>1, PostedIs DEF Post, Posted
    <3>2. Outstanding' = Outstanding \cup {Posted(p)} /\ tasks' \in Seq(Notification)
      BY <3>1, PostOutstanding
    <3>3. UNCHANGED <<doing, poolStop, exited, settled>> /\ posted' = posted \cup {Posted(p).n}
      BY <2>1 DEF Post, Enqueue, Posted
    <3>4. exited' = {}
      BY <2>0, <3>3 DEF PoolInv
    <3> QED
      BY <2>0, <3>2, <3>3, <3>4 DEF PoolInv
  <2>2. CASE ~Post(p)
    <3>1. UNCHANGED <<poolVars, posted, settled>>
      BY <1>2, <2>2 DEF CallerStep, SaveReset, SaveBind, SaveExec, SaveFails, SaveClear, history
    <3> QED
      BY <2>0, <3>1, PoolUnchanged
  <2> QED
    BY <2>1, <2>2
<1>3. ASSUME NEW w \in Workers, WorkerStep(w) PROVE PoolInv'
  <2>0. UNCHANGED <<thr, posted>>
    BY <1>3 DEF WorkerStep, TakeTask, Notify, NotifyDropped, WorkerExit, callVars, history
  <2>1. CASE TakeTask(w)
    <3>1. UNCHANGED <<poolStop, exited, settled>> /\ w \notin exited /\ tasks # <<>>
          /\ doing' = [doing EXCEPT ![w] = Head(tasks)]
      BY <2>1 DEF TakeTask, Take, history
    <3>2. Outstanding' = Outstanding /\ tasks' \in Seq(Notification)
          /\ doing' \in [Workers -> Notification \cup {NoTask}]
      BY <2>1, TakeOutstanding DEF TakeTask
    <3> QED
      BY <2>0, <3>1, <3>2 DEF PoolInv
  <2>2. CASE Notify(w) \/ NotifyDropped(w)
    <3>1. /\ doing[w] # NoTask /\ Finish(w) /\ settled' = settled \cup {doing[w].n}
          /\ UNCHANGED <<tasks, poolStop, exited>>
          /\ doing' = [doing EXCEPT ![w] = NoTask]
      BY <2>2 DEF Notify, NotifyDropped, Finish
    <3>2. /\ doing' \in [Workers -> Notification \cup {NoTask}]
          /\ Outstanding \ {doing[w]} \subseteq Outstanding'
      BY <3>1, FinishOutstanding
    <3> QED
      BY <2>0, <3>1, <3>2 DEF PoolInv
  <2>3. CASE WorkerExit(w)
    <3>1. /\ UNCHANGED <<tasks, doing, poolStop, settled>>
          /\ exited' = exited \cup {w} /\ poolStop /\ tasks = <<>> /\ doing[w] = NoTask
      BY <2>3 DEF WorkerExit, Exit, history
    <3>2. Outstanding' = Outstanding
      BY <3>1 DEF Outstanding
    <3> QED
      BY <2>0, <3>1, <3>2 DEF PoolInv
  <2> QED
    BY <1>3, <2>1, <2>2, <2>3 DEF WorkerStep
<1>4. CASE SetRegistrationStatus
  BY <1>4, PoolUnchanged DEF SetRegistrationStatus, callVars, history, PoolInv
<1>5. CASE Shutdown
  <2>1. Outstanding' = Outstanding /\ UNCHANGED <<tasks, doing, exited, thr, posted, settled>>
        /\ poolStop' = TRUE /\ ~poolStop /\ \A p \in Callers : thr[p] = Idle
    BY <1>5 DEF Shutdown, StopPool, Outstanding, callVars, history
  <2> QED
    BY <2>1 DEF PoolInv
<1>6. CASE BootNext
  <2>1. UNCHANGED <<poolVars, thr, posted, settled>>
    BY <1>6 DEF BootNext, BootCount, BootLoad, BootLoadFails, BootDelete, BootDeleteFails,
                BootInsert, BootInsertFails, BootStep, callVars
  <2> QED
    BY <2>1, PoolUnchanged DEF PoolInv
<1>7. CASE Crash
  <2>1. /\ tasks' = <<>> /\ doing' = [w \in Workers |-> NoTask] /\ exited' = {}
        /\ poolStop' = FALSE /\ posted' = {}
    BY <1>7 DEF Crash
  <2>2. tasks' \in Seq(Notification)
    BY <2>1
  <2> QED
    BY <2>1, <2>2 DEF PoolInv
<1>8. CASE UNCHANGED vars
  BY <1>8, PoolUnchanged DEF vars, callVars, history, PoolInv
<1> QED
  BY <1>1, <1>2, <1>3, <1>4, <1>5, <1>6, <1>7, <1>8, NextCases

LEMMA PoolInitial == Init => PoolInv
<1> SUFFICES ASSUME Init PROVE PoolInv
  OBVIOUS
<1>1. /\ tasks = <<>> /\ doing = [w \in Workers |-> NoTask] /\ exited = {}
      /\ poolStop = FALSE /\ posted = {}
  BY DEF Init, PoolInit
<1>2. tasks \in Seq(Notification)
  BY <1>1
<1> QED
  BY <1>1, <1>2 DEF PoolInv

(* The destructor of the pool loses no notification: when all workers have *)
(* returned, each one that was posted has been sent or dropped by one of   *)
(* them, for every number of workers.                                      *)
THEOREM DrainCorrect == Spec => []Drained
<1>1. PoolInv => Drained
  <2> SUFFICES ASSUME PoolInv, exited = Workers PROVE tasks = <<>> /\ posted \subseteq settled
    BY DEF Drained
  <2>1. Workers # {}
    BY ConnectorAssumption
  <2>2. tasks = <<>> /\ \A w \in Workers : doing[w] = NoTask
    BY <2>1 DEF PoolInv
  <2>3. Outstanding = {}
    BY <2>2 DEF Outstanding
  <2> QED
    BY <2>2, <2>3 DEF PoolInv
<1> QED
  BY <1>1, TypeInit, TypeStep, PoolInitial, PoolStep, PTL DEF Spec

-----------------------------------------------------------------------------
(* What the central system was told.                                       *)

(* An updateStatus that has changed, or is about to report, this status.   *)
Setting(c) == \E p \in Callers : thr[p].target # None /\ thr[p].c = c

Unreported(c) == \E t \in Outstanding : t.c = c

(* The thread that sets a status holds m_mutex until it has posted, so     *)
(* what is in the pool for a connector that is neither crowded nor being   *)
(* set is its status in memory.                                            *)
ReportInv ==
  /\ \A p \in Callers : thr[p].target # None =>
       lock = p /\ thr[p].c \in Ids /\ mem[thr[p].c].status = thr[p].target
  /\ DOMAIN reported = Ids
  /\ \A c \in Ids \ crowded : ~Setting(c) =>
       /\ \A t \in Outstanding : t.c = c => t.status = mem[c].status
       /\ Unreported(c) \/ reported[c] \in {None, mem[c].status}
  /\ ~Up => Outstanding = {} /\ \A c \in Ids : reported[c] = None

LEMMA ReportKept ==
  ASSUME ReportInv, Outstanding' = Outstanding, UNCHANGED <<crowded, reported, lock>>,
         \A c \in Ids : mem'[c].status = mem[c].status,
         \A p \in Callers : thr'[p].target = thr[p].target
                            /\ (thr[p].target # None => thr'[p].c = thr[p].c),
         ~Up' => ~Up
  PROVE  ReportInv'
<1>1. \A c \in Ids : Setting(c)' <=> Setting(c)
  BY DEF Setting
<1>2. \A c \in Ids : Unreported(c)' <=> Unreported(c)
  BY DEF Unreported
<1> QED
  BY <1>1, <1>2 DEF ReportInv

LEMMA BeginSaveTargets ==
  ASSUME NEW p \in Callers, NEW c \in Ids, NEW target, TypeInv, BeginSave(p, c, target)
  PROVE  /\ thr'[p].target = target /\ thr'[p].c = c
         /\ \A q \in Callers \ {p} : thr'[q].target = thr[q].target /\ thr'[q].c = thr[q].c
<1>1. \A q \in Callers : thr[q] \in Thread
  BY DEF TypeInv
<1> QED
  BY <1>1 DEF BeginSave, Thread

LEMMA CallReport ==
  ASSUME TypeInv, ReportInv, NEW p \in Callers, NEW c \in Ids
  PROVE  /\ \A s \in Targets, force \in BOOLEAN : UpdateStatus(p, c, s, force) => ReportInv'
         /\ \A m \in Connector : m.status = mem[c].status /\ UpdateUnlocked(p, c, m) => ReportInv'
<1>1. ASSUME NEW s \in Targets, NEW force \in BOOLEAN, UpdateStatus(p, c, s, force)
      PROVE  ReportInv'
  <2>1. s # None /\ p # None
    BY ConnectorAssumption
  <2>2. \A q \in Callers : thr[q].target = None
    BY <1>1, ConnectorAssumption DEF UpdateStatus, ReportInv
  <2>3. /\ thr'[p].target = s /\ thr'[p].c = c
        /\ \A q \in Callers \ {p} : thr'[q].target = None
    <3>1. CASE mem[c].status # s
      BY <1>1, <2>2, <3>1, BeginSaveTargets DEF UpdateStatus
    <3>2. CASE mem[c].status = s
      <4> DEFINE t == [Idle EXCEPT !.pc = "post", !.c = c, !.target = s, !.n = ops']
      <4>1. t.target = s /\ t.c = c
        BY DEF Idle
      <4>2. thr' = [thr EXCEPT ![p] = t] /\ DOMAIN thr = Callers
        BY <1>1, <3>2 DEF UpdateStatus, TypeInv
      <4> HIDE DEF t
      <4> QED
        BY <2>2, <4>1, <4>2
    <3> QED
      BY <3>1, <3>2
  <2>4. mem'[c].status = s /\ \A d \in Ids \ {c} : mem'[d] = mem[d]
    BY <1>1 DEF UpdateStatus, TypeInv, Connector
  <2>5. Outstanding' = Outstanding /\ UNCHANGED <<crowded, reported, boot>> /\ lock' = p /\ Up
    BY <1>1 DEF UpdateStatus, Outstanding, poolVars, history, Call
  <2>6. \A d \in Ids : Setting(d)' <=> d = c
    BY <2>1, <2>3 DEF Setting
  <2>7. \A d \in Ids : ~Setting(d)
    BY <2>2 DEF Setting
  <2>8. \A d \in Ids : Unreported(d)' <=> Unreported(d)
    BY <2>5 DEF Unreported
  <2> QED
    BY <2>3, <2>4, <2>5, <2>6, <2>7, <2>8 DEF ReportInv, Up
<1>2. ASSUME NEW m \in Connector, m.status = mem[c].status, UpdateUnlocked(p, c, m)
      PROVE  ReportInv'
  <2>1. thr[p].target = None
    BY <1>2 DEF UpdateUnlocked, Idle
  <2>2. \A q \in Callers : thr'[q].target = thr[q].target
                           /\ (thr[q].target # None => thr'[q].c = thr[q].c)
    BY <1>2, <2>1, BeginSaveTargets DEF UpdateUnlocked
  <2>3. \A d \in Ids : mem'[d].status = mem[d].status
    BY <1>2 DEF UpdateUnlocked, TypeInv
  <2>4. Outstanding' = Outstanding /\ UNCHANGED <<crowded, reported, lock, boot>>
    BY <1>2 DEF UpdateUnlocked, Outstanding, poolVars, history
  <2> QED
    BY <2>2, <2>3, <2>4, ReportKept DEF Up
<1> QED
  BY <1>1, <1>2

LEMMA CallerReport ==
  ASSUME TypeInv, PoolInv, ReportInv, NEW p \in Callers, CallerStep(p)
  PROVE  ReportInv'
<1>1. CASE Post(p)
  <2> DEFINE c == thr[p].c
  <2>1. /\ thr[p].target # None /\ c \in Ids /\ mem[c].status = thr[p].target
        /\ thr' = [thr EXCEPT ![p] = Idle]
        /\ \A q \in Callers \ {p} : thr[q].target = None
    BY <1>1 DEF Post, TypeInv, Working, ReportInv
  <2>2. \A q \in Callers : thr'[q].target = None
    BY <2>1 DEF Idle, TypeInv
  <2>3. Posted(p) \in Notification /\ Outstanding' = Outstanding \cup {Posted(p)}
    BY <1>1, PostedIs, PostOutstanding DEF Post, Posted
  <2>4. Posted(p).c = c /\ Posted(p).status = mem[c].status
    BY <2>1 DEF Posted
  <2>5. /\ UNCHANGED <<mem, boot, reported>>
        /\ crowded' = IF Unreported(c) THEN crowded \cup {c} ELSE crowded \ {c}
    BY <1>1 DEF Post, Unreported
  <2>6. \A d \in Ids : ~Setting(d)'
    BY <2>2 DEF Setting
  <2>7. \A d \in Ids \ {c} : ~Setting(d)
    BY <2>1 DEF Setting
  <2>8. Up
    BY <2>1 DEF TypeInv, Idle
  <2>9. \A d \in Ids : Unreported(d)' <=> Unreported(d) \/ d = c
    BY <2>3, <2>4 DEF Unreported
  <2> HIDE DEF c
  <2>10. ASSUME NEW d \in Ids \ crowded'
         PROVE  /\ \A t \in Outstanding' : t.c = d => t.status = mem'[d].status
                /\ Unreported(d)' \/ reported'[d] \in {None, mem'[d].status}
    <3>1. CASE d = c
      BY <2>1, <2>3, <2>4, <2>5, <2>9, <2>10, <3>1 DEF Unreported
    <3>2. CASE d # c
      <4>1. d \in Ids \ crowded /\ ~Setting(d)
        BY <2>1, <2>5, <2>7, <2>10, <3>2
      <4> QED
        BY <2>3, <2>4, <2>5, <2>9, <3>2, <4>1 DEF ReportInv
    <3> QED
      BY <3>1, <3>2
  <2> QED
    BY <2>2, <2>5, <2>8, <2>10 DEF ReportInv, Up
<1>2. CASE ~Post(p)
  <2>1. Outstanding' = Outstanding /\ UNCHANGED <<crowded, reported, lock, mem, boot>>
    BY <1>2 DEF CallerStep, SaveReset, SaveBind, SaveExec, SaveFails, SaveClear,
                Outstanding, poolVars, history
  <2>2. thr[p] \in Thread /\ thr \in [Callers -> Thread]
    BY DEF TypeInv
  <2>3. AfterSave(p).target = thr[p].target /\ (thr[p].target # None => AfterSave(p).c = thr[p].c)
    BY <2>2 DEF AfterSave, Idle, Thread
  <2>4. AfterBind(p).target = thr[p].target /\ AfterBind(p).c = thr[p].c
    BY <2>2 DEF AfterBind, Thread
  <2>5. \A q \in Callers : thr'[q].target = thr[q].target
                           /\ (thr[q].target # None => thr'[q].c = thr[q].c)
    <3>1. CASE SaveReset(p) \/ SaveExec(p)
      BY <2>2, <3>1 DEF SaveReset, SaveExec, Thread
    <3>2. CASE SaveBind(p)
      BY <2>2, <2>4, <3>2 DEF SaveBind
    <3>3. CASE SaveFails(p) \/ SaveClear(p)
      BY <2>2, <2>3, <3>3 DEF SaveFails, SaveClear
    <3> QED
      BY <1>2, <3>1, <3>2, <3>3 DEF CallerStep
  <2> QED
    BY <2>1, <2>5, ReportKept DEF Up
<1> QED
  BY <1>1, <1>2

LEMMA WorkerReport ==
  ASSUME TypeInv, PoolInv, ReportInv, NEW w \in Workers, WorkerStep(w)
  PROVE  ReportInv'
<1>0. UNCHANGED <<thr, lock, mem, boot, crowded>>
  BY DEF WorkerStep, TakeTask, Notify, NotifyDropped, WorkerExit, callVars, history
<1>1. CASE TakeTask(w) \/ WorkerExit(w)
  <2>1. Outstanding' = Outstanding /\ UNCHANGED reported
    BY <1>1, TakeOutstanding DEF TakeTask, WorkerExit, Exit, history, Outstanding
  <2> QED
    BY <1>0, <2>1, ReportKept DEF Up
<1>2. CASE Notify(w) \/ NotifyDropped(w)
  <2> DEFINE t == doing[w]
             d == doing[w].c
  <2>1. /\ t \in Notification /\ t \in Outstanding
        /\ Outstanding' \subseteq Outstanding
        /\ Outstanding \ {t} \subseteq Outstanding'
    BY <1>2, FinishOutstanding DEF Notify, NotifyDropped
  <2>2. /\ d \in Ids /\ DOMAIN reported = Ids /\ DOMAIN reported' = Ids
        /\ reported'[d] \in {None, t.status}
        /\ \A c \in Ids \ {d} : reported'[c] = reported[c]
    BY <1>2, <2>1 DEF Notify, NotifyDropped, ReportInv, Notification
  <2>3. \A c \in Ids : Setting(c)' <=> Setting(c)
    BY <1>0 DEF Setting
  <2>4. \A c \in Ids \ {d} : Unreported(c)' <=> Unreported(c)
    BY <2>1 DEF Unreported
  <2>5. Up
    BY <2>1 DEF ReportInv
  <2> HIDE DEF t, d
  <2>6. ASSUME NEW c \in Ids \ crowded', ~Setting(c)'
        PROVE  /\ \A u \in Outstanding' : u.c = c => u.status = mem'[c].status
               /\ Unreported(c)' \/ reported'[c] \in {None, mem'[c].status}
    <3>1. c \in Ids \ crowded /\ ~Setting(c)
      BY <1>0, <2>3, <2>6
    <3>2. \A u \in Outstanding : u.c = c => u.status = mem[c].status
      BY <3>1 DEF ReportInv
    <3>3. CASE c = d
      BY <1>0, <2>1, <2>2, <3>2, <3>3 DEF t, d
    <3>4. CASE c # d
      BY <1>0, <2>1, <2>2, <2>4, <3>1, <3>2, <3>4 DEF ReportInv
    <3> QED
      BY <3>3, <3>4
  <2> QED
    BY <1>0, <2>2, <2>5, <2>6 DEF ReportInv, Up
<1> QED
  BY <1>1, <1>2 DEF WorkerStep

LEMMA ReportStep == TypeInv /\ PoolInv /\ ReportInv /\ [Next]_vars => ReportInv'
<1> SUFFICES ASSUME TypeInv, PoolInv, ReportInv, [Next]_vars PROVE ReportInv'
  OBVIOUS
<1>1. ASSUME NEW p \in Callers, NEW c \in Ids,
             \/ \E s \in Targets, force \in BOOLEAN : UpdateStatus(p, c, s, force)
             \/ \E m \in Connector : m.status = mem[c].status /\ UpdateUnlocked(p, c, m)
      PROVE  ReportInv'
  BY <1>1, CallReport
<1>2. ASSUME NEW p \in Callers, CallerStep(p) PROVE ReportInv'
  BY <1>2, CallerReport
<1>3. ASSUME NEW w \in Workers, WorkerStep(w) PROVE ReportInv'
  BY <1>3, WorkerReport
<1>4. CASE SetRegistrationStatus \/ Shutdown \/ UNCHANGED vars
  <2>1. Outstanding' = Outstanding /\ UNCHANGED <<mem, thr, lock, boot, crowded, reported>>
    BY <1>4 DEF SetRegistrationStatus, Shutdown, StopPool, vars, callVars, history,
                poolVars, Outstanding
  <2> QED
    BY <2>1, ReportKept DEF Up
<1>5. CASE BootNext
  <2>1. ~Up /\ Outstanding' = Outstanding /\ UNCHANGED <<thr, lock, crowded, reported>>
    BY <1>5 DEF BootNext, BootCount, BootLoad, BootLoadFails, BootDelete, BootDeleteFails,
                BootInsert, BootInsertFails, BootStep, callVars, poolVars, Outstanding, Up
  <2>2. Outstanding = {} /\ \A c \in Ids : reported[c] = None
    BY <2>1 DEF ReportInv
  <2>3. \A p \in Callers : thr[p].target = None
    BY <2>1 DEF TypeInv, Idle
  <2> QED
    BY <2>1, <2>2, <2>3 DEF ReportInv
<1>6. CASE Crash
  <2>1. /\ tasks' = <<>> /\ doing' = [w \in Workers |-> NoTask]
        /\ reported' = [c \in Ids |-> None]
        /\ \A p \in Callers : thr'[p].target = None
    BY <1>6 DEF Crash, Idle
  <2>2. Outstanding' = {}
    BY <2>1 DEF Outstanding
  <2> QED
    BY <2>1, <2>2 DEF ReportInv
<1> QED
  BY <1>1, <1>2, <1>3, <1>4, <1>5, <1>6, NextCases

LEMMA ReportInitial == Init => ReportInv
<1> SUFFICES ASSUME Init PROVE ReportInv
  OBVIOUS
<1>1. Outstanding = {}
  BY DEF Init, PoolInit, Outstanding
<1> QED
  BY <1>1 DEF Init, ReportInv, Idle

(* The central system is told the status a connector has: m_mutex, held    *)
(* from the change to the posting, is enough, whatever the number of       *)
(* callers and workers, as long as the notifications of one connector do   *)
(* not overtake one another in the pool.                                   *)
THEOREM ReportCorrect == Spec => []ReportedUnlessCrowded
<1>1. ReportInv => ReportedUnlessCrowded
  BY DEF ReportInv, ReportedUnlessCrowded, Setting, Unreported
<1> QED
  BY <1>1, TypeInit, TypeStep, PoolInitial, PoolStep, ReportInitial, ReportStep, PTL DEF Spec

-----------------------------------------------------------------------------
(* Rows and memory.                                                        *)

(* A save that has still to execute the statement, and one that has reset  *)
(* it.                                                                     *)
Pending(p) == thr[p].pc \in {"reset", "bind", "exec"}
Binding(p) == thr[p].pc \in {"bind", "exec"}

Agree(c) == ColumnsOf(Loaded(row[c])) = ColumnsOf(mem[c])

(* What SaveBind binds to parameter j.                                     *)
Value(p, j) == IF j = 5 THEN thr[p].c ELSE mem[thr[p].c][Order[j]]

(* A save that is alone has the statement to itself.                       *)
AloneInv ==
  \A p \in Callers : InSave(p) /\ thr[p].alone =>
    /\ \A q \in Callers \ {p} : ~InSave(q)
    /\ thr[p].pc = "reset" => thr[p].k = 1
    /\ thr[p].pc = "bind" => /\ stmt.ready
                             /\ \A j \in 1 .. 5 : j < thr[p].k => stmt.args[Order[j]] = Value(p, j)
    /\ thr[p].pc = "exec" => \A j \in 1 .. 5 : stmt.args[Order[j]] = Value(p, j)

(* The row that a save would write is its own, that of another save which  *)
(* is still to execute, or one that is tainted already.                    *)
IdInv ==
  \A q \in Callers : Binding(q) =>
    \/ stmt.args["id"] = Null
    \/ stmt.args["id"] \in tainted
    \/ \E r \in Callers : Binding(r) /\ thr[r].c = stmt.args["id"]

RowInv ==
  /\ boot.phase \in {"count", "delete"} => boot.left = Ids
  /\ Up => \A c \in Ids \ tainted :
             \/ row[c] = Null
             \/ Agree(c)
             \/ \E p \in Callers : Pending(p) /\ thr[p].c = c
  /\ boot.phase = "load" => \A c \in Ids \ (boot.left \cup tainted) : Agree(c)
  /\ boot.phase = "insert" => \A c \in Ids : IF c \in boot.left THEN row[c] = Null ELSE Agree(c)

(* A start without an error finds all rows, and loads them.                *)
StartInv ==
  ~Up /\ ~bootFault => \A c \in Ids : safe[c] # Null =>
    /\ boot.phase \in {"count", "load"}
    /\ \A d \in Ids : row[d] # Null
    /\ ColumnsOf(Loaded(row[c])) = safe[c]
    /\ boot.phase = "load" /\ c \notin boot.left => mem[c] = Loaded(row[c])

SaveInv == AloneInv /\ IdInv /\ RowInv

(* What is written of a connector is read back.                            *)
LEMMA ColumnsReadBack == \A m \in Connector : ColumnsOf(Loaded(ColumnsOf(m))) = ColumnsOf(m)
BY ConnectorAssumption DEF Connector, ColumnsOf, Columns, Loaded, DefaultConnector

LEMMA BeginSaveThreads ==
  ASSUME NEW p \in Callers, NEW c \in Ids, NEW target, TypeInv, BeginSave(p, c, target)
  PROVE  /\ thr'[p].pc = "reset" /\ thr'[p].c = c /\ thr'[p].k = 1
         /\ thr'[p].alone => \A q \in Callers \ {p} : ~InSave(q)
         /\ \A q \in Callers \ {p} : /\ thr'[q].pc = thr[q].pc /\ thr'[q].c = thr[q].c
                                     /\ InSave(q) => ~thr'[q].alone
<1>1. \A q \in Callers : thr[q] \in Thread
  BY DEF TypeInv
<1> QED
  BY <1>1 DEF BeginSave, Thread

(* A step after which each thread is where it was, or in no save before    *)
(* and after it.                                                           *)
LEMMA SaveKept ==
  ASSUME SaveInv, UNCHANGED <<mem, row, stmt, boot, tainted>>,
         \A q \in Callers : thr'[q] = thr[q] \/ (~InSave(q) /\ ~InSave(q)')
  PROVE  SaveInv'
<1>1. \A q \in Callers : /\ InSave(q)' <=> InSave(q)
                         /\ Pending(q)' <=> Pending(q)
                         /\ Binding(q)' <=> Binding(q)
                         /\ InSave(q) => thr'[q] = thr[q]
  BY DEF InSave, Pending, Binding
<1>2. AloneInv'
  BY <1>1 DEF SaveInv, AloneInv, Value
<1>3. IdInv'
  BY <1>1 DEF SaveInv, IdInv, Binding, InSave
<1>4. RowInv'
  BY <1>1 DEF SaveInv, RowInv, Pending, InSave, Agree, Up
<1> QED
  BY <1>2, <1>3, <1>4 DEF SaveInv

(* The update functions up to the save.                                    *)
LEMMA SaveBegins ==
  ASSUME TypeInv, SaveInv, NEW p \in Callers, NEW c \in Ids, NEW target,
         thr[p] = Idle, Up, BeginSave(p, c, target),
         UNCHANGED <<row, stmt, boot, tainted>>,
         \A d \in Ids \ {c} : mem'[d] = mem[d]
  PROVE  SaveInv'
<1>1. /\ thr'[p].pc = "reset" /\ thr'[p].c = c /\ thr'[p].k = 1
      /\ thr'[p].alone => \A q \in Callers \ {p} : ~InSave(q)
      /\ \A q \in Callers \ {p} : /\ thr'[q].pc = thr[q].pc /\ thr'[q].c = thr[q].c
                                  /\ InSave(q) => ~thr'[q].alone
  BY BeginSaveThreads
<1>2. thr[p].pc = "idle"
  BY DEF Idle
<1>3. \A q \in Callers \ {p} : /\ InSave(q)' <=> InSave(q)
                               /\ Pending(q)' <=> Pending(q)
                               /\ Binding(q)' <=> Binding(q)
  BY <1>1 DEF InSave, Pending, Binding
<1>4. ~Binding(p) /\ ~Binding(p)' /\ ~Pending(p) /\ Pending(p)'
  BY <1>1, <1>2 DEF Binding, Pending
<1>5. AloneInv'
  BY <1>1, <1>3 DEF AloneInv
<1>6. IdInv'
  BY <1>1, <1>3, <1>4 DEF SaveInv, IdInv
<1>7. RowInv'
  <2>1. \A d \in Ids \ {c} : Agree(d)' <=> Agree(d)
    BY DEF Agree
  <2> QED
    BY <1>1, <1>3, <1>4, <2>1 DEF SaveInv, RowInv, Up
<1> QED
  BY <1>5, <1>6, <1>7 DEF SaveInv

LEMMA CallSave ==
  ASSUME TypeInv, SaveInv, NEW p \in Callers, NEW c \in Ids
  PROVE  /\ \A s \in Targets, force \in BOOLEAN : UpdateStatus(p, c, s, force) => SaveInv'
         /\ \A m \in Connector : UpdateUnlocked(p, c, m) => SaveInv'
<1>1. ASSUME NEW s \in Targets, NEW force \in BOOLEAN, UpdateStatus(p, c, s, force)
      PROVE  SaveInv'
  <2>1. thr[p] = Idle /\ Up /\ UNCHANGED <<row, stmt, boot, tainted>>
    BY <1>1 DEF UpdateStatus, Call, dbVars, history
  <2>2. CASE mem[c].status # s
    <3>1. BeginSave(p, c, s) /\ \A d \in Ids \ {c} : mem'[d] = mem[d]
      BY <1>1, <2>2 DEF UpdateStatus, TypeInv
    <3> QED
      BY <2>1, <3>1, SaveBegins
  <2>3. CASE mem[c].status = s
    <3> DEFINE t == [Idle EXCEPT !.pc = "post", !.c = c, !.target = s, !.n = ops']
    <3>1. t.pc = "post" /\ Idle.pc = "idle"
      BY DEF Idle
    <3>2. thr' = [thr EXCEPT ![p] = t] /\ DOMAIN thr = Callers /\ mem' = mem
      BY <1>1, <2>3 DEF UpdateStatus, TypeInv
    <3> HIDE DEF t
    <3>3. \A q \in Callers : thr'[q] = thr[q] \/ (~InSave(q) /\ ~InSave(q)')
      BY <2>1, <3>1, <3>2 DEF InSave
    <3> QED
      BY <2>1, <3>2, <3>3, SaveKept
  <2> QED
    BY <2>2, <2>3
<1>2. ASSUME NEW m \in Connector, UpdateUnlocked(p, c, m)
      PROVE  SaveInv'
  <2>1. /\ thr[p] = Idle /\ Up /\ BeginSave(p, c, None)
        /\ UNCHANGED <<row, stmt, boot, tainted>>
        /\ \A d \in Ids \ {c} : mem'[d] = mem[d]
    BY <1>2 DEF UpdateUnlocked, Call, dbVars, history, TypeInv
  <2> QED
    BY <2>1, SaveBegins
<1> QED
  BY <1>1, <1>2

(* Binding one parameter of a statement that is ready leaves the others.   *)
LEMMA BoundArgs ==
  ASSUME NEW s \in [ready : BOOLEAN, args : Args], NEW v, NEW k \in 1 .. 5
  PROVE  /\ BindQuery(s, Order[k], v).ready = s.ready
         /\ s.ready => BindQuery(s, Order[k], v).args[Order[k]] = v
         /\ \A j \in 1 .. 5 : j # k => BindQuery(s, Order[k], v).args[Order[j]] = s.args[Order[j]]
         /\ k # 5 => BindQuery(s, Order[k], v).args["id"] = s.args["id"]
         /\ BindQuery(s, Order[k], v).args["id"] \in {s.args["id"], v}
<1>1. \A i, j \in 1 .. 5 : i # j => Order[i] # Order[j]
  BY OrderIs
<1>2. /\ Order[k] \in {"status", "transaction", "reservation", "availability", "id"}
      /\ k # 5 => Order[k] # "id"
  BY OrderIs
<1>3. CASE s.ready
  <2> DEFINE b == BindQuery(s, Order[k], v)
             Names == {"status", "transaction", "reservation", "availability", "id"}
  <2>1. b.ready = s.ready /\ b.args = [s.args EXCEPT ![Order[k]] = v]
    BY <1>3 DEF BindQuery
  <2>2. DOMAIN s.args = Names /\ \A j \in 1 .. 5 : Order[j] \in Names
    BY OrderIs DEF Args
  <2>3. "id" \in Names
    OBVIOUS
  <2> HIDE DEF b, Names
  <2>4. \A x \in Names : b.args[x] = IF x = Order[k] THEN v ELSE s.args[x]
    BY <2>1, <2>2
  <2>5. /\ b.ready = s.ready /\ b.args[Order[k]] = v
        /\ \A j \in 1 .. 5 : j # k => b.args[Order[j]] = s.args[Order[j]]
        /\ k # 5 => b.args["id"] = s.args["id"]
        /\ b.args["id"] \in {s.args["id"], v}
    BY <1>1, <1>2, <2>1, <2>2, <2>3, <2>4
  <2> QED
    BY <2>5 DEF b
<1>4. CASE ~s.ready
  BY <1>4 DEF BindQuery
<1> QED
  BY <1>3, <1>4

LEMMA CallerSave ==
  ASSUME TypeInv, SaveInv, NEW p \in Callers, CallerStep(p)
  PROVE  SaveInv'
<1>0. /\ thr[p] \in Thread /\ DOMAIN thr = Callers /\ thr[p].c \in Ids /\ Up
      /\ stmt \in [ready : BOOLEAN, args : Args]
  BY DEF CallerStep, SaveReset, SaveBind, SaveExec, SaveFails, SaveClear, Post, TypeInv,
         Working, Idle
<1>1. CASE SaveReset(p)
  <2>1. /\ thr[p].pc = "reset" /\ thr'[p].pc = "bind" /\ thr'[p].c = thr[p].c
        /\ thr'[p].k = thr[p].k /\ thr'[p].alone = thr[p].alone
        /\ \A q \in Callers \ {p} : thr'[q] = thr[q]
        /\ stmt'.ready /\ stmt'.args["id"] = Null
        /\ UNCHANGED <<mem, row, boot, tainted>>
    BY <1>0, <1>1 DEF SaveReset, Thread, ResetQuery, Prepared, Args, history
  <2>2. \A q \in Callers : /\ InSave(q)' <=> InSave(q)
                           /\ Pending(q)' <=> Pending(q)
                           /\ thr'[q].c = thr[q].c
    BY <2>1 DEF InSave, Pending
  <2>3. AloneInv'
    <3> SUFFICES ASSUME NEW q \in Callers, InSave(q)', thr'[q].alone
                 PROVE  /\ \A r \in Callers \ {q} : ~InSave(r)'
                        /\ thr'[q].pc = "reset" => thr'[q].k = 1
                        /\ thr'[q].pc = "bind" =>
                             /\ stmt'.ready
                             /\ \A j \in 1 .. 5 : j < thr'[q].k
                                  => stmt'.args[Order[j]] = Value(q, j)'
                        /\ thr'[q].pc = "exec" =>
                             \A j \in 1 .. 5 : stmt'.args[Order[j]] = Value(q, j)'
      BY DEF AloneInv
    <3>1. InSave(q) /\ thr[q].alone
      BY <2>1, <2>2
    <3>2. q = p
      BY <2>1, <3>1 DEF SaveInv, AloneInv, InSave
    <3>3. thr'[q].k = 1
      BY <2>1, <3>1, <3>2 DEF SaveInv, AloneInv
    <3> QED
      BY <2>1, <2>2, <3>1, <3>2, <3>3 DEF SaveInv, AloneInv
  <2>4. IdInv'
    BY <2>1 DEF IdInv
  <2>5. RowInv'
    BY <2>1, <2>2 DEF SaveInv, RowInv, Agree, Up
  <2> QED
    BY <2>3, <2>4, <2>5 DEF SaveInv
<1>2. CASE SaveBind(p)
  <2> DEFINE k == thr[p].k
             v == IF Order[k] = "id" THEN thr[p].c ELSE mem[thr[p].c][Order[k]]
  <2>1. /\ thr[p].pc = "bind" /\ thr'[p] = AfterBind(p) /\ k \in 1 .. 5
        /\ \A q \in Callers \ {p} : thr'[q] = thr[q]
        /\ UNCHANGED <<mem, row, boot, tainted>>
    BY <1>0, <1>2 DEF SaveBind, Thread, history
  <2>2. /\ thr'[p].c = thr[p].c /\ thr'[p].alone = thr[p].alone
        /\ IF k = 5 THEN thr'[p].pc = "exec" ELSE thr'[p].pc = "bind" /\ thr'[p].k = k + 1
    BY <1>0, <2>1, OrderIs DEF AfterBind, Thread
  <2>3. stmt' = BindQuery(stmt, Order[k], v) /\ v = Value(p, k)
    BY <1>2, <2>1, OrderIs DEF SaveBind, Value
  <2> HIDE DEF k, v
  <2>4. /\ stmt'.ready = stmt.ready
        /\ stmt.ready => stmt'.args[Order[k]] = v
        /\ \A j \in 1 .. 5 : j # k => stmt'.args[Order[j]] = stmt.args[Order[j]]
        /\ k # 5 => stmt'.args["id"] = stmt.args["id"]
        /\ stmt'.args["id"] \in {stmt.args["id"], v}
    BY <1>0, <2>1, <2>3, BoundArgs
  <2>5. \A q \in Callers : /\ InSave(q)' <=> InSave(q)
                           /\ Pending(q)' <=> Pending(q)
                           /\ Binding(q)' <=> Binding(q)
                           /\ thr'[q].c = thr[q].c /\ thr'[q].alone = thr[q].alone
    BY <2>1, <2>2 DEF InSave, Pending, Binding
  <2>6. \A j \in 1 .. 5 : Value(p, j)' = Value(p, j)
    BY <2>1, <2>2 DEF Value
  <2>7. AloneInv'
    <3> SUFFICES ASSUME NEW q \in Callers, InSave(q)', thr'[q].alone
                 PROVE  /\ \A r \in Callers \ {q} : ~InSave(r)'
                        /\ thr'[q].pc = "reset" => thr'[q].k = 1
                        /\ thr'[q].pc = "bind" =>
                             /\ stmt'.ready
                             /\ \A j \in 1 .. 5 : j < thr'[q].k
                                  => stmt'.args[Order[j]] = Value(q, j)'
                        /\ thr'[q].pc = "exec" =>
                             \A j \in 1 .. 5 : stmt'.args[Order[j]] = Value(q, j)'
      BY DEF AloneInv
    <3>1. q = p /\ thr[p].alone
      BY <2>1, <2>5 DEF SaveInv, AloneInv, InSave
    <3>2. /\ \A r \in Callers \ {q} : ~InSave(r)
          /\ stmt.ready
          /\ \A j \in 1 .. 5 : j < k => stmt.args[Order[j]] = Value(p, j)
      BY <2>1, <3>1 DEF SaveInv, AloneInv, InSave, k
    <3>3. \A j \in 1 .. 5 : j <= k => stmt'.args[Order[j]] = Value(p, j)'
      BY <2>1, <2>3, <2>4, <2>6, <3>2
    <3>4. CASE k = 5
      BY <2>2, <2>5, <3>1, <3>2, <3>3, <3>4
    <3>5. CASE k # 5
      BY <2>1, <2>2, <2>4, <2>5, <3>1, <3>2, <3>3, <3>5
    <3> QED
      BY <3>4, <3>5
  <2>8. IdInv'
    <3>1. k = 5 => v = thr[p].c
      BY <2>3 DEF Value
    <3>2. Binding(p) /\ Binding(p)'
      BY <2>1, <2>5 DEF Binding
    <3> QED
      BY <2>1, <2>4, <2>5, <3>1, <3>2 DEF SaveInv, IdInv
  <2>9. RowInv'
    BY <2>1, <2>5 DEF SaveInv, RowInv, Agree, Up
  <2> QED
    BY <2>7, <2>8, <2>9 DEF SaveInv
<1>3. CASE SaveExec(p) /\ thr[p].alone
  <2>0. PICK c \in Ids : c = thr[p].c
    BY <1>0
  <2>1. /\ thr[p].pc = "exec" /\ thr'[p].pc = "clear"
        /\ \A q \in Callers \ {p} : thr'[q] = thr[q]
        /\ row' = [d \in Ids |-> IF d \in Matched THEN [f \in Columns |-> stmt.args[f]] ELSE row[d]]
        /\ tainted' = tainted \ {c}
        /\ UNCHANGED <<mem, boot>>
    BY <1>0, <1>3, <2>0 DEF SaveExec, Thread
  <2>2. /\ \A q \in Callers \ {p} : ~InSave(q) /\ ~InSave(q)'
        /\ \A j \in 1 .. 5 : stmt.args[Order[j]] = Value(p, j)
    BY <1>3, <2>1 DEF SaveInv, AloneInv, InSave
  <2>3. /\ stmt.args["id"] = c /\ stmt.args["status"] = mem[c]["status"]
        /\ stmt.args["transaction"] = mem[c]["transaction"]
        /\ stmt.args["reservation"] = mem[c]["reservation"]
        /\ stmt.args["availability"] = mem[c]["availability"]
    BY <2>0, <2>2, OrderIs DEF Value
  <2>4. [f \in Columns |-> stmt.args[f]] = ColumnsOf(mem[c])
    BY <2>3 DEF ColumnsOf, Columns
  <2>5. /\ \A d \in Ids \ {c} : row'[d] = row[d]
        /\ row'[c] = IF row[c] = Null THEN Null ELSE ColumnsOf(mem[c])
    BY <2>1, <2>3, <2>4 DEF Matched
  <2>6. row'[c] = Null \/ Agree(c)'
    BY <2>1, <2>5, ColumnsReadBack DEF Agree, TypeInv
  <2>7. AloneInv'
    BY <2>1, <2>2 DEF AloneInv, InSave
  <2>8. IdInv'
    BY <2>1, <2>2 DEF IdInv, Binding, InSave
  <2>9. RowInv'
    <3>1. \A d \in Ids \ {c} : Agree(d)' <=> Agree(d)
      BY <2>1, <2>5 DEF Agree
    <3>2. \A r \in Callers : Pending(r) => thr[r].c = c
      BY <2>0, <2>2 DEF Pending, InSave
    <3> QED
      BY <1>0, <2>1, <2>5, <2>6, <3>1, <3>2 DEF SaveInv, RowInv, Up
  <2> QED
    BY <2>7, <2>8, <2>9 DEF SaveInv
<1>4. CASE (SaveExec(p) /\ ~thr[p].alone) \/ SaveFails(p)
  <2> DEFINE c == thr[p].c
  <2>1. AfterSave(p).pc \in {"idle", "post"}
    BY <1>0 DEF AfterSave, Idle, Thread
  <2>2. /\ thr[p].pc = "exec" /\ thr'[p].pc \in {"clear", "idle", "post"}
        /\ thr'[p].pc = "clear" => ~thr'[p].alone
        /\ \A q \in Callers \ {p} : thr'[q] = thr[q]
        /\ tainted' = tainted \cup {c}
        /\ UNCHANGED <<mem, boot>>
        /\ stmt'.args = stmt.args
        /\ \A d \in Ids : row'[d] = row[d] \/ stmt.args["id"] = d
    BY <1>0, <1>4, <2>1 DEF SaveExec, SaveFails, Thread, SteppedQuery, Matched
  <2>3. \A q \in Callers \ {p} : /\ InSave(q)' <=> InSave(q)
                                 /\ Pending(q)' <=> Pending(q)
                                 /\ Binding(q)' <=> Binding(q)
    BY <2>2 DEF InSave, Pending, Binding
  <2>4. InSave(p) /\ Binding(p) /\ ~Binding(p)' /\ ~Pending(p)'
    BY <2>2 DEF InSave, Binding, Pending
  <2>5. \A q \in Callers : Binding(q) => Pending(q)
    BY DEF Binding, Pending
  <2>6. AloneInv'
    BY <2>2, <2>3, <2>4 DEF SaveInv, AloneInv, InSave
  <2>7. IdInv'
    BY <2>2, <2>3, <2>4 DEF SaveInv, IdInv
  <2> HIDE DEF c
  <2>8. RowInv'
    <3> SUFFICES ASSUME NEW d \in Ids \ tainted'
                 PROVE  \/ row'[d] = Null
                        \/ Agree(d)'
                        \/ \E r \in Callers : Pending(r)' /\ thr'[r].c = d
      BY <1>0, <2>2 DEF RowInv, Up
    <3>1. d # c /\ d \notin tainted /\ d # Null
      BY <2>2, ConnectorAssumption
    <3>2. CASE stmt.args["id"] = d
      <4>1. PICK r \in Callers : Binding(r) /\ thr[r].c = d
        BY <2>4, <3>1, <3>2 DEF SaveInv, IdInv
      <4>2. r # p
        BY <3>1, <4>1 DEF c
      <4> QED
        BY <2>2, <2>3, <2>5, <4>1, <4>2
    <3>3. CASE stmt.args["id"] # d
      <4>1. row'[d] = row[d] /\ mem'[d] = mem[d]
        BY <2>2, <3>3
      <4>2. CASE row[d] = Null \/ Agree(d)
        BY <4>1, <4>2 DEF Agree
      <4>3. CASE \E r \in Callers : Pending(r) /\ thr[r].c = d
        BY <2>2, <2>3, <3>1, <4>3 DEF c
      <4> QED
        BY <1>0, <3>1, <4>2, <4>3 DEF SaveInv, RowInv
    <3> QED
      BY <3>2, <3>3
  <2> QED
    BY <2>6, <2>7, <2>8 DEF SaveInv
<1>5. CASE SaveClear(p)
  <2>1. AfterSave(p).pc \in {"idle", "post"}
    BY <1>0 DEF AfterSave, Idle, Thread
  <2>2. /\ thr[p].pc = "clear" /\ thr'[p].pc \in {"idle", "post"}
        /\ \A q \in Callers \ {p} : thr'[q] = thr[q]
        /\ stmt'.args["id"] = Null
        /\ UNCHANGED <<mem, row, boot, tainted>>
    BY <1>0, <1>5, <2>1 DEF SaveClear, ResetQuery, Prepared, Args, history
  <2>3. \A q \in Callers \ {p} : /\ InSave(q)' <=> InSave(q)
                                 /\ Pending(q)' <=> Pending(q)
    BY <2>2 DEF InSave, Pending
  <2>4. InSave(p) /\ ~InSave(p)' /\ ~Pending(p) /\ ~Pending(p)'
    BY <2>2 DEF InSave, Pending
  <2>5. AloneInv'
    BY <2>2, <2>3, <2>4 DEF SaveInv, AloneInv
  <2>6. IdInv'
    BY <2>2 DEF IdInv
  <2>7. RowInv'
    BY <2>2, <2>3, <2>4 DEF SaveInv, RowInv, Agree, Up
  <2> QED
    BY <2>5, <2>6, <2>7 DEF SaveInv
<1>6. CASE Post(p)
  <2>1. /\ \A q \in Callers : thr'[q] = thr[q] \/ (~InSave(q) /\ ~InSave(q)')
        /\ UNCHANGED <<mem, row, stmt, boot, tainted>>
    BY <1>0, <1>6 DEF Post, Idle, InSave, dbVars
  <2> QED
    BY <2>1, SaveKept
<1> QED
  BY <1>1, <1>2, <1>3, <1>4, <1>5, <1>6 DEF CallerStep

(* The start: no thread is in a save.                                      *)
LEMMA BootSave ==
  ASSUME TypeInv, RowInv, BootNext
  PROVE  SaveInv'
<1>0. ~Up /\ NextId \in boot.left /\ NextId \in Ids
  <2>1. ~Up
    BY DEF BootNext, BootCount, BootLoad, BootLoadFails, BootDelete, BootDeleteFails,
           BootInsert, BootInsertFails, Up
  <2> QED
    BY <2>1, NextIdIn
<1>1. \A p \in Callers : thr'[p].pc = "idle"
  BY <1>0 DEF BootNext, BootCount, BootLoad, BootLoadFails, BootDelete, BootDeleteFails,
              BootInsert, BootInsertFails, BootStep, callVars, TypeInv, Idle
<1>2. AloneInv' /\ IdInv'
  BY <1>1 DEF AloneInv, IdInv, InSave, Binding
<1>3. RowInv'
  <2>1. ASSUME NEW failed \in BOOLEAN, BootCount(failed) PROVE RowInv'
    <3>1. boot'.phase \in {"load", "delete"} /\ boot'.left = Ids
      BY <2>1 DEF BootCount, TypeInv, RowInv
    <3> QED
      BY <3>1 DEF RowInv, Up
  <2>2. CASE BootLoad \/ BootLoadFails
    <3>1. PICK i \in Ids : i = NextId
      BY <1>0
    <3>2. /\ boot.phase = "load" /\ UNCHANGED row
          /\ \A d \in Ids \ {i} : mem'[d] = mem[d] /\ (d \in tainted' <=> d \in tainted)
          /\ mem'[i] = Loaded(row[i]) \/ i \in tainted'
          /\ BootDone("load", i)
      BY <2>2, <3>1 DEF BootLoad, BootLoadFails, TypeInv
    <3>3. boot'.phase \in {"up", "load"} /\ boot'.left = boot.left \ {i}
      BY <3>2 DEF BootDone
    <3>4. \A d \in Ids \ (boot'.left \cup tainted') : Agree(d)'
      BY <3>2, <3>3 DEF RowInv, Agree
    <3>5. boot'.phase = "up" => boot'.left = {}
      BY <3>2 DEF BootDone
    <3> QED
      BY <3>3, <3>4, <3>5 DEF RowInv, Up
  <2>3. CASE BootDelete
    <3>1. /\ boot'.phase = "insert" /\ boot'.left = boot.left
          /\ row' = [c \in Ids |-> Null]
      BY <2>3 DEF BootDelete, TypeInv
    <3>2. boot.left = Ids
      BY <2>3 DEF BootDelete, RowInv
    <3> QED
      BY <3>1, <3>2 DEF RowInv, Up
  <2>4. CASE BootDeleteFails
    BY <2>4 DEF BootDeleteFails, RowInv, Up
  <2>5. CASE BootInsert
    <3>1. PICK i \in Ids : i = NextId
      BY <1>0
    <3>2. /\ boot.phase = "insert"
          /\ \A d \in Ids \ {i} : mem'[d] = mem[d] /\ row'[d] = row[d]
          /\ mem'[i] = DefaultConnector /\ row'[i] = ColumnsOf(DefaultConnector)
          /\ BootDone("insert", i)
      BY <2>5, <3>1 DEF BootInsert, TypeInv
    <3>3. boot'.phase \in {"up", "insert"} /\ boot'.left = boot.left \ {i}
      BY <3>2 DEF BootDone
    <3>4. Agree(i)'
      BY <3>2, ColumnsReadBack, DefaultIsConnector DEF Agree
    <3>5. \A d \in Ids \ {i} : Agree(d)' <=> Agree(d)
      BY <3>2 DEF Agree
    <3>6. \A d \in Ids : IF d \in boot'.left THEN row'[d] = Null ELSE Agree(d)'
      BY <3>2, <3>3, <3>4, <3>5 DEF RowInv
    <3> QED
      BY <3>3, <3>6 DEF RowInv, Up
  <2>6. CASE BootInsertFails
    <3>1. /\ boot.phase = "insert" /\ boot'.phase = "up" /\ UNCHANGED <<mem, row, tainted>>
      BY <2>6 DEF BootInsertFails
    <3>2. \A d \in Ids : row'[d] = Null \/ Agree(d)'
      BY <3>1 DEF RowInv, Agree
    <3> QED
      BY <3>1, <3>2 DEF RowInv, Up
  <2> QED
    BY <2>1, <2>2, <2>3, <2>4, <2>5, <2>6 DEF BootNext
<1> QED
  BY <1>2, <1>3 DEF SaveInv

LEMMA SaveStep == TypeInv /\ SaveInv /\ [Next]_vars => SaveInv'
<1> SUFFICES ASSUME TypeInv, SaveInv, [Next]_vars PROVE SaveInv'
  OBVIOUS
<1>1. ASSUME NEW p \in Callers, NEW c \in Ids,
             \/ \E s \in Targets, force \in BOOLEAN : UpdateStatus(p, c, s, force)
             \/ \E m \in Connector : UpdateUnlocked(p, c, m)
      PROVE  SaveInv'
  BY <1>1, CallSave
<1>2. ASSUME NEW p \in Callers, CallerStep(p) PROVE SaveInv'
  BY <1>2, CallerSave
<1>3. ASSUME NEW w \in Workers, WorkerStep(w) PROVE SaveInv'
  <2>1. UNCHANGED <<mem, row, stmt, thr, boot, tainted>>
    BY <1>3 DEF WorkerStep, TakeTask, Notify, NotifyDropped, WorkerExit, dbVars, callVars, history
  <2> QED
    BY <2>1, SaveKept
<1>4. CASE SetRegistrationStatus \/ Shutdown \/ UNCHANGED vars
  <2>1. UNCHANGED <<mem, row, stmt, thr, boot, tainted>>
    BY <1>4 DEF SetRegistrationStatus, Shutdown, vars, dbVars, callVars, history
  <2> QED
    BY <2>1, SaveKept
<1>5. CASE BootNext
  BY <1>5, BootSave DEF SaveInv
<1>6. CASE Crash
  <2>1. boot' = [phase |-> "count", left |-> Ids] /\ \A p \in Callers : thr'[p].pc = "idle"
    BY <1>6 DEF Crash, Idle
  <2> QED
    BY <2>1 DEF SaveInv, AloneInv, IdInv, RowInv, InSave, Binding, Up
<1> QED
  BY <1>1, <1>2, <1>3, <1>4, <1>5, <1>6, NextCases

LEMMA SaveInitial == Init => SaveInv
BY DEF Init, SaveInv, AloneInv, IdInv, RowInv, InSave, Binding, Idle, Up

(* What save leaves in the table: a connector whose last save was alone on *)
(* the statement and did not fail has the row that reads as it does in     *)
(* memory, for every number of connectors and of callers.                  *)
THEOREM RowsCorrect == Spec => []SavedAgrees
<1>1. SaveInv => SavedAgrees
  BY DEF SaveInv, RowInv, SavedAgrees, Agree, Pending, InSave
<1> QED
  BY <1>1, TypeInit, TypeStep, SaveInitial, SaveStep, PTL DEF Spec

-----------------------------------------------------------------------------
(* The next start.                                                         *)

LEMMA StartBoot ==
  ASSUME TypeInv, SaveInv, StartInv, BootNext
  PROVE  StartInv'
<1>0. ~Up /\ NextId \in boot.left /\ NextId \in Ids
  <2>1. ~Up
    BY DEF BootNext, BootCount, BootLoad, BootLoadFails, BootDelete, BootDeleteFails,
           BootInsert, BootInsertFails, Up
  <2> QED
    BY <2>1, NextIdIn
<1> SUFFICES ASSUME ~bootFault', NEW c \in Ids, safe'[c] # Null
             PROVE  /\ boot'.phase \in {"count", "load", "up"}
                    /\ \A d \in Ids : row'[d] # Null
                    /\ ColumnsOf(Loaded(row'[c])) = safe'[c]
                    /\ boot'.phase = "load" /\ c \notin boot'.left => mem'[c] = Loaded(row'[c])
  BY DEF StartInv, Up
<1>1. UNCHANGED <<safe, bootFault>>
  BY DEF BootNext, BootCount, BootLoad, BootLoadFails, BootDelete, BootDeleteFails,
         BootInsert, BootInsertFails, BootStep
<1>2. /\ boot.phase \in {"count", "load"}
      /\ \A d \in Ids : row[d] # Null
      /\ ColumnsOf(Loaded(row[c])) = safe[c]
      /\ boot.phase = "load" /\ c \notin boot.left => mem[c] = Loaded(row[c])
  BY <1>0, <1>1 DEF StartInv
<1>3. CASE BootCount(FALSE)
  <2>1. Count(FALSE) = Cardinality(Ids)
    <3>1. {d \in Ids : row[d] # Null} = Ids
      BY <1>2
    <3> QED
      BY <3>1 DEF Count
  <2>2. boot'.phase = "load" /\ boot'.left = Ids /\ UNCHANGED row
    BY <1>3, <2>1 DEF BootCount, TypeInv, SaveInv, RowInv
  <2> QED
    BY <1>1, <1>2, <2>2
<1>4. CASE BootLoad
  <2>1. PICK i \in Ids : i = NextId
    BY <1>0
  <2>2. /\ boot.phase = "load" /\ UNCHANGED row
        /\ \A d \in Ids \ {i} : mem'[d] = mem[d]
        /\ mem'[i] = Loaded(row[i])
        /\ BootDone("load", i)
    BY <1>4, <2>1 DEF BootLoad, TypeInv
  <2>3. boot'.phase \in {"up", "load"} /\ boot'.left = boot.left \ {i}
    BY <2>2 DEF BootDone
  <2> QED
    BY <1>1, <1>2, <2>2, <2>3
<1> QED
  BY <1>2, <1>3, <1>4 DEF BootNext, BootCount, BootLoadFails, BootDelete, BootDeleteFails,
     BootInsert, BootInsertFails

LEMMA StartStep == TypeInv /\ SaveInv /\ StartInv /\ [Next]_vars => StartInv'
<1> SUFFICES ASSUME TypeInv, SaveInv, StartInv, [Next]_vars PROVE StartInv'
  OBVIOUS
<1>1. CASE BootNext
  BY <1>1, StartBoot
<1>2. CASE Crash
  <2>1. boot'.phase = "count" /\ boot'.left = Ids /\ UNCHANGED row
    BY <1>2 DEF Crash
  <2>2. ASSUME NEW c \in Ids, safe'[c] # Null
        PROVE  (\A d \in Ids : row[d] # Null) /\ ColumnsOf(Loaded(row[c])) = safe'[c]
    <3>1. CASE Up
      <4>1. /\ c \notin tainted /\ \A d \in Ids : row[d] # Null
            /\ \A p \in Callers : ~(InSave(p) /\ thr[p].c = c)
            /\ safe'[c] = ColumnsOf(mem[c])
        BY <1>2, <2>2, <3>1 DEF Crash
      <4>2. Agree(c)
        BY <3>1, <4>1 DEF SaveInv, RowInv, Pending, InSave
      <4> QED
        BY <4>1, <4>2 DEF Agree
    <3>2. CASE ~Up
      BY <1>2, <2>2, <3>2 DEF Crash, StartInv
    <3> QED
      BY <3>1, <3>2
  <2> QED
    BY <2>1, <2>2 DEF StartInv
<1>3. CASE ~BootNext /\ ~Crash
  <2>1. UNCHANGED <<boot, safe, bootFault>> /\ (Up \/ UNCHANGED <<mem, row>>)
    <3>1. ASSUME NEW p \in Callers, NEW c \in Ids,
                 \/ \E s \in Targets, force \in BOOLEAN : UpdateStatus(p, c, s, force)
                 \/ \E m \in Connector : UpdateUnlocked(p, c, m)
          PROVE  UNCHANGED <<boot, safe, bootFault>> /\ Up
      BY <3>1 DEF UpdateStatus, UpdateUnlocked, Call, history
    <3>2. ASSUME NEW p \in Callers, CallerStep(p)
          PROVE  UNCHANGED <<boot, safe, bootFault>> /\ Up
      <4>1. Up
        BY <3>2 DEF CallerStep, SaveReset, SaveBind, SaveExec, SaveFails, SaveClear, Post,
                    TypeInv, Idle
      <4> QED
        BY <3>2, <4>1 DEF CallerStep, SaveReset, SaveBind, SaveExec, SaveFails, SaveClear, Post,
                          history
    <3>3. ASSUME NEW w \in Workers, WorkerStep(w)
          PROVE  UNCHANGED <<boot, safe, bootFault, mem, row>>
      BY <3>3 DEF WorkerStep, TakeTask, Notify, NotifyDropped, WorkerExit, dbVars, history
    <3>4. CASE SetRegistrationStatus \/ Shutdown \/ UNCHANGED vars
      BY <3>4 DEF SetRegistrationStatus, Shutdown, vars, dbVars, history
    <3> QED
      BY <1>3, <3>1, <3>2, <3>3, <3>4, NextCases
  <2> QED
    BY <2>1 DEF StartInv, Up
<1> QED
  BY <1>1, <1>2, <1>3

LEMMA StartInitial == Init => StartInv
BY DEF Init, StartInv

(* The step that completes a start.                                        *)
LEMMA StartRestores ==
  ASSUME TypeInv, SaveInv, StartInv, [Next]_vars, ~Up, Up', ~bootFault',
         NEW c \in Ids, safe[c] # Null
  PROVE  mem'[c] = [f \in DOMAIN mem[c] |-> IF f = "reserved" THEN "Rejected" ELSE safe[c][f]]
<1>1. BootNext
  <2>1. boot' # boot
    BY DEF Up
  <2>2. ~Crash
    BY DEF Crash, Up
  <2>3. \A p \in Callers : ~CallerStep(p)
    BY <2>1 DEF CallerStep, SaveReset, SaveBind, SaveExec, SaveFails, SaveClear, Post
  <2>4. \A w \in Workers : ~WorkerStep(w)
    BY <2>1 DEF WorkerStep, TakeTask, Notify, NotifyDropped, WorkerExit
  <2>5. ~SetRegistrationStatus /\ ~Shutdown /\ ~UNCHANGED vars
    BY <2>1 DEF SetRegistrationStatus, Shutdown, vars
  <2>6. \A p \in Callers, d \in Ids :
          /\ \A s \in Targets, force \in BOOLEAN : ~UpdateStatus(p, d, s, force)
          /\ \A m \in Connector : ~UpdateUnlocked(p, d, m)
    BY <2>1 DEF UpdateStatus, UpdateUnlocked
  <2> QED
    BY <2>2, <2>3, <2>4, <2>5, <2>6, NextCases
<1>2. ~bootFault
  BY <1>1 DEF BootNext, BootCount, BootLoad, BootLoadFails, BootDelete, BootDeleteFails,
              BootInsert, BootInsertFails
<1>3. /\ boot.phase \in {"count", "load"}
      /\ \A d \in Ids : row[d] # Null
      /\ ColumnsOf(Loaded(row[c])) = safe[c]
      /\ boot.phase = "load" /\ c \notin boot.left => mem[c] = Loaded(row[c])
  BY <1>2 DEF StartInv
<1>4. BootLoad
  <2>1. \A failed \in BOOLEAN : ~BootCount(failed)
    BY DEF BootCount, Up, TypeInv
  <2> QED
    BY <1>1, <1>3, <2>1 DEF BootNext, BootLoadFails, BootDelete, BootDeleteFails,
                            BootInsert, BootInsertFails
<1>5. boot.left = {NextId} /\ NextId \in Ids
  BY <1>4, NextIdIn DEF BootLoad, BootDone, Up
<1>6. mem'[c] = Loaded(row[c])
  BY <1>3, <1>4, <1>5 DEF BootLoad, TypeInv
<1>7. Loaded(row[c]) \in Connector /\ mem[c] \in Connector /\ Loaded(row[c]).reserved = "Rejected"
  BY <1>3, LoadedIsConnector DEF TypeInv, Loaded, DefaultConnector
<1>8. \A f \in Columns : Loaded(row[c])[f] = safe[c][f]
  BY <1>3 DEF ColumnsOf
<1> QED
  BY <1>6, <1>7, <1>8 DEF Connector, Columns

(* What was saved survives a crash, whatever the program was doing for the *)
(* other connectors when it ended.                                         *)
THEOREM RecoveryCorrect == Spec => Recovered
<1>1. TypeInv /\ SaveInv /\ StartInv /\ [Next]_vars =>
        [~Up /\ Up' /\ ~bootFault' =>
           \A c \in Ids : safe[c] # Null =>
             mem'[c] = [f \in DOMAIN mem[c] |->
                          IF f = "reserved" THEN "Rejected" ELSE safe[c][f]]]_vars
  BY StartRestores
<1> QED
  BY <1>1, TypeInit, TypeStep, SaveInitial, SaveStep, StartInitial, StartStep, PTL
     DEF Spec, Recovered
=============================================================================
