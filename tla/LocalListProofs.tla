-------------------------- MODULE LocalListProofs ---------------------------
(***************************************************************************)
(* What holds of the configuration and of the list's version for every     *)
(* number of workers, handlers, leaves, subscribers and requests.          *)
(***************************************************************************)
EXTENDS LocalList, FiniteSetTheorems, TLAPS

-----------------------------------------------------------------------------
(* The deferred save.                                                      *)

Task == {SaveTask} \cup {CbTask(s) : s \in Subscribers}

Waiting  == \E i \in DOMAIN tasks : tasks[i] = SaveTask
Running  == \E w \in Workers : doing[w] = SaveTask
SaveLive == Waiting \/ Running

(* Also before the list is initialised.                                    *)
Saved ==
  phase \in {"list", "up"} /\ doc # file => SaveLive \/ behind \/ cfgLock = "restore"

SaveInv ==
  /\ tasks \in Seq(Task)
  /\ DOMAIN doing = Workers
  /\ \A w \in Workers : doing[w] \in Task \cup {NoTask} \/ doing[w].kind = "call"
  /\ subs \subseteq Subscribers
  /\ pending => SaveLive
  /\ Saved

LEMMA TasksAreTasks == Task \subseteq PoolTask /\ SaveTask # NoTask
BY TaskAssumption DEF Task, PoolTask, SaveTask, CbTask

LEMMA TaskKinds ==
  \A t \in Task : /\ t.kind = "save" => t = SaveTask
                  /\ t.kind # "call"
BY DEF Task, SaveTask, CbTask

LEMMA LiveIsOutstanding == SaveLive => SaveTask \in Outstanding
BY TasksAreTasks DEF SaveLive, Waiting, Running, Outstanding

(* What no step of the handlers touches.                                   *)
LEMMA SaveUnchanged ==
  ASSUME SaveInv, UNCHANGED <<poolVars, doc, file, pending, subs, cfgLock, phase, behind>>
  PROVE  SaveInv'
BY DEF SaveInv, Saved, SaveLive, Waiting, Running, poolVars

LEMMA SaveInit == Init => SaveInv
<1> SUFFICES ASSUME Init PROVE SaveInv
  OBVIOUS
<1>1. tasks = <<>> /\ pending = FALSE /\ phase = "load" /\ subs = {}
  BY DEF Init, CfgInit, PoolInit
<1>2. doing = [w \in Workers |-> NoTask]
  BY DEF Init, CfgInit, PoolInit
<1>3. tasks \in Seq(Task)
  BY <1>1
<1> QED
  BY <1>1, <1>2, <1>3 DEF SaveInv, Saved

LEMMA TakeSave ==
  ASSUME SaveInv, NEW w \in Workers, TakeTask(w)
  PROVE  SaveInv'
<1>1. /\ tasks \in Seq(Task) /\ tasks # <<>>
      /\ doing[w] = NoTask
      /\ doing' = [doing EXCEPT ![w] = Head(tasks)]
      /\ tasks' = Tail(tasks)
      /\ DOMAIN doing = Workers
  BY DEF TakeTask, Take, SaveInv
<1>2. UNCHANGED <<doc, file, pending, subs, cfgLock, phase, behind>>
  BY DEF TakeTask, cfgVars
<1>3. Head(tasks) \in Task /\ tasks' \in Seq(Task)
  BY <1>1
<1>4. SaveLive => SaveLive'
  <2>1. ASSUME Running PROVE Running'
    BY <1>1, <2>1, TasksAreTasks DEF Running
  <2>2. ASSUME NEW i \in DOMAIN tasks, tasks[i] = SaveTask PROVE SaveLive'
    <3>1. CASE i = 1
      BY <1>1, <2>2, <3>1 DEF SaveLive, Running
    <3>2. CASE i # 1
      <4>1. /\ Len(tasks) \in Nat /\ DOMAIN tasks = 1 .. Len(tasks)
            /\ DOMAIN Tail(tasks) = 1 .. Len(tasks) - 1
            /\ \A j \in 1 .. Len(tasks) - 1 : Tail(tasks)[j] = tasks[j + 1]
        BY <1>1
      <4>2. i - 1 \in DOMAIN tasks' /\ tasks'[i - 1] = SaveTask
        BY <1>1, <4>1, <2>2, <3>2
      <4> QED BY <4>2 DEF SaveLive, Waiting
    <3> QED BY <3>1, <3>2
  <2> QED BY <2>1, <2>2 DEF SaveLive, Waiting
<1>5. \A v \in Workers : doing'[v] \in Task \cup {NoTask} \/ doing'[v].kind = "call"
  BY <1>1, <1>3 DEF SaveInv
<1> QED
  BY <1>1, <1>2, <1>3, <1>4, <1>5 DEF SaveInv, Saved

(* A task other than a save ends or turns into a call.                     *)
LEMMA OtherTaskSave ==
  ASSUME SaveInv, NEW w \in Workers, NEW t,
         doing[w] # SaveTask,
         doing' = [doing EXCEPT ![w] = t],
         t = NoTask \/ t.kind = "call",
         UNCHANGED <<tasks, doc, file, pending, subs, cfgLock, phase, behind>>
  PROVE  SaveInv'
<1>1. SaveLive => SaveLive'
  BY DEF SaveInv, SaveLive, Waiting, Running
<1>2. \A v \in Workers : doing'[v] \in Task \cup {NoTask} \/ doing'[v].kind = "call"
  BY DEF SaveInv
<1> QED
  BY <1>1, <1>2 DEF SaveInv, Saved

(* A save that ends has written the document or failed.                    *)
LEMMA SaveEnds ==
  ASSUME SaveInv, NEW w \in Workers, Finish(w), ~pending',
         UNCHANGED <<doc, subs, phase>>, behind' \/ file' = doc
  PROVE  SaveInv'
<1>1. \A v \in Workers : doing'[v] \in Task \cup {NoTask} \/ doing'[v].kind = "call"
  BY DEF SaveInv, Finish
<1> QED
  BY <1>1 DEF SaveInv, Saved, Finish

LEMMA WorkerSave ==
  ASSUME SaveInv, NEW w \in Workers, WorkerStep(w)
  PROVE  SaveInv'
<1>1. CASE TakeTask(w)
  BY <1>1, TakeSave
<1>2. CASE SaveOpen(w)
  <2>1. doing[w] = SaveTask
    BY <1>2, TaskKinds DEF SaveOpen, Doing, SaveInv
  <2>2. SaveLive'
    BY <1>2, <2>1 DEF SaveOpen, poolVars, SaveLive, Running
  <2> QED
    BY <1>2, <2>2 DEF SaveOpen, poolVars, SaveInv, Saved
<1>3. CASE SaveOpenFails(w)
  BY <1>3, SaveEnds DEF SaveOpenFails
<1>4. CASE SaveWrite(w)
  BY <1>4, SaveEnds DEF SaveWrite
<1>5. CASE CopyNode(w)
  <2>1. doing[w] # SaveTask
    BY <1>5 DEF CopyNode, Doing, SaveTask
  <2>2. UNCHANGED <<tasks, doc, file, pending, subs, cfgLock, phase, behind>>
    BY <1>5 DEF CopyNode, Finish, cfgVars
  <2> DEFINE val == Node(doc, PathOf[doing[w].sub])
             c   == CallTask(doing[w].sub, val)
  <2>3. CASE val = Absent
    <3>1. doing' = [doing EXCEPT ![w] = NoTask]
      BY <1>5, <2>3 DEF CopyNode, Finish
    <3> QED
      BY <2>1, <2>2, <3>1, OtherTaskSave
  <2>4. CASE val # Absent
    <3>1. doing' = [doing EXCEPT ![w] = c]
      BY <1>5, <2>4 DEF CopyNode
    <3>2. c.kind = "call"
      BY DEF CallTask
    <3> HIDE DEF c
    <3> QED
      BY <2>1, <2>2, <3>1, <3>2, OtherTaskSave
  <2> QED
    BY <2>3, <2>4
<1>6. CASE CallBack(w)
  <2>1. doing[w] # SaveTask
    BY <1>6 DEF CallBack, Doing, SaveTask
  <2>2. /\ doing' = [doing EXCEPT ![w] = NoTask]
        /\ UNCHANGED <<tasks, doc, file, pending, subs, cfgLock, phase, behind>>
    BY <1>6 DEF CallBack, Finish
  <2> QED
    BY <2>1, <2>2, OtherTaskSave
<1>7. CASE WorkerExit(w)
  BY <1>7 DEF WorkerExit, Exit, cfgVars, SaveInv, Saved, SaveLive, Waiting, Running
<1> QED
  BY <1>1, <1>2, <1>3, <1>4, <1>5, <1>6, <1>7 DEF WorkerStep

(* setConfig: the document changes only together with a save on its way.   *)
LEMMA ChangeSave ==
  ASSUME SaveInv, NEW new, NEW paths, Change(new, paths)
  PROVE  SaveInv'
<1> DEFINE called == {s \in subs : PathOf[s] \in paths}
           rest   == IF pending THEN <<>> ELSE <<SaveTask>>
<1>1. PICK f \in Orders(called) : tasks' = tasks \o [i \in DOMAIN f |-> CbTask(f[i])] \o rest
  BY DEF Change
<1> DEFINE cbs == [i \in DOMAIN f |-> CbTask(f[i])]
<1>2. Cardinality(called) \in Nat
  <2>1. called \in SUBSET Subscribers
    BY DEF SaveInv
  <2> HIDE DEF called
  <2> QED
    BY <2>1, ConfigAssumption, FS_Subset, FS_CardinalityType
<1>3. cbs \in Seq(Task)
  <2>1. f \in [1 .. Cardinality(called) -> called]
    BY <1>1 DEF Orders
  <2>2. \A i \in 1 .. Cardinality(called) : CbTask(f[i]) \in Task
    BY <2>1 DEF Task, SaveInv
  <2>3. DOMAIN f = 1 .. Cardinality(called)
    BY <2>1
  <2> HIDE DEF called
  <2> QED
    BY <1>2, <2>2, <2>3
<1>4. rest \in Seq(Task)
  <2>1. SaveTask \in Task
    BY DEF Task
  <2>2. <<SaveTask>> \in Seq(Task) /\ <<>> \in Seq(Task)
    BY <2>1
  <2> QED
    BY <2>2
<1>5. tasks \in Seq(Task) /\ tasks' = tasks \o cbs \o rest
  BY <1>1 DEF SaveInv
<1> HIDE DEF cbs, rest
<1>6. tasks' \in Seq(Task)
  BY <1>3, <1>4, <1>5
<1>7. SaveLive'
  <2>1. CASE pending
    <3>1. CASE Running
      BY <3>1 DEF Change, SaveLive, Running
    <3>2. CASE Waiting
      <4>1. PICK i \in DOMAIN tasks : tasks[i] = SaveTask
        BY <3>2 DEF Waiting
      <4>2. i \in DOMAIN tasks' /\ tasks'[i] = SaveTask
        BY <1>3, <1>4, <1>5, <4>1
      <4> QED
        BY <4>2 DEF SaveLive, Waiting
    <3> QED
      BY <2>1, <3>1, <3>2 DEF SaveInv, SaveLive
  <2>2. CASE ~pending
    <3>1. rest = <<SaveTask>>
      BY <2>2 DEF rest
    <3> DEFINE n == Len(tasks \o cbs)
    <3>2. tasks \o cbs \in Seq(Task) /\ n \in Nat
      BY <1>3, <1>5
    <3>3. n + 1 \in DOMAIN tasks' /\ tasks'[n + 1] = SaveTask
      BY <1>5, <3>1, <3>2
    <3> QED
      BY <3>3 DEF SaveLive, Waiting
  <2> QED
    BY <2>1, <2>2
<1> QED
  BY <1>6, <1>7 DEF Change, SaveInv, Saved

LEMMA HandlerSave ==
  ASSUME SaveInv, NEW h \in Handlers, HandlerStep(h)
  PROVE  SaveInv'
<1>1. CASE SetVersion(h)
  BY <1>1, ChangeSave DEF SetVersion, SetLeaf
<1>2. CASE ~SetVersion(h)
  <2>1. UNCHANGED <<poolVars, cfgVars>>
    BY <1>2 DEF HandlerStep, SendList, FullClear, InsertReset, BindTag, BindInfo, StmtStep,
                InsertExec, InsertFails, FullDone, PartialUpdate, SetVersionFails, AssignVersion
  <2> QED
    BY <2>1, SaveUnchanged DEF cfgVars
<1> QED
  BY <1>1, <1>2

LEMMA ConfigSave ==
  ASSUME SaveInv, ConfigStep
  PROVE  SaveInv'
<1>1. CASE \E s \in Subscribers : Subscribe(s) \/ Unsubscribe(s)
  BY <1>1 DEF Subscribe, Unsubscribe, poolVars, SaveInv, Saved, SaveLive, Waiting, Running
<1>2. CASE \E w \in Workers : WorkerStep(w)
  BY <1>2, WorkerSave
<1>3. CASE Restore
  BY <1>3 DEF Restore, poolVars, SaveInv, Saved, SaveLive, Waiting, Running
<1>4. CASE BootLoad
  BY <1>4 DEF BootLoad, poolVars, SaveInv, Saved, SaveLive, Waiting, Running
<1>5. CASE BootWrite
  BY <1>5 DEF BootWrite, poolVars, SaveInv, Saved, SaveLive, Waiting, Running
<1>6. CASE Shutdown
  BY <1>6 DEF Shutdown, StopPool, cfgVars, SaveInv, Saved, SaveLive, Waiting, Running
<1> QED
  BY <1>1, <1>2, <1>3, <1>4, <1>5, <1>6 DEF ConfigStep

LEMMA SaveStep == SaveInv /\ [Next]_vars => SaveInv'
<1> SUFFICES ASSUME SaveInv, [Next]_vars PROVE SaveInv'
  OBVIOUS
<1>1. CASE InitList
  BY <1>1 DEF InitList, poolVars, SaveInv, Saved, SaveLive, Waiting, Running
<1>2. CASE \E h \in Handlers : HandlerStep(h)
  BY <1>2, HandlerSave
<1>3. CASE OthersSet
  BY <1>3, ChangeSave DEF OthersSet, SetByOthers, SetAll, SetSection, SetLeaf
<1>4. CASE ConfigStep
  BY <1>4, ConfigSave
<1>5. CASE Crash
  <2>1. /\ tasks' = <<>> /\ ~pending' /\ phase' = "load" /\ subs' = {}
        /\ doing' = [w \in Workers |-> NoTask]
    BY <1>5 DEF Crash, CfgCrash
  <2>2. tasks' \in Seq(Task)
    BY <2>1
  <2> QED
    BY <2>1, <2>2 DEF SaveInv, Saved
<1>6. CASE UNCHANGED vars
  BY <1>6, SaveUnchanged DEF vars, cfgVars
<1> QED
  BY <1>1, <1>2, <1>3, <1>4, <1>5, <1>6 DEF Next

(* No change of the configuration is lost on the way to the cached file:   *)
(* what setConfig left unsaved always has a save task waiting or running,  *)
(* unless a write failed or restoreConfig hangs, for every number of       *)
(* workers and callers.                                                    *)
THEOREM SaveCorrect == Spec => []SavePending
<1>1. SaveInv => SavePending
  BY LiveIsOutstanding DEF SaveInv, Saved, SavePending, Up
<1> QED
  BY <1>1, SaveInit, SaveStep, PTL DEF Spec

-----------------------------------------------------------------------------
(* The two copies of the version.                                          *)

Pc == {"idle", "diff", "clear", "reset", "tag", "info", "exec", "final", "config", "assign"}

Handler == [pc : Pc, req : Request, i : Nat, ok : BOOLEAN, alone : BOOLEAN]

Assigning(h) == han[h].pc = "assign"

Agreed == Up /\ ~diverged => version = VersionIn(doc) \/ \E h \in Handlers : Assigning(h)

(* The configuration already holds what a handler is about to assign.      *)
Ahead == ~diverged => \A h \in Handlers :
                        Assigning(h) => doc[Ver] = Number(han[h].req.version)

VersionInv ==
  /\ han \in [Handlers -> Handler]
  /\ DOMAIN doc = Leaves
  /\ diverged \in BOOLEAN
  /\ ~Up => \A h \in Handlers : han[h].pc = "idle"
  /\ Agreed
  /\ Ahead

LEMMA RestingHandler == Resting \in Handler
<1>1. <<>> \in Seq(Record)
  OBVIOUS
<1>2. NoReq \in Request
  BY <1>1 DEF NoReq, Request
<1> QED
  BY <1>2 DEF Resting, Handler, Pc

LEMMA VersionRead == \A n \in Nat : \A d : d[Ver] = Number(n) => VersionIn(d) = n
BY ConfigAssumption DEF VersionIn, Number, Value

(* A step in which no handler comes to, or leaves, its last assignment.    *)
LEMMA VersionQuiet ==
  ASSUME VersionInv, Up,
         han' \in [Handlers -> Handler],
         \A g \in Handlers : /\ Assigning(g)' <=> Assigning(g)
                             /\ Assigning(g) => han'[g].req = han[g].req,
         UNCHANGED <<doc, version, phase, diverged>>
  PROVE  VersionInv'
BY DEF VersionInv, Agreed, Ahead, Assigning, Up, VersionIn

LEMMA OneHandler ==
  ASSUME VersionInv, Up, NEW h \in Handlers, NEW new \in Handler,
         han' = [han EXCEPT ![h] = new],
         new.pc # "assign", ~Assigning(h),
         UNCHANGED <<doc, version, phase, diverged>>
  PROVE  VersionInv'
<1>1. han' \in [Handlers -> Handler]
  BY DEF VersionInv
<1>2. \A g \in Handlers : /\ Assigning(g)' <=> Assigning(g)
                          /\ Assigning(g) => han'[g].req = han[g].req
  BY DEF VersionInv, Assigning
<1> QED
  BY <1>1, <1>2, VersionQuiet

(* What neither the document nor the handlers take part in.                *)
LEMMA VersionUnchanged ==
  ASSUME VersionInv, UNCHANGED <<doc, han, version, phase, diverged>>
  PROVE  VersionInv'
BY DEF VersionInv, Agreed, Ahead, Assigning, Up, VersionIn

LEMMA VersionInit == Init => VersionInv
<1> SUFFICES ASSUME Init PROVE VersionInv
  OBVIOUS
<1>1. /\ doc = Defaults /\ phase = "load" /\ diverged = FALSE
      /\ han = [h \in Handlers |-> Resting]
  BY DEF Init, CfgInit
<1>2. DOMAIN doc = Leaves
  BY <1>1, ConfigAssumption
<1> QED
  BY <1>1, <1>2, RestingHandler DEF VersionInv, Agreed, Ahead, Assigning, Up, Resting

LEMMA HandlerVersion ==
  ASSUME VersionInv, NEW h \in Handlers, HandlerStep(h)
  PROVE  VersionInv'
<1> USE DEF Goto, Rest
<1>0. han \in [Handlers -> Handler] /\ han[h] \in Handler
  BY DEF VersionInv
<1>1. Up
  <2>1. CASE \E r \in Requests : SendList(h, r)
    BY <2>1 DEF SendList, Call
  <2>2. CASE ~\E r \in Requests : SendList(h, r)
    <3>1. han[h].pc # "idle"
      BY <2>2 DEF HandlerStep, FullClear, InsertReset, BindTag, BindInfo, StmtStep,
                  InsertExec, InsertFails, FullDone, PartialUpdate, SetVersion,
                  SetVersionFails, AssignVersion
    <3> QED
      BY <3>1 DEF VersionInv
  <2> QED
    BY <2>1, <2>2
<1>2. ASSUME NEW r \in Requests, SendList(h, r) PROVE VersionInv'
  <2> DEFINE new == [Resting EXCEPT !.pc = IF r.full THEN "clear" ELSE "diff", !.req = r]
  <2>1. new \in Handler /\ new.pc # "assign"
    BY RestingHandler, ListAssumption DEF Handler, Pc
  <2>2. /\ han' = [han EXCEPT ![h] = new]
        /\ ~Assigning(h)
        /\ UNCHANGED <<doc, version, phase, diverged>>
    BY <1>2 DEF SendList, Assigning, cfgVars
  <2> HIDE DEF new
  <2> QED
    BY <1>1, <2>1, <2>2, OneHandler
<1>3. CASE FullClear(h)
  <2>1. PICK pc \in Pc, ok \in BOOLEAN : BeginFull(h, pc, ok) /\ pc # "assign"
    BY <1>3 DEF FullClear, FirstRecord, Pc
  <2>2. han' \in [Handlers -> Handler]
    BY <1>0, <2>1 DEF BeginFull, Handler, Pc
  <2>3. \A g \in Handlers : /\ Assigning(g)' <=> Assigning(g)
                            /\ Assigning(g) => han'[g].req = han[g].req
    BY <1>0, <1>3, <2>1 DEF BeginFull, Handler, Assigning, FullClear
  <2>4. UNCHANGED <<doc, version, phase, diverged>>
    BY <1>3 DEF FullClear, cfgVars
  <2> QED
    BY <1>1, <2>2, <2>3, <2>4, VersionQuiet
<1>4. ASSUME NEW pc, NEW new, NEW next \in Pc,
             StmtStep(h, pc, new, next), pc # "assign", next # "assign"
      PROVE  VersionInv'
  <2> DEFINE moved == [han[h] EXCEPT !.pc = next]
  <2>1. moved \in Handler /\ moved.pc # "assign"
    BY <1>0, <1>4 DEF Handler, Pc
  <2>2. /\ han' = [han EXCEPT ![h] = moved]
        /\ ~Assigning(h)
        /\ UNCHANGED <<doc, version, phase, diverged>>
    BY <1>4 DEF StmtStep, Assigning, cfgVars
  <2> HIDE DEF moved
  <2> QED
    BY <1>1, <2>1, <2>2, OneHandler
<1>5. CASE InsertReset(h) \/ BindTag(h) \/ BindInfo(h)
  BY <1>4, <1>5 DEF InsertReset, BindTag, BindInfo, Pc
<1>6. CASE InsertExec(h)
  <2>1. AfterInsert(h) \in Handler /\ AfterInsert(h).pc # "assign"
    <3>0. PICK n \in Nat : n = han[h].i + 1
      BY <1>0 DEF Handler
    <3> DEFINE more == [han[h] EXCEPT !.pc = "reset", !.i = n]
               last == [han[h] EXCEPT !.pc = "final"]
    <3>1. more \in Handler /\ more.pc # "assign"
      BY <1>0 DEF Handler, Pc
    <3>2. last \in Handler /\ last.pc # "assign"
      BY <1>0 DEF Handler, Pc
    <3>3. AfterInsert(h) \in {more, last}
      BY <3>0 DEF AfterInsert
    <3> HIDE DEF more, last
    <3> QED
      BY <3>1, <3>2, <3>3
  <2>2. /\ han' = [han EXCEPT ![h] = AfterInsert(h)]
        /\ ~Assigning(h)
        /\ UNCHANGED <<doc, version, phase, diverged>>
    BY <1>6 DEF InsertExec, Assigning, cfgVars
  <2> QED
    BY <1>1, <2>1, <2>2, OneHandler
<1>7. CASE InsertFails(h)
  <2> DEFINE new == [han[h] EXCEPT !.pc = "final", !.ok = FALSE]
  <2>1. new \in Handler /\ new.pc # "assign"
    BY <1>0 DEF Handler, Pc
  <2>2. /\ han' = [han EXCEPT ![h] = new]
        /\ ~Assigning(h)
        /\ UNCHANGED <<doc, version, phase, diverged>>
    BY <1>7 DEF InsertFails, Assigning, cfgVars
  <2> HIDE DEF new
  <2> QED
    BY <1>1, <2>1, <2>2, OneHandler
<1>8. ASSUME NEW new \in {Resting, [han[h] EXCEPT !.pc = "config"]},
             han' = [han EXCEPT ![h] = new], ~Assigning(h),
             UNCHANGED <<doc, version, phase, diverged>>
      PROVE  VersionInv'
  <2>1. new \in Handler /\ new.pc # "assign"
    BY <1>0, RestingHandler DEF Handler, Pc, Resting
  <2> QED
    BY <1>1, <1>8, <2>1, OneHandler
<1>9. CASE FullDone(h)
  BY <1>8, <1>9 DEF FullDone, Assigning, cfgVars
<1>10. CASE PartialUpdate(h)
  BY <1>8, <1>10 DEF PartialUpdate, Assigning, cfgVars
<1>11. CASE SetVersionFails(h)
  BY <1>8, <1>11 DEF SetVersionFails, Assigning, cfgVars
<1>12. CASE SetVersion(h)
  <2>1. /\ doc' = [doc EXCEPT ![Ver] = Number(han[h].req.version)]
        /\ han' = [han EXCEPT ![h].pc = "assign"]
        /\ diverged' = (\E g \in Handlers \ {h} : Assigning(g))
        /\ UNCHANGED phase
    BY <1>12 DEF SetVersion, SetLeaf, Change, Assigning
  <2>2. DOMAIN doc' = Leaves /\ doc'[Ver] = Number(han[h].req.version)
    BY <2>1, ListAssumption DEF VersionInv
  <2>3. han' \in [Handlers -> Handler] /\ han'[h].pc = "assign"
    BY <1>0, <2>1 DEF Handler, Pc
  <2>4. /\ han'[h].req = han[h].req
        /\ \A g \in Handlers \ {h} : han'[g] = han[g]
    BY <1>0, <2>1 DEF Handler, Pc
  <2>5. Ahead'
    BY <2>1, <2>2, <2>4 DEF Ahead, Assigning, Number
  <2>6. diverged' \in BOOLEAN
    BY <2>1
  <2> QED
    BY <1>1, <2>1, <2>2, <2>3, <2>5, <2>6 DEF VersionInv, Agreed, Assigning, Up
<1>13. CASE AssignVersion(h)
  <2>1. /\ han[h].pc = "assign"
        /\ version' = han[h].req.version
        /\ han' = [han EXCEPT ![h] = Resting]
        /\ UNCHANGED <<doc, phase, diverged>>
    BY <1>13 DEF AssignVersion, cfgVars
  <2>2. han' \in [Handlers -> Handler]
    BY <1>0, <2>1, RestingHandler
  <2>3. ~diverged => version' = VersionIn(doc)
    <3>1. han[h].req.version \in Nat
      BY <1>0 DEF Handler, Pc, Request
    <3> QED
      BY <2>1, <3>1, VersionRead DEF VersionInv, Ahead, Assigning
  <2>4. Agreed'
    BY <2>1, <2>3 DEF Agreed, VersionIn
  <2>5. Ahead'
    BY <1>0, <2>1 DEF VersionInv, Ahead, Assigning, Resting
  <2> QED
    BY <1>1, <2>1, <2>2, <2>4, <2>5 DEF VersionInv, Up
<1> QED
  BY <1>2, <1>3, <1>5, <1>6, <1>7, <1>9, <1>10, <1>11, <1>12, <1>13 DEF HandlerStep

LEMMA OthersVersion ==
  ASSUME VersionInv, OthersSet
  PROVE  VersionInv'
<1>1. UNCHANGED <<han, version, phase>> /\ diverged' = (diverged \/ doc'[Ver] # doc[Ver])
  BY DEF OthersSet, SetByOthers, SetAll, SetSection, SetLeaf, Change
<1>2. DOMAIN doc' = Leaves
  BY ConfigAssumption DEF VersionInv, OthersSet, SetByOthers, SetAll, SetSection, SetLeaf,
                          Change, WithSection, Doc
<1>3. ~diverged' => ~diverged /\ doc'[Ver] = doc[Ver] /\ VersionIn(doc') = VersionIn(doc)
  BY <1>1 DEF VersionInv, VersionIn
<1>4. diverged' \in BOOLEAN
  BY <1>1 DEF VersionInv
<1> QED
  BY <1>1, <1>2, <1>3, <1>4 DEF VersionInv, Agreed, Ahead, Assigning, Up, VersionIn

LEMMA ConfigVersion ==
  ASSUME VersionInv, ConfigStep
  PROVE  VersionInv'
<1>1. UNCHANGED <<han, version, diverged>>
  BY DEF ConfigStep, listVars
<1>2. CASE BootLoad \/ BootWrite
  <2>1. ~Up /\ ~Up'
    BY <1>2 DEF BootLoad, BootWrite, Up
  <2>2. DOMAIN doc' = Leaves
    BY <1>2 DEF BootLoad, BootWrite, Merge, VersionInv
  <2> QED
    BY <1>1, <2>1, <2>2 DEF VersionInv, Agreed, Ahead, Assigning
<1>3. CASE \E w \in Workers : WorkerStep(w)
  <2>1. UNCHANGED <<doc, phase>>
    BY <1>3 DEF WorkerStep, TakeTask, SaveOpen, SaveOpenFails, SaveWrite, CopyNode,
                CallBack, WorkerExit, cfgVars
  <2> QED
    BY <1>1, <2>1, VersionUnchanged
<1>4. CASE ~(BootLoad \/ BootWrite) /\ ~\E w \in Workers : WorkerStep(w)
  <2>1. UNCHANGED <<doc, phase>>
    BY <1>4 DEF ConfigStep, Subscribe, Unsubscribe, Restore, Shutdown, cfgVars
  <2> QED
    BY <1>1, <2>1, VersionUnchanged
<1> QED
  BY <1>2, <1>3, <1>4

LEMMA VersionStep == VersionInv /\ [Next]_vars => VersionInv'
<1> SUFFICES ASSUME VersionInv, [Next]_vars PROVE VersionInv'
  OBVIOUS
<1>1. CASE InitList
  BY <1>1 DEF InitList, VersionInv, Agreed, Ahead, Assigning, Up, VersionIn
<1>2. CASE \E h \in Handlers : HandlerStep(h)
  BY <1>2, HandlerVersion
<1>3. CASE OthersSet
  BY <1>3, OthersVersion
<1>4. CASE ConfigStep
  BY <1>4, ConfigVersion
<1>5. CASE Crash
  <2>1. /\ doc' = Defaults /\ phase' = "load" /\ diverged' = FALSE
        /\ han' = [h \in Handlers |-> Resting]
    BY <1>5 DEF Crash, CfgCrash
  <2>2. DOMAIN doc' = Leaves
    BY <2>1, ConfigAssumption
  <2> QED
    BY <2>1, <2>2, RestingHandler DEF VersionInv, Agreed, Ahead, Assigning, Up, Resting
<1>6. CASE UNCHANGED vars
  BY <1>6, VersionUnchanged DEF vars, cfgVars, listVars
<1> QED
  BY <1>1, <1>2, <1>3, <1>4, <1>5, <1>6 DEF Next

(* The version that GetLocalListVersion answers is the one that is         *)
(* persisted, whenever no handler of SendLocalList is between the two      *)
(* assignments and nobody else wrote the configuration: for every number   *)
(* of handlers, and across restarts.                                       *)
THEOREM VersionCorrect == Spec => []VersionsAgree
<1>1. VersionInv => VersionsAgree
  BY DEF VersionInv, Agreed, Assigning, VersionsAgree
<1> QED
  BY <1>1, VersionInit, VersionStep, PTL DEF Spec

-----------------------------------------------------------------------------
(* Types.                                                                  *)

CfgInv ==
  /\ doc \in Doc
  /\ file = Broken \/ file \in Doc
  /\ pending \in BOOLEAN
  /\ subs \subseteq Subscribers
  /\ cfgLock \in Workers \cup {"restore", Nobody}
  /\ phase \in {"load", "write", "list", "up"}
  /\ behind \in BOOLEAN
  /\ mixed \subseteq Subscribers
  /\ ops \in 0 .. MaxOps /\ faults \in 0 .. MaxFaults /\ crashes \in 0 .. MaxCrashes

LEMMA DefaultsIsDoc == Defaults \in Doc
BY ConfigAssumption DEF Doc

LEMMA CfgInitial == Init => CfgInv
<1> SUFFICES ASSUME Init PROVE CfgInv
  OBVIOUS
<1>1. ops \in 0 .. MaxOps /\ faults \in 0 .. MaxFaults /\ crashes \in 0 .. MaxCrashes
  BY ConfigAssumption DEF Init, CfgInit
<1> QED
  BY <1>1, DefaultsIsDoc DEF Init, CfgInit, CfgInv

LEMMA CountersType ==
  /\ CfgInv /\ Call => ops' \in 0 .. MaxOps /\ UNCHANGED <<faults, crashes>>
  /\ CfgInv /\ Fault => faults' \in 0 .. MaxFaults /\ UNCHANGED <<ops, crashes>>
BY ConfigAssumption DEF CfgInv, Call, Fault

LEMMA BoundsType ==
  ASSUME CfgInv, Call \/ Fault \/ UNCHANGED cfgBounds
  PROVE  ops' \in 0 .. MaxOps /\ faults' \in 0 .. MaxFaults /\ crashes' \in 0 .. MaxCrashes
<1>1. CASE Call \/ Fault
  BY <1>1, CountersType DEF CfgInv
<1>2. CASE UNCHANGED cfgBounds
  BY <1>2 DEF cfgBounds, CfgInv
<1> QED
  BY <1>1, <1>2

(* What initConfig and setConfig make of documents is a document.          *)
LEMMA MergeIsDoc == \A d \in Doc : Merge(d) \in Doc
BY ConfigAssumption DEF Merge, Doc

LEMMA LoadedIsDoc == CfgInv => LoadedOr(file, LoadedOr(DefaultFile, Defaults)) \in Doc
BY ConfigAssumption DEF LoadedOr, CfgInv, Doc

LEMMA ChangeType ==
  ASSUME CfgInv, NEW new \in Doc, NEW paths, Change(new, paths),
         Call \/ UNCHANGED cfgBounds
  PROVE  CfgInv'
<1>1. mixed' \subseteq subs
  BY DEF Change
<1>2. /\ doc' = new /\ pending' = TRUE /\ behind' = FALSE
      /\ UNCHANGED <<file, subs, cfgLock, phase>>
  BY DEF Change
<1> QED
  BY <1>1, <1>2, BoundsType DEF CfgInv

LEMMA LeafIsDoc ==
  ASSUME CfgInv, NEW l \in Leaves, NEW v \in Value
  PROVE  [doc EXCEPT ![l] = v] \in Doc
BY DEF CfgInv, Doc

LEMMA OthersType ==
  ASSUME CfgInv, SetByOthers
  PROVE  \E new \in Doc : \E paths : Change(new, paths) /\ Call
<1>1. PICK new \in NewDocs : \/ SetAll(new)
                             \/ \E s \in Sections : SetSection(s, new)
                             \/ \E l \in Leaves : new[l] # Absent /\ SetLeaf(l, new[l])
  BY DEF SetByOthers
<1>2. new \in Doc /\ Call
  BY ConfigAssumption DEF SetByOthers
<1>3. CASE SetAll(new)
  BY <1>2, <1>3 DEF SetAll
<1>4. ASSUME NEW s \in Sections, SetSection(s, new)
      PROVE  \E d \in Doc : \E paths : Change(d, paths)
  <2>1. WithSection(s, new) \in Doc
    BY <1>2 DEF CfgInv, WithSection, Doc
  <2> QED
    BY <1>4, <2>1 DEF SetSection
<1>5. ASSUME NEW l \in Leaves, new[l] # Absent, SetLeaf(l, new[l])
      PROVE  \E d \in Doc : \E paths : Change(d, paths)
  <2>1. new[l] \in Value
    BY <1>2, <1>5 DEF Doc
  <2> QED
    BY <1>5, <2>1, LeafIsDoc DEF SetLeaf
<1> QED
  BY <1>1, <1>2, <1>3, <1>4, <1>5

LEMMA ConfigType ==
  ASSUME CfgInv, ConfigStep
  PROVE  CfgInv'
<1>1. CASE \E s \in Subscribers : Subscribe(s) \/ Unsubscribe(s)
  <2>1. ops' \in 0 .. MaxOps /\ faults' \in 0 .. MaxFaults /\ crashes' \in 0 .. MaxCrashes
    BY <1>1, BoundsType DEF Subscribe, Unsubscribe
  <2> QED
    BY <1>1, <2>1 DEF Subscribe, Unsubscribe, CfgInv
<1>2. ASSUME NEW w \in Workers, WorkerStep(w) PROVE CfgInv'
  <2>1. ops' \in 0 .. MaxOps /\ faults' \in 0 .. MaxFaults /\ crashes' \in 0 .. MaxCrashes
    BY <1>2, BoundsType DEF WorkerStep, TakeTask, SaveOpen, SaveOpenFails, SaveWrite, CopyNode,
                            CallBack, WorkerExit
  <2> QED
    BY <1>2, <2>1 DEF WorkerStep, TakeTask, SaveOpen, SaveOpenFails, SaveWrite, CopyNode,
                      CallBack, WorkerExit, cfgVars, CfgInv
<1>3. CASE Restore
  <2>1. ops' \in 0 .. MaxOps /\ faults' \in 0 .. MaxFaults /\ crashes' \in 0 .. MaxCrashes
    BY <1>3, BoundsType DEF Restore
  <2> QED
    BY <1>3, <2>1 DEF Restore, CfgInv
<1>4. CASE BootLoad \/ BootWrite
  <2>1. ops' \in 0 .. MaxOps /\ faults' \in 0 .. MaxFaults /\ crashes' \in 0 .. MaxCrashes
    BY <1>4, BoundsType DEF BootLoad, BootWrite
  <2>2. doc' \in Doc
    BY <1>4, LoadedIsDoc, MergeIsDoc DEF BootLoad, BootWrite, CfgInv
  <2> QED
    BY <1>4, <2>1, <2>2 DEF BootLoad, BootWrite, CfgInv
<1>5. CASE Shutdown
  <2>1. ops' \in 0 .. MaxOps /\ faults' \in 0 .. MaxFaults /\ crashes' \in 0 .. MaxCrashes
    BY <1>5, BoundsType DEF Shutdown
  <2> QED
    BY <1>5, <2>1 DEF Shutdown, cfgVars, CfgInv
<1> QED
  BY <1>1, <1>2, <1>3, <1>4, <1>5 DEF ConfigStep

LEMMA CfgStep == CfgInv /\ VersionInv /\ [Next]_vars => CfgInv'
<1> SUFFICES ASSUME CfgInv, VersionInv, [Next]_vars PROVE CfgInv'
  OBVIOUS
<1>1. CASE InitList
  BY <1>1 DEF InitList, CfgInv, cfgBounds
<1>2. ASSUME NEW h \in Handlers, HandlerStep(h) PROVE CfgInv'
  <2>1. CASE SetVersion(h)
    <3>1. Number(han[h].req.version) \in Value /\ Ver \in Leaves
      BY ListAssumption DEF VersionInv, Handler, Request, Number, Value
    <3> QED
      BY <2>1, <3>1, LeafIsDoc, ChangeType DEF SetVersion, SetLeaf
  <2>2. CASE ~SetVersion(h)
    <3>1. /\ UNCHANGED cfgVars
          /\ Call \/ Fault \/ UNCHANGED cfgBounds
      BY <1>2, <2>2 DEF HandlerStep, SendList, FullClear, InsertReset, BindTag, BindInfo,
           StmtStep, InsertExec, InsertFails, FullDone, PartialUpdate, SetVersionFails,
           AssignVersion
    <3> QED
      BY <3>1, BoundsType DEF cfgVars, CfgInv
  <2> QED
    BY <2>1, <2>2
<1>3. CASE OthersSet
  BY <1>3, OthersType, ChangeType DEF OthersSet
<1>4. CASE ConfigStep
  BY <1>4, ConfigType
<1>5. CASE Crash
  <2>1. ops' \in 0 .. MaxOps /\ faults' \in 0 .. MaxFaults /\ crashes' \in 0 .. MaxCrashes
    BY <1>5, ConfigAssumption DEF Crash, CfgCrash, CfgInv
  <2> QED
    BY <1>5, <2>1, DefaultsIsDoc DEF Crash, CfgCrash, CfgInv
<1>6. CASE UNCHANGED vars
  BY <1>6 DEF vars, cfgVars, cfgBounds, CfgInv
<1> QED
  BY <1>1, <1>2, <1>3, <1>4, <1>5, <1>6 DEF Next

-----------------------------------------------------------------------------
(* The table of the list.                                                  *)

Insert == [ready : BOOLEAN, args : [tag : Tags \cup {Null}, info : Infos \cup {Null}]]

Inserting(h) == han[h].pc \in {"reset", "tag", "info", "exec"}

(* A handler is at a record of its list, and begins with the first.        *)
Placed(x) == /\ x.pc = "clear" => x.i = 1
             /\ x.pc \in {"reset", "tag", "info", "exec"} => x.i \in DOMAIN x.req.list

(* The table consists of the first n records.                              *)
Holds(list, n) ==
  /\ \A j \in 1 .. n : table[list[j].tag] = list[j].info
  /\ \A t \in Tags : (\A j \in 1 .. n : list[j].tag # t) => table[t] = Absent

(* A full update that has met no other has the table and the statement to  *)
(* itself, and has come as far as its counter says.                        *)
Alone(h) ==
  Updating(h) /\ han[h].alone =>
    /\ \A g \in Handlers \ {h} : ~Updating(g)
    /\ Inserting(h) => Holds(han[h].req.list, han[h].i - 1)
    /\ han[h].pc = "tag"  => stmt.ready
    /\ han[h].pc = "info" => stmt.ready /\ stmt.args["tag"] = Rec(h).tag
    /\ han[h].pc = "exec" => stmt.args["tag"] = Rec(h).tag /\ stmt.args["info"] = Rec(h).info
    /\ han[h].pc = "final" /\ han[h].ok => Holds(han[h].req.list, Len(han[h].req.list))

TableInv ==
  /\ table \in [Tags -> Infos \cup {Absent, Null}]
  /\ stmt \in Insert
  /\ torn \in BOOLEAN
  /\ \A h \in Handlers : /\ Placed(han[h])
                         /\ Updating(h) => torn
                         /\ Alone(h)
  /\ ~torn => table = listOf

LEMMA EmptyIsTable == EmptyTable \in [Tags -> Infos \cup {Absent, Null}]
BY DEF EmptyTable

LEMMA InsertStatement ==
  /\ Prepared({"tag", "info"}) \in Insert
  /\ \A s \in Insert : /\ ResetQuery(s) \in Insert /\ ResetQuery(s).ready
                       /\ SteppedQuery(s) \in Insert
                       /\ SteppedQuery(s).args = s.args
BY DEF Prepared, Insert, ResetQuery, SteppedQuery

LEMMA InsertBinds ==
  ASSUME NEW s \in Insert
  PROVE  /\ \A t \in Tags : /\ BindQuery(s, "tag", t) \in Insert
                            /\ s.ready => /\ BindQuery(s, "tag", t).ready
                                          /\ BindQuery(s, "tag", t).args["tag"] = t
         /\ \A i \in Infos : /\ BindQuery(s, "info", i) \in Insert
                             /\ s.ready => /\ BindQuery(s, "info", i).args["info"] = i
                                           /\ BindQuery(s, "info", i).args["tag"] = s.args["tag"]
BY DEF Insert, BindQuery

(* A list that has been inserted as a whole is what the table holds.       *)
LEMMA WholeTable ==
  ASSUME table \in [Tags -> Infos \cup {Absent, Null}],
         NEW list \in Seq(Record), Holds(list, Len(list))
  PROVE  table = TableOf(list)
<1>1. DOMAIN list = 1 .. Len(list)
  OBVIOUS
<1>2. ASSUME NEW t \in Tags PROVE table[t] = TableOf(list)[t]
  <2> DEFINE I == {i \in DOMAIN list : list[i].tag = t}
  <2>1. TableOf(list)[t] = IF I = {} THEN Absent ELSE list[CHOOSE i \in I : TRUE].info
    BY DEF TableOf
  <2>2. CASE I = {}
    BY <1>1, <2>1, <2>2 DEF Holds
  <2>3. CASE I # {}
    <3>1. PICK i \in I : i = CHOOSE j \in I : TRUE
      BY <2>3
    <3>2. TableOf(list)[t] = list[i].info
      BY <2>1, <2>3, <3>1
    <3> QED
      BY <1>1, <3>1, <3>2 DEF Holds
  <2> QED
    BY <2>2, <2>3
<1>3. DOMAIN TableOf(list) = Tags /\ TableOf(list) = [t \in Tags |-> TableOf(list)[t]]
  BY DEF TableOf
<1> QED
  BY <1>2, <1>3

LEMMA TableInitial == Init => TableInv
<1> SUFFICES ASSUME Init PROVE TableInv
  OBVIOUS
<1>1. /\ table = EmptyTable /\ listOf = EmptyTable /\ torn = FALSE
      /\ stmt = Prepared({"tag", "info"}) /\ \A h \in Handlers : han[h] = Resting
  BY DEF Init
<1>2. Resting.pc = "idle"
  BY DEF Resting
<1> QED
  BY <1>1, <1>2, EmptyIsTable, InsertStatement DEF TableInv, Placed, Alone, Updating

(* A step of a handler that is not updating.                               *)
LEMMA TableKept ==
  ASSUME TableInv, UNCHANGED <<table, stmt, torn, listOf>>,
         \A h \in Handlers : han'[h] = han[h] \/ (~Updating(h) /\ ~Updating(h)' /\ Placed(han'[h]))
  PROVE  TableInv'
<1>1. \A h \in Handlers : /\ Updating(h)' <=> Updating(h)
                          /\ Placed(han'[h])
                          /\ Updating(h) => han'[h] = han[h]
  BY DEF Updating, TableInv
<1>2. ASSUME NEW h \in Handlers PROVE Alone(h)'
  <2>1. Alone(h)
    BY DEF TableInv
  <2>2. \A list, n : Holds(list, n)' <=> Holds(list, n)
    BY DEF Holds
  <2>3. CASE ~Updating(h)
    BY <1>1, <2>3 DEF Alone
  <2>4. CASE Updating(h)
    <3>1. han'[h] = han[h] /\ \A g \in Handlers \ {h} : Updating(g)' <=> Updating(g)
      BY <1>1, <2>4
    <3> QED
      BY <2>1, <2>2, <2>4, <3>1 DEF Alone, Updating, Inserting, Rec
  <2> QED
    BY <2>3, <2>4
<1> QED
  BY <1>1, <1>2 DEF TableInv

(* A step of a handler that is.                                            *)
LEMMA TableMoves ==
  ASSUME TableInv, NEW h \in Handlers, Updating(h),
         \A g \in Handlers \ {h} : han'[g] = han[g],
         table' \in [Tags -> Infos \cup {Absent, Null}], stmt' \in Insert,
         Placed(han'[h]), Alone(h)', torn'
  PROVE  TableInv'
<1>1. \A g \in Handlers \ {h} : Updating(g)' <=> Updating(g)
  BY DEF Updating
<1>2. ASSUME NEW g \in Handlers \ {h} PROVE Alone(g)'
  BY <1>1, <1>2 DEF TableInv, Alone
<1> QED
  BY <1>2 DEF TableInv

LEMMA ClearTable ==
  ASSUME VersionInv, TableInv, NEW h \in Handlers, FullClear(h)
  PROVE  TableInv'
<1>1. PICK pc \in {FirstRecord(h), "final"}, ok \in BOOLEAN :
        /\ BeginFull(h, pc, ok)
        /\ \/ table' = EmptyTable /\ pc = FirstRecord(h)
           \/ table' = table /\ pc = "final" /\ ~ok
  BY DEF FullClear
<1>2. han \in [Handlers -> Handler] /\ han[h] \in Handler /\ han[h].i = 1
  BY DEF FullClear, TableInv, Placed, VersionInv
<1>3. /\ han'[h].pc = pc /\ han'[h].ok = ok /\ han'[h].i = 1 /\ han'[h].req = han[h].req
      /\ han'[h].alone => \A g \in Handlers \ {h} : ~Updating(g)
      /\ \A g \in Handlers \ {h} : /\ han'[g].pc = han[g].pc /\ han'[g].i = han[g].i
                                   /\ han'[g].req = han[g].req
                                   /\ Updating(g) => ~han'[g].alone
  BY <1>1, <1>2 DEF BeginFull, Handler
<1>4. han[h].req.list \in Seq(Record)
  BY <1>2 DEF Handler, Request
<1>5. /\ pc \in {"reset", "final"}
      /\ pc = "reset" => 1 \in DOMAIN han[h].req.list
      /\ pc = "final" => (ok => Len(han[h].req.list) = 0)
  BY <1>1, <1>4 DEF FirstRecord
<1>6. table' \in [Tags -> Infos \cup {Absent, Null}] /\ torn' = TRUE /\ UNCHANGED stmt
  BY <1>1, EmptyIsTable DEF FullClear, TableInv
<1>7. \A g \in Handlers \ {h} : /\ Updating(g)' <=> Updating(g)
                                /\ Alone(g)'
                                /\ Placed(han'[g])
  BY <1>3 DEF Updating, Alone, Placed, TableInv
<1>8. Placed(han'[h])
  BY <1>3, <1>5 DEF Placed
<1>9. Alone(h)'
  <2>1. CASE table' = EmptyTable /\ pc = FirstRecord(h)
    <3>1. \A list : Holds(list, 0)'
      BY <2>1 DEF Holds, EmptyTable
    <3>2. CASE pc = "reset"
      BY <1>3, <1>7, <3>1, <3>2 DEF Alone
    <3>3. CASE pc = "final"
      BY <1>3, <1>5, <1>7, <3>1, <3>3 DEF Alone, Inserting
    <3> QED
      BY <1>5, <3>2, <3>3
  <2>2. CASE pc = "final" /\ ~ok
    BY <1>3, <1>7, <2>2 DEF Alone, Inserting
  <2> QED
    BY <1>1, <2>1, <2>2
<1> QED
  BY <1>6, <1>7, <1>8, <1>9 DEF TableInv

LEMMA StatementTable ==
  ASSUME VersionInv, TableInv, NEW h \in Handlers,
         InsertReset(h) \/ BindTag(h) \/ BindInfo(h)
  PROVE  TableInv'
<1>1. /\ han \in [Handlers -> Handler] /\ han[h] \in Handler /\ stmt \in Insert
      /\ Alone(h) /\ Placed(han[h]) /\ Inserting(h) /\ Updating(h) /\ torn
  BY DEF VersionInv, TableInv, InsertReset, BindTag, BindInfo, StmtStep, Inserting, Updating
<1>2. /\ han'[h].i = han[h].i /\ han'[h].req = han[h].req /\ han'[h].alone = han[h].alone
      /\ han'[h].pc \in {"tag", "info", "exec"}
      /\ \A g \in Handlers \ {h} : han'[g] = han[g]
      /\ UNCHANGED <<table, torn>>
  BY <1>1 DEF InsertReset, BindTag, BindInfo, StmtStep, Goto, Handler
<1>3. Rec(h) \in Record /\ Rec(h)' = Rec(h)
  <2>1. han[h].i \in DOMAIN han[h].req.list
    BY <1>1 DEF Placed, Inserting
  <2>2. han[h].req.list \in Seq(Record)
    BY <1>1 DEF Handler, Request
  <2> QED
    BY <1>2, <2>1, <2>2 DEF Rec
<1>4. Rec(h).tag \in Tags /\ Rec(h).info \in Infos
  BY <1>3 DEF Record
<1>5. stmt' \in Insert
  <2>1. /\ ResetQuery(stmt) \in Insert
        /\ BindQuery(stmt, "tag", Rec(h).tag) \in Insert
        /\ BindQuery(stmt, "info", Rec(h).info) \in Insert
    BY <1>1, <1>4, InsertStatement, InsertBinds
  <2> QED
    BY <2>1 DEF InsertReset, BindTag, BindInfo, StmtStep
<1>6. Placed(han'[h])
  BY <1>1, <1>2 DEF Placed, Inserting
<1>7. Alone(h)'
  <2> SUFFICES ASSUME han[h].alone PROVE Alone(h)'
    BY <1>2 DEF Alone
  <2>1. /\ \A g \in Handlers \ {h} : ~Updating(g)'
        /\ Holds(han[h].req.list, han[h].i - 1)'
    BY <1>1, <1>2 DEF Alone, Updating, Holds
  <2>2. CASE InsertReset(h)
    <3>1. han'[h].pc = "tag" /\ stmt'.ready
      BY <1>1, <2>2, InsertStatement DEF InsertReset, StmtStep, Goto, Handler
    <3> QED
      BY <1>2, <2>1, <3>1 DEF Alone, Holds
  <2>3. CASE BindTag(h)
    <3>1. han'[h].pc = "info" /\ stmt' = BindQuery(stmt, "tag", Rec(h).tag) /\ stmt.ready
      BY <1>1, <2>3 DEF BindTag, StmtStep, Goto, Handler, Alone
    <3>2. stmt'.ready /\ stmt'.args["tag"] = Rec(h).tag
      BY <1>1, <1>4, <3>1, InsertBinds
    <3> QED
      BY <1>2, <1>3, <2>1, <3>1, <3>2 DEF Alone, Holds
  <2>4. CASE BindInfo(h)
    <3>1. /\ han'[h].pc = "exec" /\ stmt' = BindQuery(stmt, "info", Rec(h).info)
          /\ stmt.ready /\ stmt.args["tag"] = Rec(h).tag
      BY <1>1, <2>4 DEF BindInfo, StmtStep, Goto, Handler, Alone
    <3>2. stmt'.args["tag"] = Rec(h).tag /\ stmt'.args["info"] = Rec(h).info
      BY <1>1, <1>4, <3>1, InsertBinds
    <3> QED
      BY <1>2, <1>3, <2>1, <3>1, <3>2 DEF Alone, Holds
  <2> QED
    BY <2>2, <2>3, <2>4
<1> QED
  BY <1>1, <1>2, <1>5, <1>6, <1>7, TableMoves DEF TableInv

LEMMA RecordOf ==
  ASSUME NEW list \in Seq(Record), NEW i \in DOMAIN list
  PROVE  list[i].tag \in Tags /\ list[i].info \in Infos
<1>1. list[i] \in Record
  OBVIOUS
<1> QED
  BY <1>1 DEF Record

(* The record is the next one of the list, and its tag is a new one.       *)
LEMMA RecordInserted ==
  ASSUME table \in [Tags -> Infos \cup {Absent, Null}],
         NEW list \in Seq(Record), NEW i \in DOMAIN list, Holds(list, i - 1),
         table[list[i].tag] = Absent,
         table' = [table EXCEPT ![list[i].tag] = list[i].info]
  PROVE  Holds(list, i)'
<1>1. i \in Nat /\ i >= 1 /\ i <= Len(list) /\ DOMAIN list = 1 .. Len(list)
  OBVIOUS
<1>2. \A j \in 1 .. i : list[j].tag \in Tags /\ list[j].info \in Infos
  <2>1. \A j \in 1 .. i : j \in DOMAIN list
    BY <1>1
  <2> QED
    BY <2>1, RecordOf
<1>3. \A j \in 1 .. i : j = i \/ j \in 1 .. i - 1
  BY <1>1
<1>4. \A j \in 1 .. i - 1 : j \in 1 .. i /\ table[list[j].tag] = list[j].info
  BY <1>1 DEF Holds
<1>5. \A j \in 1 .. i - 1 : list[j].tag # list[i].tag
  BY <1>2, <1>4, ListAssumption
<1>6. i \in 1 .. i
  BY <1>1
<1>7. \A j \in 1 .. i : table'[list[j].tag] = list[j].info
  BY <1>2, <1>3, <1>4, <1>5, <1>6
<1>8. \A t \in Tags : (\A j \in 1 .. i : list[j].tag # t) => table'[t] = Absent
  BY <1>2, <1>4, <1>6 DEF Holds
<1> QED
  BY <1>7, <1>8 DEF Holds

LEMMA InsertTable ==
  ASSUME VersionInv, TableInv, NEW h \in Handlers, InsertExec(h) \/ InsertFails(h)
  PROVE  TableInv'
<1>1. /\ han \in [Handlers -> Handler] /\ han[h] \in Handler /\ stmt \in Insert
      /\ Alone(h) /\ Placed(han[h]) /\ han[h].pc = "exec" /\ Updating(h) /\ torn
      /\ table \in [Tags -> Infos \cup {Absent, Null}]
  BY DEF VersionInv, TableInv, InsertExec, InsertFails, Updating
<1>2. PICK i \in Nat, list \in Seq(Record) :
        i = han[h].i /\ list = han[h].req.list /\ i \in DOMAIN list
  BY <1>1 DEF Handler, Request, Placed
<1>3. /\ \A g \in Handlers \ {h} : han'[g] = han[g]
      /\ torn' = torn /\ stmt' = SteppedQuery(stmt)
  BY <1>1 DEF InsertExec, InsertFails
<1>4. stmt' \in Insert
  BY <1>1, <1>3, InsertStatement
<1>5. CASE InsertFails(h)
  <2>1. han'[h].pc = "final" /\ han'[h].ok = FALSE /\ UNCHANGED table
    BY <1>1, <1>5 DEF InsertFails, Handler
  <2>2. Placed(han'[h])
    BY <2>1 DEF Placed
  <2>3. Alone(h)'
    <3>1. han'[h].alone = han[h].alone
      BY <1>1, <1>5 DEF InsertFails, Handler
    <3> QED
      BY <1>1, <1>3, <2>1, <3>1 DEF Alone, Updating, Inserting
  <2> QED
    BY <1>1, <1>3, <1>4, <2>1, <2>2, <2>3, TableMoves
<1>6. CASE InsertExec(h)
  <2>1. table' \in [Tags -> Infos \cup {Absent, Null}]
    BY <1>1, <1>6 DEF InsertExec, Inserts, Insert
  <2>2. /\ han'[h].req = han[h].req /\ han'[h].alone = han[h].alone
        /\ \/ han'[h].pc = "reset" /\ han'[h].i = i + 1 /\ i < Len(list)
           \/ han'[h].pc = "final" /\ i = Len(list)
    <3>1. han'[h] = AfterInsert(h)
      BY <1>1, <1>6 DEF InsertExec
    <3>2. i <= Len(list) /\ Len(list) \in Nat
      BY <1>2
    <3>3. CASE i < Len(list)
      <4>1. PICK n \in Nat : n = i + 1
        BY <1>2
      <4>2. AfterInsert(h) = [han[h] EXCEPT !.pc = "reset", !.i = n]
        BY <1>2, <3>3, <4>1 DEF AfterInsert
      <4> QED
        BY <1>1, <3>1, <3>3, <4>1, <4>2 DEF Handler
    <3>4. CASE ~(i < Len(list))
      <4>1. AfterInsert(h) = [han[h] EXCEPT !.pc = "final"]
        BY <1>2, <3>4 DEF AfterInsert
      <4> QED
        BY <1>1, <1>2, <3>1, <3>2, <3>4, <4>1 DEF Handler
    <3> QED
      BY <3>3, <3>4
  <2>3. Placed(han'[h])
    <3>1. i < Len(list) => i + 1 \in DOMAIN list
      BY <1>2
    <3> QED
      BY <1>2, <2>2, <3>1 DEF Placed
  <2>4. Alone(h)'
    <3> SUFFICES ASSUME han[h].alone PROVE Alone(h)'
      BY <2>2 DEF Alone
    <3>1. /\ \A g \in Handlers \ {h} : ~Updating(g)'
          /\ Holds(list, i - 1)
          /\ stmt.args["tag"] = list[i].tag /\ stmt.args["info"] = list[i].info
      BY <1>1, <1>2, <1>3 DEF Alone, Updating, Inserting, Rec
    <3>2. list[i].tag \in Tags
      BY <1>2, RecordOf
    <3>3. table[list[i].tag] = Absent /\ table' = [table EXCEPT ![list[i].tag] = list[i].info]
      BY <1>6, <3>1, <3>2, ListAssumption DEF InsertExec, Unique, Inserts
    <3>4. Holds(list, i)'
      BY <1>1, <1>2, <3>1, <3>3, RecordInserted
    <3>5. CASE han'[h].pc = "reset"
      <4>1. han'[h].i - 1 = i /\ han'[h].req.list = list
        BY <1>2, <2>2, <3>5
      <4>2. Holds(han[h].req.list, han[h].i - 1)'
        BY <3>4, <4>1 DEF Holds
      <4> QED
        BY <3>1, <3>5, <4>2 DEF Alone
    <3>6. CASE han'[h].pc = "final"
      <4>1. Len(han'[h].req.list) = i /\ han'[h].req.list = list
        BY <1>2, <2>2, <3>6
      <4>2. Holds(han[h].req.list, Len(han[h].req.list))'
        BY <3>4, <4>1 DEF Holds
      <4> QED
        BY <3>1, <3>6, <4>2 DEF Alone, Inserting
    <3> QED
      BY <2>2, <3>5, <3>6
  <2> QED
    BY <1>1, <1>3, <1>4, <2>1, <2>3, <2>4, TableMoves
<1> QED
  BY <1>5, <1>6

LEMMA DoneTable ==
  ASSUME VersionInv, TableInv, NEW h \in Handlers, FullDone(h)
  PROVE  TableInv'
<1>1. /\ han \in [Handlers -> Handler] /\ han[h] \in Handler /\ stmt \in Insert
      /\ Alone(h) /\ han[h].pc = "final" /\ Updating(h) /\ torn
      /\ table \in [Tags -> Infos \cup {Absent, Null}]
  BY DEF VersionInv, TableInv, FullDone, Updating
<1>2. stmt' \in Insert /\ UNCHANGED table
  BY <1>1, InsertStatement DEF FullDone
<1>3. /\ han'[h].pc \in {"config", "idle"}
      /\ \A g \in Handlers \ {h} : han'[g] = han[g]
  BY <1>1 DEF FullDone, Goto, Rest, Resting, Handler
<1>4. Placed(han'[h]) /\ ~Updating(h)' /\ Alone(h)'
  BY <1>3 DEF Placed, Updating, Alone
<1>5. CASE han[h].ok /\ han[h].alone
  <2>1. Holds(han[h].req.list, Len(han[h].req.list)) /\ \A g \in Handlers \ {h} : ~Updating(g)
    BY <1>1, <1>5 DEF Alone
  <2>2. table = TableOf(han[h].req.list)
    BY <1>1, <2>1, WholeTable DEF Handler, Request
  <2>3. torn' = FALSE /\ listOf' = TableOf(han[h].req.list)
    BY <1>5 DEF FullDone
  <2>4. \A g \in Handlers : ~Updating(g)' /\ Placed(han'[g])
    BY <1>3, <1>4, <2>1 DEF Updating, TableInv
  <2> QED
    BY <1>1, <1>2, <2>2, <2>3, <2>4 DEF TableInv, Alone
<1>6. CASE ~(han[h].ok /\ han[h].alone)
  <2>1. torn'
    BY <1>1, <1>6 DEF FullDone
  <2> QED
    BY <1>1, <1>2, <1>3, <1>4, <2>1, TableMoves
<1> QED
  BY <1>5, <1>6

LEMMA HandlerTable ==
  ASSUME VersionInv, TableInv, NEW h \in Handlers, HandlerStep(h)
  PROVE  TableInv'
<1>0. han \in [Handlers -> Handler] /\ han[h] \in Handler
  BY DEF VersionInv
<1>1. CASE FullClear(h)
  BY <1>1, ClearTable
<1>2. CASE InsertReset(h) \/ BindTag(h) \/ BindInfo(h)
  BY <1>2, StatementTable
<1>3. CASE InsertExec(h) \/ InsertFails(h)
  BY <1>3, InsertTable
<1>4. CASE FullDone(h)
  BY <1>4, DoneTable
<1>5. ASSUME NEW new \in Handler, new.pc \in {"clear", "diff", "idle", "config", "assign"},
             new.pc = "clear" => new.i = 1, ~Updating(h),
             han' = [han EXCEPT ![h] = new], UNCHANGED <<table, stmt, torn, listOf>>
      PROVE  TableInv'
  <2>1. /\ \A g \in Handlers \ {h} : han'[g] = han[g]
        /\ ~Updating(h)' /\ Placed(han'[h])
    BY <1>0, <1>5 DEF Updating, Placed
  <2> QED
    BY <1>5, <2>1, TableKept
<1>6. ASSUME NEW r \in Requests, SendList(h, r) PROVE TableInv'
  <2> DEFINE new == [Resting EXCEPT !.pc = IF r.full THEN "clear" ELSE "diff", !.req = r]
  <2>1. new \in Handler /\ new.pc \in {"clear", "diff"} /\ new.i = 1
    BY RestingHandler, ListAssumption DEF Handler, Pc, Resting
  <2>2. han' = [han EXCEPT ![h] = new] /\ ~Updating(h) /\ UNCHANGED <<table, stmt, torn, listOf>>
    BY <1>6 DEF SendList, Updating
  <2> HIDE DEF new
  <2> QED
    BY <1>5, <2>1, <2>2
<1>7. Resting \in Handler /\ Resting.pc = "idle"
  BY RestingHandler DEF Resting
<1>8. ASSUME NEW pc \in {"config", "assign"}
      PROVE  [han[h] EXCEPT !.pc = pc] \in Handler /\ [han[h] EXCEPT !.pc = pc].pc = pc
  BY <1>0 DEF Handler, Pc
<1>9. CASE PartialUpdate(h) \/ SetVersion(h) \/ SetVersionFails(h) \/ AssignVersion(h)
  <2>1. ~Updating(h) /\ UNCHANGED <<table, stmt, torn, listOf>>
    BY <1>9 DEF PartialUpdate, SetVersion, SetVersionFails, AssignVersion, Updating
  <2>2. \/ han' = [han EXCEPT ![h] = Resting]
        \/ \E pc \in {"config", "assign"} : han' = [han EXCEPT ![h] = [han[h] EXCEPT !.pc = pc]]
    BY <1>9 DEF PartialUpdate, SetVersion, SetVersionFails, AssignVersion, Goto, Rest
  <2>3. CASE han' = [han EXCEPT ![h] = Resting]
    BY <1>5, <1>7, <2>1, <2>3
  <2>4. ASSUME NEW pc \in {"config", "assign"},
               han' = [han EXCEPT ![h] = [han[h] EXCEPT !.pc = pc]]
        PROVE  TableInv'
    <3> DEFINE new == [han[h] EXCEPT !.pc = pc]
    <3>1. new \in Handler /\ new.pc = pc /\ han' = [han EXCEPT ![h] = new]
      BY <1>8, <2>4
    <3> HIDE DEF new
    <3> QED
      BY <1>5, <2>1, <3>1
  <2> QED
    BY <2>2, <2>3, <2>4
<1> QED
  BY <1>1, <1>2, <1>3, <1>4, <1>6, <1>9 DEF HandlerStep

LEMMA TableStep == VersionInv /\ TableInv /\ [Next]_vars => TableInv'
<1> SUFFICES ASSUME VersionInv, TableInv, [Next]_vars PROVE TableInv'
  OBVIOUS
<1>1. CASE \E h \in Handlers : HandlerStep(h)
  BY <1>1, HandlerTable
<1>2. CASE InitList \/ OthersSet \/ ConfigStep \/ UNCHANGED vars
  <2>1. UNCHANGED <<table, stmt, torn, listOf, han>>
    BY <1>2 DEF InitList, OthersSet, ConfigStep, vars, listVars
  <2> QED
    BY <2>1, TableKept
<1>3. CASE Crash
  <2>1. /\ \A h \in Handlers : han'[h] = Resting
        /\ stmt' = ResetQuery(stmt) /\ UNCHANGED <<table, torn, listOf>>
    BY <1>3 DEF Crash
  <2>2. \A h \in Handlers : Placed(han'[h]) /\ ~Updating(h)'
    BY <2>1 DEF Placed, Updating, Resting
  <2>3. stmt' \in Insert
    BY <2>1, InsertStatement DEF TableInv
  <2> QED
    BY <2>1, <2>2, <2>3 DEF TableInv, Alone
<1> QED
  BY <1>1, <1>2, <1>3 DEF Next

(* The table of the local list is the list that was sent, from the end of  *)
(* a full update that met no other and did not fail, and across crashes:   *)
(* for every list and every number of handlers.                            *)
THEOREM ListCorrect == Spec => []ListMatches
<1>1. TableInv => ListMatches
  BY DEF TableInv, ListMatches
<1> QED
  BY <1>1, VersionInit, VersionStep, TableInitial, TableStep, PTL DEF Spec

-----------------------------------------------------------------------------
NumbersInv == version \in Nat /\ requests \in 0 .. MaxRequests

LEMMA VersionInNat == \A d \in Doc : VersionIn(d) \in Nat
BY ListAssumption DEF VersionIn, Doc, Value

LEMMA NumbersStep == CfgInv /\ VersionInv /\ NumbersInv /\ [Next]_vars => NumbersInv'
<1> SUFFICES ASSUME CfgInv, VersionInv, NumbersInv, [Next]_vars PROVE NumbersInv'
  OBVIOUS
<1>1. ASSUME NEW h \in Handlers, HandlerStep(h) PROVE NumbersInv'
  <2>1. CASE AssignVersion(h)
    <3>1. han[h].req.version \in Nat
      BY DEF VersionInv, Handler, Request
    <3> QED
      BY <2>1, <3>1 DEF AssignVersion, NumbersInv
  <2>2. CASE \E r \in Requests : SendList(h, r)
    BY <2>2, ListAssumption DEF SendList, NumbersInv
  <2>3. CASE ~AssignVersion(h) /\ ~\E r \in Requests : SendList(h, r)
    BY <1>1, <2>3 DEF HandlerStep, FullClear, InsertReset, BindTag, BindInfo, StmtStep,
       InsertExec, InsertFails, FullDone, PartialUpdate, SetVersion, SetVersionFails, NumbersInv
  <2> QED
    BY <2>1, <2>2, <2>3
<1>2. CASE InitList
  BY <1>2, VersionInNat DEF InitList, NumbersInv, CfgInv
<1>3. CASE OthersSet \/ ConfigStep \/ Crash \/ UNCHANGED vars
  BY <1>3 DEF OthersSet, ConfigStep, Crash, vars, listVars, NumbersInv
<1> QED
  BY <1>1, <1>2, <1>3 DEF Next

(* Documents, tasks, rows, handlers and counters keep their types, and a   *)
(* handler that inserts is at a record of its list.                        *)
THEOREM LocalListTypeCorrect == Spec => []TypeOK
<1>1. Init => NumbersInv
  BY ListAssumption DEF Init, NumbersInv
<1>2. SaveInv /\ VersionInv /\ CfgInv /\ TableInv /\ NumbersInv => TypeOK
  <2> SUFFICES ASSUME SaveInv, VersionInv, CfgInv, TableInv, NumbersInv PROVE TypeOK
    OBVIOUS
  <2>1. \A i \in DOMAIN tasks : tasks[i].kind \in {"save", "callback"}
    <3>1. \A i \in DOMAIN tasks : tasks[i] \in Task
      BY DEF SaveInv
    <3> QED
      BY <3>1 DEF Task, SaveTask, CbTask
  <2>2. CfgTypeOK
    BY <2>1 DEF CfgInv, CfgTypeOK
  <2>3. \A h \in Handlers : han[h] \in Handler /\ Placed(han[h])
    BY DEF VersionInv, TableInv
  <2> QED
    BY <2>2, <2>3 DEF TypeOK, VersionInv, TableInv, NumbersInv, Handler, Pc, Placed, Insert
<1> QED
  BY <1>1, <1>2, SaveInit, SaveStep, VersionInit, VersionStep, CfgInitial, CfgStep,
     TableInitial, TableStep, NumbersStep, PTL DEF Spec
=============================================================================
