--------------------------- MODULE DeliveryProofs ---------------------------
(***************************************************************************)
(* What the subscribers of the configuration are told, for every number of *)
(* subscribers, of workers and of documents.                               *)
(***************************************************************************)
EXTENDS LocalListProofs

(* Worker w holds a copy for a subscriber; it is the current value unless  *)
(* the subscriber counts as one that may be left behind.                   *)
CopyFresh(w) ==
  Doing(w, "call") =>
    /\ doing[w].sub \in Subscribers
    /\ doing[w].sub \in subs \ mixed => doing[w].val = Node(doc, PathOf[doing[w].sub])

OnItsWay(s) == \E t \in Outstanding : t.sub = s
Told(s)     == OnItsWay(s) \/ Node(doc, PathOf[s]) \in {Absent, seen[s]}

DeliverInv ==
  /\ ~Up => subs = {}
  /\ DOMAIN seen = Subscribers
  /\ \A w \in Workers : (cfgLock = w => doing[w] = SaveTask) /\ CopyFresh(w)
  /\ \A s \in subs \ mixed : Told(s)

(* The callbacks are posted to all subscribers concerned.                  *)
LEMMA OrdersOnto ==
  ASSUME NEW S, IsFiniteSet(S), NEW f \in Orders(S), NEW s \in S
  PROVE  \E i \in DOMAIN f : f[i] = s
<1> DEFINE n == Cardinality(S)
<1>1. n \in Nat
  BY FS_CardinalityType
<1>2. f \in [1 .. n -> S] /\ DOMAIN f = 1 .. n /\ \A i, j \in 1 .. n : f[i] = f[j] => i = j
  BY DEF Orders
<1>3. IsFiniteSet(1 .. n) /\ Cardinality(1 .. n) = n
  BY <1>1, FS_Interval
<1>4. f \in Injection(1 .. n, S)
  BY <1>2 DEF Injection, IsInjective
<1> HIDE DEF n
<1>5. f \in Surjection(1 .. n, S)
  BY <1>3, <1>4, FS_Injection DEF n
<1> QED
  BY <1>2, <1>5 DEF Surjection

(* What setConfig reports to nobody is unchanged or of a kind that the     *)
(* comparison overlooks.                                                   *)
Noticed(new, paths) ==
  \A s \in Subscribers :
    Node(new, PathOf[s]) # Node(doc, PathOf[s]) /\ PathOf[s] \notin paths => Overlooked(s, new)

LEMMA LeafNoticed ==
  ASSUME CfgInv, NEW l \in Leaves, NEW v \in Value, doc[l] # Absent
  PROVE  Noticed([doc EXCEPT ![l] = v], {l})
<1> DEFINE new == [doc EXCEPT ![l] = v]
<1>1. /\ doc \in Doc /\ new[l] = v /\ v # Absent
      /\ \A k \in Leaves \ {l} : new[k] = doc[k]
  BY ConfigAssumption DEF CfgInv, Doc
<1>2. \A p : HasSection(new, p) <=> HasSection(doc, p)
  BY <1>1 DEF HasSection
<1> HIDE DEF new
<1>3. ASSUME NEW s \in Subscribers, Node(new, PathOf[s]) # Node(doc, PathOf[s]), PathOf[s] # l
      PROVE  Overlooked(s, new)
  <2>1. PathOf[s] \notin Leaves
    BY <1>1, <1>3 DEF Node
  <2>2. PathOf[s] \in Sections
    BY <2>1, ConfigAssumption
  <2>3. HasSection(doc, PathOf[s]) /\ HasSection(new, PathOf[s])
    BY <1>2, <1>3, <2>1 DEF Node
  <2> QED
    BY <2>2, <2>3 DEF Overlooked
<1> QED
  BY <1>3 DEF Noticed, new

LEMMA DiffNoticed ==
  ASSUME CfgInv, NEW new \in Doc
  PROVE  Noticed(new, DiffJsonObjects(doc, new))
<1> SUFFICES ASSUME NEW s \in Subscribers, Node(new, PathOf[s]) # Node(doc, PathOf[s]),
                    PathOf[s] \notin DiffJsonObjects(doc, new)
             PROVE  Overlooked(s, new)
  BY DEF Noticed
<1>0. doc \in Doc
  BY DEF CfgInv
<1> DEFINE p == PathOf[s]
<1>1. CASE p \in Leaves
  <2> DEFINE c == SectionOf[p]
  <2>1. p \notin Sections /\ new[p] # doc[p]
    BY <1>1, ConfigAssumption DEF Node
  <2>2. (doc[p] # Absent => HasSection(doc, c)) /\ (new[p] # Absent => HasSection(new, c))
    BY <1>1 DEF HasSection
  <2>3. CASE HasSection(doc, c) # HasSection(new, c)
    BY <2>1, <2>3 DEF Overlooked
  <2>4. CASE HasSection(doc, c) /\ HasSection(new, c)
    <3>1. /\ (doc[p] = Absent) <=> (new[p] = Absent)
          /\ doc[p] # Absent /\ new[p] # Absent => ~Differs(doc[p], new[p])
      BY <1>1, <2>4 DEF DiffJsonObjects
    <3>2. doc[p] # Absent /\ new[p] # Absent
      BY <2>1, <3>1
    <3>3. doc[p] \in Value /\ new[p] \in Value
      BY <1>0, <1>1, <3>2 DEF Doc
    <3>4. JsonType(doc[p]) = JsonType(new[p]) /\ (doc[p].rep = new[p].rep => doc[p].v = new[p].v)
      BY <3>1, <3>2 DEF Differs
    <3>5. doc[p].rep # new[p].rep
      BY <2>1, <3>3, <3>4 DEF Value
    <3> QED
      BY <2>1, <3>2, <3>4, <3>5 DEF Overlooked
  <2>5. CASE ~HasSection(doc, c) /\ ~HasSection(new, c)
    BY <2>1, <2>2, <2>5
  <2> QED
    BY <2>3, <2>4, <2>5 DEF HasSection
<1>2. CASE p \notin Leaves
  <2>1. p \in Sections
    BY <1>2, ConfigAssumption
  <2>2. HasSection(doc, p) = HasSection(new, p)
    BY <2>1 DEF DiffJsonObjects
  <2>3. HasSection(doc, p)
    BY <1>2, <2>2 DEF Node
  <2> QED
    BY <2>1, <2>2, <2>3 DEF Overlooked
<1> QED
  BY <1>1, <1>2

-----------------------------------------------------------------------------
(* The tasks on their way.                                                 *)

LEMMA TaskFacts ==
  /\ \A t \in Task : t # NoTask /\ t.kind # "call" /\ (t = SaveTask \/ t.kind = "callback")
  /\ SaveTask.sub \notin Subscribers
  /\ \A s \in Subscribers : CbTask(s) \in Task /\ CbTask(s).sub = s /\ CbTask(s).kind = "callback"
<1>1. \A t \in Task : t # NoTask
  BY TasksAreTasks, TaskAssumption
<1> QED
  BY <1>1, ConfigAssumption DEF Task, SaveTask, CbTask

LEMMA TakeDelivers ==
  ASSUME SaveInv, DeliverInv, NEW w \in Workers, TakeTask(w)
  PROVE  DeliverInv'
<1>1. /\ tasks \in Seq(Task) /\ tasks # <<>> /\ DOMAIN doing = Workers
      /\ doing[w] = NoTask
      /\ doing' = [doing EXCEPT ![w] = Head(tasks)]
      /\ tasks' = Tail(tasks)
      /\ UNCHANGED cfgVars
  BY DEF TakeTask, Take, SaveInv
<1>2. Head(tasks) \in Task /\ Head(tasks) # NoTask /\ Head(tasks).kind # "call"
  BY <1>1, TaskFacts
<1>3. ASSUME NEW t \in Outstanding PROVE t \in Outstanding'
  <2>1. CASE \E v \in Workers : t = doing[v] /\ t # NoTask
    <3>1. PICK v \in Workers : t = doing[v] /\ t # NoTask
      BY <2>1
    <3>2. t = doing'[v]
      BY <1>1, <3>1
    <3> QED
      BY <3>1, <3>2 DEF Outstanding
  <2>2. CASE \E i \in DOMAIN tasks : t = tasks[i]
    <3>1. PICK i \in DOMAIN tasks : t = tasks[i]
      BY <2>2
    <3>2. CASE i = 1
      <4>1. t = doing'[w]
        BY <1>1, <3>1, <3>2
      <4> QED
        BY <1>1, <1>2, <3>1, <3>2, <4>1 DEF Outstanding
    <3>3. CASE i # 1
      <4>1. /\ Len(tasks) \in Nat /\ DOMAIN tasks = 1 .. Len(tasks)
            /\ DOMAIN Tail(tasks) = 1 .. Len(tasks) - 1
            /\ \A j \in 1 .. Len(tasks) - 1 : Tail(tasks)[j] = tasks[j + 1]
        BY <1>1
      <4>2. i - 1 \in DOMAIN tasks' /\ tasks'[i - 1] = t
        BY <1>1, <3>1, <3>3, <4>1
      <4> QED
        BY <4>2 DEF Outstanding
    <3> QED
      BY <3>2, <3>3
  <2> QED
    BY <2>1, <2>2 DEF Outstanding
<1>4. \A s : OnItsWay(s) => OnItsWay(s)'
  BY <1>3 DEF OnItsWay
<1>5. \A v \in Workers : CopyFresh(v)' /\ (cfgLock' = v => doing'[v] = SaveTask)
  <2>1. \A v \in Workers \ {w} : doing'[v] = doing[v]
    BY <1>1
  <2>2. ~Doing(w, "call")' /\ cfgLock # w
    BY <1>1, <1>2, TasksAreTasks DEF Doing, DeliverInv
  <2> QED
    BY <1>1, <2>1, <2>2 DEF DeliverInv, CopyFresh, Doing, cfgVars
<1> QED
  BY <1>1, <1>4, <1>5 DEF DeliverInv, Told, cfgVars, Up

(* A worker puts its task aside, or goes on with it as t.                  *)
LEMMA OthersOnTheirWay ==
  ASSUME SaveInv, NEW w \in Workers, NEW t, doing' = [doing EXCEPT ![w] = t], UNCHANGED tasks
  PROVE  \A u \in Outstanding : u # doing[w] => u \in Outstanding'
<1>1. \A v \in Workers \ {w} : doing'[v] = doing[v]
  BY DEF SaveInv
<1> QED
  BY <1>1 DEF Outstanding

LEMMA SaveTaskEnds ==
  ASSUME SaveInv, DeliverInv, NEW w \in Workers, doing[w] = SaveTask, Finish(w),
         cfgLock' = Nobody, UNCHANGED <<doc, subs, phase, seen, mixed>>
  PROVE  DeliverInv'
<1>1. /\ doing' = [doing EXCEPT ![w] = NoTask] /\ DOMAIN doing = Workers /\ UNCHANGED tasks
  BY DEF Finish, SaveInv
<1>2. \A u \in Outstanding : u # SaveTask => u \in Outstanding'
  BY <1>1, OthersOnTheirWay
<1>3. \A s \in Subscribers : OnItsWay(s) => OnItsWay(s)'
  BY <1>2, TaskFacts DEF OnItsWay
<1>4. \A v \in Workers : CopyFresh(v)'
  BY <1>1 DEF DeliverInv, CopyFresh, Doing
<1>5. \A v \in Workers : cfgLock' # v
  BY ConfigAssumption
<1> QED
  BY <1>3, <1>4, <1>5 DEF DeliverInv, Told, SaveInv, Up

LEMMA WorkerDelivers ==
  ASSUME SaveInv, CfgInv, DeliverInv, NEW w \in Workers, WorkerStep(w)
  PROVE  DeliverInv'
<1>0. DOMAIN doing = Workers /\ subs \subseteq Subscribers /\ doc \in Doc
  BY DEF SaveInv, CfgInv
<1>1. CASE TakeTask(w)
  BY <1>1, TakeDelivers
<1>2. ASSUME Doing(w, "save") PROVE doing[w] = SaveTask
  BY <1>2, TaskKinds DEF SaveInv, Doing
<1>3. CASE SaveOpen(w)
  <2>1. Outstanding' = Outstanding /\ UNCHANGED <<doing, doc, subs, phase, seen, mixed>>
        /\ cfgLock' = w
    BY <1>3 DEF SaveOpen, poolVars, Outstanding
  <2> QED
    BY <1>2, <1>3, <2>1 DEF SaveOpen, DeliverInv, CopyFresh, Doing, Told, OnItsWay, Up
<1>4. CASE SaveOpenFails(w)
  BY <1>2, <1>4, SaveTaskEnds DEF SaveOpenFails
<1>5. CASE SaveWrite(w)
  BY <1>5, SaveTaskEnds DEF SaveWrite, DeliverInv
<1>6. CASE CopyNode(w)
  <2>1. PICK s \in Subscribers : doing[w] = CbTask(s)
    BY <1>6 DEF CopyNode, Doing, SaveInv, Task, SaveTask
  <2>2. doing[w].sub = s /\ doing[w] # SaveTask /\ UNCHANGED cfgVars /\ UNCHANGED tasks
    BY <1>6, <2>1, TaskFacts DEF CopyNode, Finish, SaveTask
  <2>3. cfgLock' # w
    BY <1>6, <2>2, ConfigAssumption DEF CopyNode, cfgVars
  <2> DEFINE val == Node(doc, PathOf[s])
             new == CallTask(s, val)
  <2>4. CASE val = Absent
    <3>1. doing' = [doing EXCEPT ![w] = NoTask]
      BY <1>6, <2>2, <2>4 DEF CopyNode, Finish
    <3>2. \A u \in Outstanding : u # doing[w] => u \in Outstanding'
      BY <2>2, <3>1, OthersOnTheirWay
    <3>3. \A x \in Subscribers \ {s} : OnItsWay(x) => OnItsWay(x)'
      BY <2>2, <3>2 DEF OnItsWay
    <3>4. \A v \in Workers : CopyFresh(v)' /\ (cfgLock' = v => doing'[v] = SaveTask)
      BY <1>0, <2>2, <2>3, <3>1 DEF DeliverInv, CopyFresh, Doing, cfgVars
    <3> QED
      BY <1>0, <2>2, <2>4, <3>3, <3>4 DEF DeliverInv, Told, cfgVars, Up
  <2>5. CASE val # Absent
    <3>1. doing' = [doing EXCEPT ![w] = new]
      BY <1>6, <2>2, <2>5 DEF CopyNode
    <3>2. \A u \in Outstanding : u # doing[w] => u \in Outstanding'
      BY <2>2, <3>1, OthersOnTheirWay
    <3>3. new.sub = s /\ new.kind = "call" /\ new.val = val
      BY DEF CallTask
    <3>4. new # NoTask
      <4>1. val \in NodeValue
        <5>1. PathOf[s] \in Leaves => val \in Value \cup {Absent}
          BY <1>0 DEF Node, Doc
        <5>2. PathOf[s] \notin Leaves /\ val # Absent =>
                val \in [{k \in Leaves : SectionOf[k] = PathOf[s]} -> Value \cup {Absent}]
          BY <1>0 DEF Node, Doc
        <5> QED
          BY <2>5, <5>1, <5>2 DEF NodeValue
      <4>2. new \in PoolTask
        BY <4>1 DEF CallTask, PoolTask
      <4> QED
        BY <4>2, TaskAssumption
    <3>5. doing'[w] = new /\ \A v \in Workers \ {w} : doing'[v] = doing[v]
      BY <1>0, <3>1
    <3> HIDE DEF new
    <3>6. new \in Outstanding'
      BY <3>4, <3>5 DEF Outstanding
    <3>7. \A x \in Subscribers : OnItsWay(x) => OnItsWay(x)'
      BY <2>2, <3>2, <3>3, <3>6 DEF OnItsWay
    <3>8. \A v \in Workers : CopyFresh(v)' /\ (cfgLock' = v => doing'[v] = SaveTask)
      BY <2>2, <2>3, <3>3, <3>5 DEF DeliverInv, CopyFresh, Doing, cfgVars
    <3> QED
      BY <1>0, <2>2, <3>7, <3>8 DEF DeliverInv, Told, cfgVars, Up
  <2> QED
    BY <2>4, <2>5
<1>7. CASE CallBack(w)
  <2>1. PICK s \in Subscribers : doing[w].sub = s
    BY <1>7 DEF CallBack, DeliverInv, CopyFresh
  <2>2. /\ doing' = [doing EXCEPT ![w] = NoTask] /\ UNCHANGED <<tasks, doc, subs, cfgLock, phase, mixed>>
        /\ doing[w].kind = "call"
        /\ DOMAIN seen' = Subscribers /\ seen'[s] = doing[w].val
        /\ \A x \in Subscribers \ {s} : seen'[x] = seen[x]
    BY <1>7, <2>1 DEF CallBack, Finish, Doing, DeliverInv
  <2>3. \A u \in Outstanding : u # doing[w] => u \in Outstanding'
    BY <2>2, OthersOnTheirWay
  <2>4. \A x \in Subscribers \ {s} : OnItsWay(x) => OnItsWay(x)'
    BY <2>1, <2>3 DEF OnItsWay
  <2>5. s \in subs \ mixed => Node(doc, PathOf[s]) = seen'[s]
    BY <1>7, <2>1, <2>2 DEF CallBack, DeliverInv, CopyFresh
  <2>6. \A v \in Workers : CopyFresh(v)' /\ (cfgLock' = v => doing'[v] = SaveTask)
    <3>1. cfgLock # w
      BY <2>2 DEF DeliverInv, SaveTask
    <3> QED
      BY <1>0, <2>2, <3>1 DEF DeliverInv, CopyFresh, Doing
  <2> QED
    BY <1>0, <2>2, <2>4, <2>5, <2>6 DEF DeliverInv, Told, Up
<1>8. CASE WorkerExit(w)
  <2>1. Outstanding' = Outstanding /\ UNCHANGED <<doing, cfgVars>>
    BY <1>8 DEF WorkerExit, Exit, Outstanding
  <2> QED
    BY <2>1 DEF DeliverInv, CopyFresh, Doing, Told, OnItsWay, cfgVars, Up
<1> QED
  BY <1>1, <1>3, <1>4, <1>5, <1>6, <1>7, <1>8 DEF WorkerStep

-----------------------------------------------------------------------------
(* setConfig.                                                              *)

LEMMA ChangePosts ==
  ASSUME SaveInv, NEW new, NEW paths, Change(new, paths)
  PROVE  /\ Outstanding \subseteq Outstanding'
         /\ \A s \in subs : PathOf[s] \in paths => OnItsWay(s)'
<1> DEFINE called == {s \in subs : PathOf[s] \in paths}
           rest   == IF pending THEN <<>> ELSE <<SaveTask>>
<1>1. PICK f \in Orders(called) : tasks' = tasks \o [i \in DOMAIN f |-> CbTask(f[i])] \o rest
  BY DEF Change
<1> DEFINE cbs == [i \in DOMAIN f |-> CbTask(f[i])]
<1>2. called \subseteq Subscribers /\ IsFiniteSet(called) /\ Cardinality(called) \in Nat
  <2>1. called \in SUBSET Subscribers
    BY DEF SaveInv
  <2> HIDE DEF called
  <2> QED
    BY <2>1, ConfigAssumption, FS_Subset, FS_CardinalityType
<1>3. /\ f \in [1 .. Cardinality(called) -> called]
      /\ \A s \in called : \E i \in DOMAIN f : f[i] = s
  <2> HIDE DEF called
  <2> QED
    BY <1>1, <1>2, OrdersOnto DEF Orders
<1>4. DOMAIN f = 1 .. Cardinality(called)
  BY <1>3
<1>5. cbs \in Seq(Task)
  <2>1. \A i \in 1 .. Cardinality(called) : CbTask(f[i]) \in Task
    BY <1>2, <1>3 DEF Task
  <2> HIDE DEF called
  <2> QED
    BY <1>2, <1>4, <2>1
<1>6. rest \in Seq(Task)
  <2>1. <<SaveTask>> \in Seq(Task) /\ <<>> \in Seq(Task)
    BY DEF Task
  <2> QED
    BY <2>1
<1>7. tasks \in Seq(Task) /\ tasks' = tasks \o cbs \o rest /\ UNCHANGED doing
  BY <1>1 DEF SaveInv, Change
<1>8. DOMAIN cbs = DOMAIN f /\ \A i \in DOMAIN f : cbs[i] = CbTask(f[i])
  OBVIOUS
<1> HIDE DEF cbs, rest, called
<1>9. \A i \in DOMAIN tasks : i \in DOMAIN tasks' /\ tasks'[i] = tasks[i]
  BY <1>5, <1>6, <1>7
<1>10. \A i \in DOMAIN cbs : Len(tasks) + i \in DOMAIN tasks' /\ tasks'[Len(tasks) + i] = cbs[i]
  BY <1>5, <1>6, <1>7
<1>11. Outstanding \subseteq Outstanding'
  BY <1>7, <1>9 DEF Outstanding
<1>12. ASSUME NEW s \in called PROVE OnItsWay(s)'
  <2>1. PICK i \in DOMAIN f : f[i] = s
    BY <1>3
  <2>2. CbTask(s) \in Outstanding'
    BY <1>8, <1>10, <2>1 DEF Outstanding
  <2> QED
    BY <1>2, <2>2, TaskFacts DEF OnItsWay
<1> QED
  BY <1>11, <1>12 DEF called

LEMMA ChangeDelivers ==
  ASSUME SaveInv, DeliverInv, NEW new, NEW paths, Up, Change(new, paths), Noticed(new, paths)
  PROVE  DeliverInv'
<1>1. /\ doc' = new /\ UNCHANGED <<doing, subs, cfgLock, phase, seen>>
      /\ mixed' = {s \in subs : \/ /\ Node(new, PathOf[s]) # Node(doc, PathOf[s])
                                   /\ PathOf[s] \notin paths
                                   /\ Overlooked(s, new)
                                \/ PathOf[s] \in paths /\ Copied(s)
                                \/ s \in mixed /\ PathOf[s] \notin paths}
  BY DEF Change
<1>2. subs \subseteq Subscribers
  BY DEF SaveInv
<1>3. ASSUME NEW s \in subs \ mixed', PathOf[s] \notin paths
      PROVE  s \notin mixed /\ Node(doc', PathOf[s]) = Node(doc, PathOf[s])
  BY <1>1, <1>2, <1>3 DEF Noticed
<1>4. \A s \in subs : PathOf[s] \in paths => OnItsWay(s)'
  BY ChangePosts
<1>5. \A s : OnItsWay(s) => OnItsWay(s)'
  BY ChangePosts DEF OnItsWay
<1>6. ASSUME NEW s \in subs \ mixed' PROVE Told(s)'
  <2>1. CASE PathOf[s] \in paths
    BY <1>4, <2>1 DEF Told
  <2>2. CASE PathOf[s] \notin paths
    BY <1>1, <1>3, <1>5, <2>2 DEF DeliverInv, Told
  <2> QED
    BY <2>1, <2>2
<1>7. ASSUME NEW w \in Workers, Doing(w, "call")
      PROVE  doing[w].sub \in subs \ mixed' => doing[w].val = Node(doc', PathOf[doing[w].sub])
  <2> DEFINE s == doing[w].sub
  <2> SUFFICES ASSUME s \in subs \ mixed' PROVE doing[w].val = Node(doc', PathOf[s])
    OBVIOUS
  <2>1. Copied(s)
    BY <1>7 DEF Copied, Doing
  <2>2. PathOf[s] \notin paths
    BY <1>1, <2>1
  <2> QED
    BY <1>3, <1>7, <2>2 DEF DeliverInv, CopyFresh
<1>8. \A w \in Workers : CopyFresh(w)' /\ (cfgLock' = w => doing'[w] = SaveTask)
  BY <1>1, <1>7 DEF DeliverInv, CopyFresh, Doing
<1> QED
  BY <1>1, <1>6, <1>8 DEF DeliverInv, Up

LEMMA OthersDeliver ==
  ASSUME SaveInv, CfgInv, DeliverInv, SetByOthers
  PROVE  DeliverInv'
<1>1. PICK new \in NewDocs : \/ SetAll(new)
                             \/ \E s \in Sections : SetSection(s, new)
                             \/ \E l \in Leaves : new[l] # Absent /\ SetLeaf(l, new[l])
  BY DEF SetByOthers
<1>2. new \in Doc /\ Up
  BY ConfigAssumption DEF SetByOthers, Call
<1>3. CASE SetAll(new)
  BY <1>2, <1>3, DiffNoticed, ChangeDelivers DEF SetAll
<1>4. ASSUME NEW s \in Sections, SetSection(s, new) PROVE DeliverInv'
  <2>1. WithSection(s, new) \in Doc
    BY <1>2 DEF CfgInv, WithSection, Doc
  <2> QED
    BY <1>2, <1>4, <2>1, DiffNoticed, ChangeDelivers DEF SetSection
<1>5. ASSUME NEW l \in Leaves, new[l] # Absent, SetLeaf(l, new[l]) PROVE DeliverInv'
  <2>1. new[l] \in Value /\ doc[l] # Absent
    BY <1>2, <1>5 DEF Doc, SetLeaf, CompareJsonTypeByPath
  <2> QED
    BY <1>2, <1>5, <2>1, LeafNoticed, ChangeDelivers DEF SetLeaf
<1> QED
  BY <1>1, <1>3, <1>4, <1>5

LEMMA DeliverKept ==
  ASSUME DeliverInv, UNCHANGED <<tasks, doing, doc, subs, seen, mixed, cfgLock>>,
         ~Up' => ~Up
  PROVE  DeliverInv'
<1>1. Outstanding' = Outstanding
  BY DEF Outstanding
<1> QED
  BY <1>1 DEF DeliverInv, CopyFresh, Doing, Told, OnItsWay

LEMMA ConfigDelivers ==
  ASSUME SaveInv, CfgInv, DeliverInv, ConfigStep
  PROVE  DeliverInv'
<1>1. ASSUME NEW s \in Subscribers, Subscribe(s) PROVE DeliverInv'
  <2>1. /\ UNCHANGED <<tasks, doing, doc, cfgLock, phase>> /\ Up
        /\ subs' = subs \cup {s} /\ s \notin subs
        /\ DOMAIN seen' = Subscribers /\ seen'[s] = Node(doc, PathOf[s])
        /\ \A x \in Subscribers \ {s} : seen'[x] = seen[x]
        /\ mixed' = IF Copied(s) THEN mixed \cup {s} ELSE mixed \ {s}
    BY <1>1 DEF Subscribe, Call, poolVars, DeliverInv
  <2>2. subs \subseteq Subscribers
    BY DEF SaveInv
  <2>3. \A x : OnItsWay(x)' <=> OnItsWay(x)
    BY <2>1 DEF OnItsWay, Outstanding
  <2>4. \A x \in subs' \ mixed' : Told(x)'
    BY <2>1, <2>2, <2>3 DEF DeliverInv, Told
  <2>5. \A w \in Workers : CopyFresh(w)'
    <3> SUFFICES ASSUME NEW w \in Workers, Doing(w, "call") PROVE CopyFresh(w)'
      BY <2>1 DEF CopyFresh, Doing
    <3>1. doing[w].sub = s => Copied(s)
      BY DEF Copied, Doing
    <3> QED
      BY <2>1, <3>1 DEF DeliverInv, CopyFresh
  <2> QED
    BY <2>1, <2>4, <2>5 DEF DeliverInv, Up
<1>2. ASSUME NEW s \in Subscribers, Unsubscribe(s) PROVE DeliverInv'
  <2>1. /\ UNCHANGED <<tasks, doing, doc, cfgLock, phase, seen, mixed>> /\ Up
        /\ subs' = subs \ {s}
    BY <1>2 DEF Unsubscribe, poolVars
  <2>2. Outstanding' = Outstanding
    BY <2>1 DEF Outstanding
  <2> QED
    BY <2>1, <2>2 DEF DeliverInv, CopyFresh, Doing, Told, OnItsWay, Up
<1>3. ASSUME NEW w \in Workers, WorkerStep(w) PROVE DeliverInv'
  BY <1>3, WorkerDelivers
<1>4. CASE Restore
  <2>1. /\ UNCHANGED <<tasks, doing, doc, subs, phase, seen, mixed>> /\ cfgLock' = "restore"
    BY <1>4 DEF Restore, poolVars
  <2>2. Outstanding' = Outstanding /\ \A w \in Workers : cfgLock' # w
    BY <2>1, ConfigAssumption DEF Outstanding
  <2> QED
    BY <2>1, <2>2 DEF DeliverInv, CopyFresh, Doing, Told, OnItsWay, Up
<1>5. CASE BootLoad \/ BootWrite
  <2>1. /\ ~Up /\ UNCHANGED <<tasks, doing, subs, cfgLock, seen, mixed>>
    BY <1>5 DEF BootLoad, BootWrite, poolVars, Up
  <2>2. subs = {}
    BY <2>1 DEF DeliverInv
  <2> QED
    BY <2>1, <2>2 DEF DeliverInv, CopyFresh, Doing
<1>6. CASE Shutdown
  BY <1>6, DeliverKept DEF Shutdown, StopPool, cfgVars, Up
<1> QED
  BY <1>1, <1>2, <1>3, <1>4, <1>5, <1>6 DEF ConfigStep

LEMMA DeliverStep == SaveInv /\ CfgInv /\ VersionInv /\ DeliverInv /\ [Next]_vars => DeliverInv'
<1> SUFFICES ASSUME SaveInv, CfgInv, VersionInv, DeliverInv, [Next]_vars PROVE DeliverInv'
  OBVIOUS
<1>1. ASSUME NEW h \in Handlers, HandlerStep(h) PROVE DeliverInv'
  <2>1. CASE SetVersion(h)
    <3>1. Number(han[h].req.version) \in Value /\ Ver \in Leaves
      BY ListAssumption DEF VersionInv, Handler, Request, Number, Value
    <3>2. doc[Ver] # Absent /\ Up
      BY <2>1 DEF SetVersion, SetLeaf, CanSet, CompareJsonTypeByPath
    <3> QED
      BY <2>1, <3>1, <3>2, LeafNoticed, ChangeDelivers DEF SetVersion, SetLeaf
  <2>2. CASE ~SetVersion(h)
    <3>1. UNCHANGED <<poolVars, cfgVars>>
      BY <1>1, <2>2 DEF HandlerStep, SendList, FullClear, InsertReset, BindTag, BindInfo, StmtStep,
                  InsertExec, InsertFails, FullDone, PartialUpdate, SetVersionFails, AssignVersion
    <3> QED
      BY <3>1, DeliverKept DEF poolVars, cfgVars, Up
  <2> QED
    BY <2>1, <2>2
<1>2. CASE InitList
  BY <1>2, DeliverKept DEF InitList, poolVars, Up
<1>3. CASE OthersSet
  BY <1>3, OthersDeliver DEF OthersSet
<1>4. CASE ConfigStep
  BY <1>4, ConfigDelivers
<1>5. CASE Crash
  <2>1. /\ subs' = {} /\ cfgLock' = Nobody /\ DOMAIN seen' = Subscribers
        /\ doing' = [w \in Workers |-> NoTask]
    BY <1>5 DEF Crash, CfgCrash
  <2> QED
    BY <2>1, ConfigAssumption DEF DeliverInv, CopyFresh, Doing
<1>6. CASE UNCHANGED vars
  BY <1>6, DeliverKept DEF vars, poolVars, cfgVars, Up
<1> QED
  BY <1>1, <1>2, <1>3, <1>4, <1>5, <1>6 DEF Next

LEMMA DeliverInit == Init => DeliverInv
BY ConfigAssumption DEF Init, CfgInit, PoolInit, DeliverInv, CopyFresh, Doing

(* A subscriber for which nothing is on its way was last told the value of *)
(* its node, for every number of subscribers and workers: the comparison   *)
(* of the documents misses no other kinds of change than those that the    *)
(* property excludes, and a callback copies its value late enough.         *)
THEOREM DeliveryCorrect == Spec => []NewestDelivered
<1>1. DeliverInv => NewestDelivered
  BY DEF DeliverInv, NewestDelivered, Told, OnItsWay
<1> QED
  BY <1>1, SaveInit, SaveStep, CfgInitial, CfgStep, VersionInit, VersionStep,
     DeliverInit, DeliverStep, PTL DEF Spec
=============================================================================
