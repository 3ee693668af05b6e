--------------------------- MODULE ConfigManager ----------------------------
(***************************************************************************)
(* The configuration manager (config/ConfigManager.cpp): a document in     *)
(* memory, its cached copy in a file, and subscriptions to its nodes.      *)
(* setConfig changes the document under m_cfgMutex and leaves two things   *)
(* to the pool: the callbacks, and one delayed save at a time.             *)
(*                                                                         *)
(* A document is a function on its leaves; a section of it exists while    *)
(* one of its leaves does.  A value keeps what the code looks at: its JSON *)
(* type and, for numbers, the representation.  m_subMutex is held only for *)
(* single steps, m_cfgMutex also while the file is being written.  A call  *)
(* of setConfig that is refused changes nothing and is left out.           *)
(***************************************************************************)
EXTENDS ThreadPool

CONSTANTS
  Leaves,       \* paths "section.leaf"
  SectionOf,    \* the section of each leaf
  Defaults,     \* DEFAULT_CONFIG_JSON
  DefaultFile,  \* the default file: a document or Broken
  NewDocs,      \* documents others than the local list write, whole or in part
  Subscribers,
  PathOf,       \* the path each subscriber asks for
  Absent,
  Broken,       \* a file that is missing, empty or cannot be parsed
  NoVal,
  Nobody,
  MaxOps,       \* bound of the calls made by the rest of the program
  MaxFaults,    \* bound of failing file and database operations
  MaxCrashes

Sections == {SectionOf[l] : l \in Leaves}

Number(n) == [rep |-> "int", v |-> n]
Value     == [rep : {"int", "double", "true", "false", "string"}, v : Nat]
Doc       == [Leaves -> Value \cup {Absent}]

ASSUME ConfigAssumption ==
  /\ IsFiniteSet(Leaves) /\ IsFiniteSet(Subscribers)
  /\ Absent \notin Value /\ Nobody \notin Subscribers
  /\ Leaves \cap Sections = {} /\ Workers \cap {"restore", Nobody} = {}
  /\ Defaults \in [Leaves -> Value]
  /\ DefaultFile = Broken \/ DefaultFile \in Doc
  /\ NewDocs \subseteq Doc
  /\ \A s \in Subscribers : PathOf[s] \in Leaves \cup Sections
  /\ MaxOps \in Nat /\ MaxFaults \in Nat /\ MaxCrashes \in Nat

VARIABLES
  doc,        \* m_currentDoc
  file,       \* the cached file
  pending,    \* m_isSavePending
  subs,       \* m_subscriptions
  cfgLock,    \* m_cfgMutex: a worker, "restore" or Nobody
  phase,      \* of the process: "load", "write" (both initConfig), "list" or "up"
  ops, faults, crashes,
  \* history
  behind,     \* the last write of the file failed, and nothing was set since
  seen,       \* what each subscriber was told last, or read when it subscribed
  mixed       \* subscribers the code may leave with an older value

cfgBounds == <<ops, faults, crashes>>
cfgVars   == <<doc, file, pending, subs, cfgLock, phase, behind, seen, mixed>>

Up == phase = "up"

Call  == Up /\ ops < MaxOps /\ ops' = ops + 1 /\ UNCHANGED <<faults, crashes>>
Fault == faults < MaxFaults /\ faults' = faults + 1 /\ UNCHANGED <<ops, crashes>>

-----------------------------------------------------------------------------
(* JSON values and documents.                                              *)

JsonType(v) == IF v.rep \in {"int", "double"} THEN "number" ELSE v.rep
IsBool(v)   == v.rep \in {"true", "false"}
SameType(a, b) == JsonType(a) = JsonType(b) \/ (IsBool(a) /\ IsBool(b))

HasSection(d, s) == \E l \in Leaves : SectionOf[l] = s /\ d[l] # Absent

(* findNode; a section's node is its leaves.                               *)
Node(d, path) ==
  IF path \in Leaves THEN d[path]
  ELSE IF HasSection(d, path) THEN [l \in {k \in Leaves : SectionOf[k] = path} |-> d[l]]
  ELSE Absent

(* validateAndMergeConfig: what is missing or of another type is taken     *)
(* from the defaults.                                                      *)
Merge(d) ==
  [l \in Leaves |->
     IF d[l] = Absent THEN Defaults[l]
     ELSE IF SameType(d[l], Defaults[l]) THEN d[l] ELSE Defaults[l]]

(* Two values of a leaf: numbers of different representations are not      *)
(* compared.                                                               *)
Differs(a, b) ==
  \/ JsonType(a) # JsonType(b)
  \/ a.rep = b.rep /\ a.v # b.v

DiffAddedOnly(old, new) ==
  {s \in Sections : HasSection(new, s) /\ ~HasSection(old, s)}
    \cup {l \in Leaves : /\ HasSection(old, SectionOf[l])
                         /\ HasSection(new, SectionOf[l])
                         /\ old[l] = Absent /\ new[l] # Absent}
(* diffJsonObjects: a section that comes or goes is reported by its own    *)
(* path only.                                                              *)
DiffJsonObjects(old, new) ==
  {s \in Sections : HasSection(old, s) # HasSection(new, s)}
    \cup {l \in Leaves :
            /\ HasSection(old, SectionOf[l])
            /\ HasSection(new, SectionOf[l])
            /\ \/ (old[l] = Absent) # (new[l] = Absent)
               \/ old[l] # Absent /\ new[l] # Absent /\ Differs(old[l], new[l])}

(* CompareJsonTypeByPath for a leaf.                                       *)
CompareJsonTypeByPath(l, v) == doc[l] # Absent /\ SameType(doc[l], v)

-----------------------------------------------------------------------------
SaveTask  == [kind |-> "save", sub |-> Nobody, val |-> NoVal]
CbTask(s) == [kind |-> "callback", sub |-> s, val |-> NoVal]

(* A callback task that has taken its copy of the node.                    *)
CallTask(s, v) == [kind |-> "call", sub |-> s, val |-> v]

NodeValue == Value \cup {Absent} \cup UNION {[L -> Value \cup {Absent}] : L \in SUBSET Leaves}
PoolTask  == [kind : {"save", "callback", "call"}, sub : Subscribers \cup {Nobody},
              val : NodeValue \cup {NoVal}]

ASSUME TaskAssumption == NoTask \notin PoolTask

CfgInit ==
  /\ PoolInit
  /\ doc = Defaults
  /\ file = Broken
  /\ pending = FALSE
  /\ subs = {}
  /\ cfgLock = Nobody
  /\ phase = "load"
  /\ ops = 0 /\ faults = 0 /\ crashes = 0
  /\ behind = FALSE
  /\ seen = [s \in Subscribers |-> NoVal]
  /\ mixed = {}

CfgTypeOK ==
  /\ doc \in Doc
  /\ file = Broken \/ file \in Doc
  /\ pending \in BOOLEAN
  /\ subs \subseteq Subscribers
  /\ cfgLock \in Workers \cup {"restore", Nobody}
  /\ phase \in {"load", "write", "list", "up"}
  /\ behind \in BOOLEAN
  /\ mixed \subseteq Subscribers
  /\ \A i \in DOMAIN tasks : tasks[i].kind \in {"save", "callback"}
  /\ ops \in 0 .. MaxOps /\ faults \in 0 .. MaxFaults /\ crashes \in 0 .. MaxCrashes

-----------------------------------------------------------------------------
(* setConfig.                                                              *)

(* triggerCallbacks: only the subscribers of exactly this path, in the     *)
(* order of a hash table.                                                  *)
Orders(S) == {f \in [1 .. Cardinality(S) -> S] : \A i, j \in DOMAIN f : f[i] = f[j] => i = j}

(* What the comparison of the documents overlooks for a subscriber: a      *)
(* change within its section, the section around its leaf that comes or    *)
(* goes, and a number that changes its representation.                     *)
Overlooked(s, new) ==
  LET p == PathOf[s] IN
  IF p \in Sections THEN HasSection(doc, p) /\ HasSection(new, p)
  ELSE \/ HasSection(doc, SectionOf[p]) # HasSection(new, SectionOf[p])
       \/ doc[p] # Absent /\ new[p] # Absent /\ doc[p].rep # new[p].rep
            /\ JsonType(doc[p]) = JsonType(new[p])

(* A callback that already holds its copy may be the last to be called.    *)
Copied(s) == \E w \in Workers : doing[w] # NoTask /\ doing[w].kind = "call" /\ doing[w].sub = s

(* The rest of setConfig: the new document, the callbacks and, unless one  *)
(* is pending, a save.                                                     *)
Change(new, paths) ==
  LET called  == {s \in subs : PathOf[s] \in paths}
      changed == {s \in subs : Node(new, PathOf[s]) # Node(doc, PathOf[s])}
  IN
  /\ doc' = new
  /\ pending' = TRUE
  /\ \E f \in Orders(called) :
       tasks' = tasks \o [i \in DOMAIN f |-> CbTask(f[i])]
                      \o (IF pending THEN <<>> ELSE <<SaveTask>>)
  /\ mixed' = {s \in subs : \/ s \in changed \ called /\ Overlooked(s, new)
                            \/ s \in called /\ Copied(s)
                            \/ s \in mixed \ called}
  /\ behind' = FALSE
  /\ UNCHANGED <<doing, poolStop, exited, file, subs, cfgLock, phase, seen>>

CanSet == Up /\ cfgLock = Nobody /\ CanEnqueue

SetLeaf(l, v) ==
  /\ CanSet
  /\ CompareJsonTypeByPath(l, v)
  /\ Change([doc EXCEPT ![l] = v], {l})

(* The parent that findOrCreateParentNode looks for is always there.       *)
WithSection(s, new) == [l \in Leaves |-> IF SectionOf[l] = s THEN new[l] ELSE doc[l]]

SetSection(s, new) ==
  /\ CanSet
  /\ HasSection(doc, s) /\ HasSection(new, s)
  /\ Change(WithSection(s, new), DiffJsonObjects(doc, WithSection(s, new)))

SetAll(new) == CanSet /\ Change(new, DiffJsonObjects(doc, new))

(* setConfig by the rest of the program, with the three kinds of key.      *)
SetByOthers ==
  /\ Call
  /\ \E new \in NewDocs :
       \/ SetAll(new)
       \/ \E s \in Sections : SetSection(s, new)
       \/ \E l \in Leaves : new[l] # Absent /\ SetLeaf(l, new[l])

Subscribe(s) ==
  /\ Call
  /\ s \notin subs
  /\ subs' = subs \cup {s}
  /\ seen' = [seen EXCEPT ![s] = Node(doc, PathOf[s])]
  /\ mixed' = IF Copied(s) THEN mixed \cup {s} ELSE mixed \ {s}
  /\ UNCHANGED <<poolVars, doc, file, pending, cfgLock, phase, behind>>

(* Callbacks that are in the pool are still called.                        *)
Unsubscribe(s) ==
  /\ Up
  /\ s \in subs
  /\ subs' = subs \ {s}
  /\ UNCHANGED <<poolVars, cfgBounds, doc, file, pending, cfgLock, phase, behind, seen, mixed>>

-----------------------------------------------------------------------------
(* The tasks.                                                              *)

Doing(w, kind) == doing[w] # NoTask /\ doing[w].kind = kind

TakeTask(w) == Take(w) /\ UNCHANGED <<cfgVars, cfgBounds>>

(* saveJsonToFile: opening the file truncates it.                          *)
SaveOpen(w) ==
  /\ Doing(w, "save")
  /\ cfgLock = Nobody
  /\ cfgLock' = w
  /\ file' = Broken
  /\ UNCHANGED <<poolVars, cfgBounds, doc, pending, subs, phase, behind, seen, mixed>>

SaveOpenFails(w) ==
  /\ Doing(w, "save")
  /\ cfgLock = Nobody
  /\ Fault
  /\ pending' = FALSE
  /\ behind' = TRUE
  /\ Finish(w)
  /\ UNCHANGED <<doc, file, subs, cfgLock, phase, seen, mixed>>

SaveWriteKeepsFlag(w) ==
  /\ cfgLock = w
  /\ \/ file' = doc /\ behind' = FALSE /\ UNCHANGED cfgBounds
     \/ file' = Broken /\ behind' = TRUE /\ Fault
  /\ cfgLock' = Nobody
  /\ Finish(w)
  /\ UNCHANGED <<doc, pending, subs, phase, seen, mixed>>
(* The write, whole or short, and the flag, still under the lock.          *)
SaveWrite(w) ==
  /\ cfgLock = w
  /\ \/ file' = doc /\ behind' = FALSE /\ UNCHANGED cfgBounds
     \/ file' = Broken /\ behind' = TRUE /\ Fault
  /\ pending' = FALSE
  /\ cfgLock' = Nobody
  /\ Finish(w)
  /\ UNCHANGED <<doc, subs, phase, seen, mixed>>

(* A callback task copies the node under the lock.                         *)
CopyNode(w) ==
  /\ Doing(w, "callback")
  /\ cfgLock = Nobody
  /\ LET val == Node(doc, PathOf[doing[w].sub]) IN
     IF val = Absent THEN Finish(w)
     ELSE /\ doing' = [doing EXCEPT ![w] = CallTask(@.sub, val)]
          /\ UNCHANGED <<tasks, poolStop, exited>>
  /\ UNCHANGED <<cfgVars, cfgBounds>>

CallBack(w) ==
  /\ Doing(w, "call")
  /\ seen' = [seen EXCEPT ![doing[w].sub] = doing[w].val]
  /\ Finish(w)
  /\ UNCHANGED <<cfgBounds, doc, file, pending, subs, cfgLock, phase, behind, mixed>>

WorkerExit(w) == Exit(w) /\ UNCHANGED <<cfgVars, cfgBounds>>

WorkerStep(w) ==
  \/ TakeTask(w) \/ SaveOpen(w) \/ SaveOpenFails(w) \/ SaveWrite(w)
  \/ CopyNode(w) \/ CallBack(w) \/ WorkerExit(w)

-----------------------------------------------------------------------------
(* restoreConfig removes the file and calls initConfig with m_cfgMutex     *)
(* held, which waits for its own lock.                                     *)
Restore ==
  /\ Call
  /\ cfgLock = Nobody
  /\ cfgLock' = "restore"
  /\ file' = Broken
  /\ UNCHANGED <<poolVars, doc, pending, subs, phase, behind, seen, mixed>>

(* loadJsonFromFile succeeds unless the file is broken.                    *)
LoadedOr(f, other) == IF f # Broken THEN f ELSE other

(* initConfig: the first of the cached file, the default file and the      *)
(* defaults that can be read, completed and written back.                  *)
BootLoad ==
  /\ phase = "load"
  /\ doc' = Merge(LoadedOr(file, LoadedOr(DefaultFile, Defaults)))
  /\ \/ file' = Broken /\ phase' = "write" /\ UNCHANGED <<behind, cfgBounds>>
     \/ file' = file /\ phase' = "list" /\ behind' = TRUE /\ Fault
  /\ UNCHANGED <<poolVars, pending, subs, cfgLock, seen, mixed>>

BootWrite ==
  /\ phase = "write"
  /\ \/ file' = doc /\ UNCHANGED <<behind, cfgBounds>>
     \/ file' = Broken /\ behind' = TRUE /\ Fault
  /\ phase' = "list"
  /\ UNCHANGED <<poolVars, doc, pending, subs, cfgLock, seen, mixed>>

(* The singleton is destroyed: its pool works off what is left.            *)
Shutdown == Up /\ StopPool /\ UNCHANGED <<cfgVars, cfgBounds>>

CfgCrash ==
  /\ crashes < MaxCrashes
  /\ crashes' = crashes + 1
  /\ tasks' = <<>>
  /\ doing' = [w \in Workers |-> NoTask]
  /\ poolStop' = FALSE
  /\ exited' = {}
  /\ doc' = Defaults
  /\ pending' = FALSE
  /\ subs' = {}
  /\ cfgLock' = Nobody
  /\ phase' = "load"
  /\ behind' = FALSE
  /\ seen' = [s \in Subscribers |-> NoVal]
  /\ mixed' = {}
  /\ UNCHANGED <<file, ops, faults>>

-----------------------------------------------------------------------------
(* Properties.                                                             *)

(* A configuration that differs from the cached file has a save on its     *)
(* way, also while the destructor of the pool drains it, unless the last   *)
(* write failed or restoreConfig hangs: the one flag m_isSavePending and   *)
(* its reset under m_cfgMutex lose no change.                              *)
SavePending ==
  Up /\ doc # file => \/ SaveTask \in Outstanding
                       \/ behind
                       \/ cfgLock = "restore"

(* When no callback is on its way to a subscriber, it was last told the    *)
(* value its node has now, unless the node is gone, an older callback      *)
(* already held its copy when the value changed, or the comparison of      *)
(* setConfig overlooks the kind of change.                                 *)
NewestDelivered ==
  \A s \in subs \ mixed :
    \/ \E t \in Outstanding : t.sub = s
    \/ Node(doc, PathOf[s]) \in {Absent, seen[s]}
=============================================================================
