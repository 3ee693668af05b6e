----------------------------- MODULE ThreadPool -----------------------------
(***************************************************************************)
(* The thread pool of the OCPP part (tool/threadpool): a queue of tasks    *)
(* and a fixed set of workers.  The module is extended by the components   *)
(* that post tasks and say what running one does; a task is any value.     *)
(*                                                                         *)
(* The workers wait with a predicate under queue_mutex and enqueue         *)
(* notifies after each push, so a worker that can take a task is never     *)
(* left waiting: Take is enabled whenever the queue is not empty.          *)
(***************************************************************************)
EXTENDS Integers, Sequences, FiniteSets

CONSTANTS
  Workers,
  NoTask     \* what a worker without a task is doing

VARIABLES
  tasks,     \* the queue
  doing,     \* the task of each worker
  poolStop,  \* stop
  exited     \* the workers that have returned

poolVars == <<tasks, doing, poolStop, exited>>

PoolInit ==
  /\ tasks = <<>>
  /\ doing = [w \in Workers |-> NoTask]
  /\ poolStop = FALSE
  /\ exited = {}

(* enqueue throws on a stopped pool: the callers' guards.                  *)
CanEnqueue == ~poolStop

Enqueue(t) ==
  /\ tasks' = Append(tasks, t)
  /\ UNCHANGED <<doing, poolStop, exited>>

Take(w) ==
  /\ w \notin exited
  /\ doing[w] = NoTask
  /\ tasks # <<>>
  /\ doing' = [doing EXCEPT ![w] = Head(tasks)]
  /\ tasks' = Tail(tasks)
  /\ UNCHANGED <<poolStop, exited>>

(* The end of a task, as part of the step in which its work is done.       *)
Finish(w) ==
  /\ doing' = [doing EXCEPT ![w] = NoTask]
  /\ UNCHANGED <<tasks, poolStop, exited>>

ExitEarly(w) ==
  /\ w \notin exited
  /\ doing[w] = NoTask
  /\ poolStop
  /\ exited' = exited \cup {w}
  /\ UNCHANGED <<tasks, doing, poolStop>>
(* A worker of a stopped pool returns only when the queue is empty.        *)
Exit(w) ==
  /\ w \notin exited
  /\ doing[w] = NoTask
  /\ poolStop
  /\ tasks = <<>>
  /\ exited' = exited \cup {w}
  /\ UNCHANGED <<tasks, doing, poolStop>>

(* The destructor up to the joins.                                         *)
StopPool ==
  /\ ~poolStop
  /\ poolStop' = TRUE
  /\ UNCHANGED <<tasks, doing, exited>>

(* The tasks that are waiting or being run.                                *)
Outstanding ==
  {tasks[i] : i \in DOMAIN tasks} \cup ({doing[w] : w \in Workers} \ {NoTask})
=============================================================================
