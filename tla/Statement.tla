----------------------------- MODULE Statement ------------------------------
(***************************************************************************)
(* A prepared statement as Database::Query uses it.  Every call is a task  *)
(* of the single database worker (DBExecutor::postAndWait), so each        *)
(* operation below is one step of the thread that makes the call.  What    *)
(* sqlite3_reset, sqlite3_bind_* and sqlite3_step do is SQLite's.          *)
(***************************************************************************)
CONSTANT Null

(* A statement that has just been prepared.                                *)
Prepared(params) == [ready |-> TRUE, args |-> [k \in params |-> Null]]

(* Query::reset: rewinds and clears the bindings.                          *)
ResetQuery(stmt) == Prepared(DOMAIN stmt.args)

(* Query::bind: refused by SQLite on a statement that has been stepped and *)
(* not reset; the callers ignore the result.                               *)
BindQuery(stmt, k, v) == IF stmt.ready THEN [stmt EXCEPT !.args[k] = v] ELSE stmt

(* Query::exec: a statement that was stepped before is rewound by SQLite,  *)
(* its bindings stay.                                                      *)
SteppedQuery(stmt) == [stmt EXCEPT !.ready = FALSE]
=============================================================================
