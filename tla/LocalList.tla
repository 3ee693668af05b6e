----------------------------- MODULE LocalList ------------------------------
(***************************************************************************)
(* The local authorization list (action/authorize/AuthentLocalList.cpp):   *)
(* a table of the database and a version, which is kept in memory and in   *)
(* the configuration.  SendLocalList of the central system is handled by   *)
(* any worker of the client's pool, so two of them may run at once.  They  *)
(* share the statement m_insert_query and take no lock.                    *)
(*                                                                         *)
(* A request is what its handler looks at: the type, the version, and the  *)
(* records with a tag and the rest (parent, expiry, status) as one value.  *)
(* A request that is refused before the update changes nothing; it is left *)
(* out, and so is the answer, which nothing waits for.                     *)
(***************************************************************************)
EXTENDS ConfigManager, Statement

CONSTANTS
  Handlers,     \* workers of the client's pool
  Requests,     \* SendLocalList requests, valid ones
  Tags,
  Infos,
  Ver,          \* the leaf ChargePoint.LocalListVersion
  Enabled,      \* the leaf OCPP1_6.LocalAuthListEnabled
  ListMax,      \* the value of OCPP1_6.LocalAuthListMaxLength
  MaxRequests   \* bound of the requests among these calls

Record  == [tag : Tags, info : Infos]
Request == [full : BOOLEAN, version : Nat, list : Seq(Record)]

ASSUME ListAssumption ==
  /\ {Ver, Enabled} \subseteq Leaves
  /\ Requests \subseteq Request
  /\ Null \notin Tags \cup Infos /\ Absent \notin Infos
  /\ ListMax \in Nat /\ MaxRequests \in Nat

VARIABLES
  table,     \* the rows by their tag; a row whose tag is NULL is never found
  stmt,      \* m_insert_query
  version,   \* m_local_list_version
  han,       \* the handlers
  requests,  \* number of requests
  \* history
  torn,      \* an update is under way, or the last one failed or met another
  listOf,    \* the rows the last full update stood for
  diverged   \* the version in the configuration has been written by others

listVars == <<table, stmt, version, han, requests, torn, listOf, diverged>>
vars == <<poolVars, cfgVars, cfgBounds, listVars>>

NoReq  == [full |-> FALSE, version |-> 0, list |-> <<>>]
Resting == [pc |-> "idle", req |-> NoReq, i |-> 1, ok |-> TRUE, alone |-> TRUE]

EmptyTable == [t \in Tags |-> Absent]
TableOf(list) ==
  [t \in Tags |-> LET I == {i \in DOMAIN list : list[i].tag = t}
                  IN IF I = {} THEN Absent ELSE list[CHOOSE i \in I : TRUE].info]

Init ==
  /\ CfgInit
  /\ table = EmptyTable
  /\ stmt = Prepared({"tag", "info"})
  /\ version = 0
  /\ han = [h \in Handlers |-> Resting]
  /\ requests = 0
  /\ torn = FALSE
  /\ listOf = EmptyTable
  /\ diverged = FALSE

TypeOK ==
  /\ CfgTypeOK
  /\ table \in [Tags -> Infos \cup {Absent, Null}]
  /\ stmt.ready \in BOOLEAN
  /\ version \in Nat
  /\ \A h \in Handlers :
       /\ han[h].pc \in {"idle", "diff", "clear", "reset", "tag", "info", "exec",
                         "final", "config", "assign"}
       /\ han[h].ok \in BOOLEAN
       /\ han[h].pc \in {"reset", "tag", "info", "exec"} => han[h].i \in DOMAIN han[h].req.list
  /\ requests \in 0 .. MaxRequests
  /\ torn \in BOOLEAN /\ diverged \in BOOLEAN

-----------------------------------------------------------------------------
InitListZero ==
  /\ phase = "list"
  /\ version' = 0
  /\ phase' = "up"
  /\ diverged' = FALSE
  /\ UNCHANGED <<poolVars, cfgBounds, doc, file, pending, subs, cfgLock, behind, seen,
                 mixed, table, stmt, han, requests, torn, listOf>>
(* The end of initDatabaseTable: only an unsigned number is a version.     *)
VersionIn(d) == IF d[Ver] # Absent /\ d[Ver].rep = "int" THEN d[Ver].v ELSE 0
InitList ==
  /\ phase = "list"
  /\ version' = VersionIn(doc)
  /\ phase' = "up"
  /\ diverged' = FALSE
  /\ UNCHANGED <<poolVars, cfgBounds, doc, file, pending, subs, cfgLock, behind, seen,
                 mixed, table, stmt, han, requests, torn, listOf>>

(* sendListCallHandler up to the update.                                   *)
SendList(h, r) ==
  /\ Call /\ CanEnqueue
  /\ cfgLock = Nobody
  /\ han[h].pc = "idle"
  /\ requests < MaxRequests
  /\ doc[Enabled] # Absent /\ doc[Enabled].rep = "true"
  /\ IF r.full THEN Len(r.list) <= ListMax ELSE r.version > version
  /\ requests' = requests + 1
  /\ han' = [han EXCEPT ![h] = [Resting EXCEPT !.pc = IF r.full THEN "clear" ELSE "diff",
                                               !.req = r]]
  /\ UNCHANGED <<poolVars, cfgVars, table, stmt, version, torn, listOf, diverged>>

Goto(h, pc) == han' = [han EXCEPT ![h].pc = pc]
Rest(h)     == han' = [han EXCEPT ![h] = Resting]

(* performFullUpdate after the checks: DELETE, then the records.           *)
Updating(h)    == han[h].pc \in {"reset", "tag", "info", "exec", "final"}
FirstRecord(h) == IF han[h].req.list = <<>> THEN "final" ELSE "reset"

(* A full update begins; it is alone until it meets another one.           *)
BeginFull(h, pc, ok) ==
  LET others == {g \in Handlers \ {h} : Updating(g)} IN
  han' = [g \in Handlers |->
            IF g = h THEN [han[h] EXCEPT !.pc = pc, !.ok = ok, !.alone = others = {}]
            ELSE IF g \in others THEN [han[g] EXCEPT !.alone = FALSE] ELSE han[g]]

FullClearSkipped(h) ==
  /\ han[h].pc = "clear"
  /\ \/ table' = table /\ BeginFull(h, FirstRecord(h), TRUE) /\ UNCHANGED cfgBounds
     \/ table' = table /\ BeginFull(h, "final", FALSE) /\ Fault
  /\ torn' = TRUE
  /\ UNCHANGED <<poolVars, cfgVars, stmt, version, requests, listOf, diverged>>
FullClear(h) ==
  /\ han[h].pc = "clear"
  /\ \/ table' = EmptyTable /\ BeginFull(h, FirstRecord(h), TRUE) /\ UNCHANGED cfgBounds
     \/ table' = table /\ BeginFull(h, "final", FALSE) /\ Fault
  /\ torn' = TRUE
  /\ UNCHANGED <<poolVars, cfgVars, stmt, version, requests, listOf, diverged>>

Rec(h) == han[h].req.list[han[h].i]

StmtStep(h, pc, new, next) ==
  /\ han[h].pc = pc
  /\ stmt' = new
  /\ Goto(h, next)
  /\ UNCHANGED <<poolVars, cfgVars, cfgBounds, table, version, requests, torn, listOf, diverged>>

InsertReset(h) == StmtStep(h, "reset", ResetQuery(stmt), "tag")
BindTag(h)     == StmtStep(h, "tag", BindQuery(stmt, "tag", Rec(h).tag), "info")
BindInfo(h)    == StmtStep(h, "info", BindQuery(stmt, "info", Rec(h).info), "exec")

AfterInsertPast(h) ==
  IF han[h].i <= Len(han[h].req.list) THEN [han[h] EXCEPT !.pc = "reset", !.i = @ + 1]
  ELSE [han[h] EXCEPT !.pc = "final"]
(* The next record, if there is one.                                       *)
AfterInsert(h) ==
  IF han[h].i < Len(han[h].req.list) THEN [han[h] EXCEPT !.pc = "reset", !.i = @ + 1]
  ELSE [han[h] EXCEPT !.pc = "final"]

(* A tag must be unique, unless it is NULL.                                *)
Inserts == stmt.args["tag"] # Null
Unique  == Inserts => table[stmt.args["tag"]] = Absent

InsertExec(h) ==
  /\ han[h].pc = "exec"
  /\ Unique
  /\ table' = IF Inserts THEN [table EXCEPT ![stmt.args["tag"]] = stmt.args["info"]] ELSE table
  /\ stmt' = SteppedQuery(stmt)
  /\ han' = [han EXCEPT ![h] = AfterInsert(h)]
  /\ UNCHANGED <<poolVars, cfgVars, cfgBounds, version, requests, torn, listOf, diverged>>

InsertFails(h) ==
  /\ han[h].pc = "exec"
  /\ IF Unique THEN Fault ELSE UNCHANGED cfgBounds
  /\ stmt' = SteppedQuery(stmt)
  /\ han' = [han EXCEPT ![h].pc = "final", ![h].ok = FALSE]
  /\ UNCHANGED <<poolVars, cfgVars, table, version, requests, torn, listOf, diverged>>

(* The last reset; a failed update is answered Failed, and the list stays  *)
(* as far as it came.                                                      *)
FullDone(h) ==
  /\ han[h].pc = "final"
  /\ stmt' = ResetQuery(stmt)
  /\ IF han[h].ok THEN Goto(h, "config") ELSE Rest(h)
  /\ IF han[h].ok /\ han[h].alone
       THEN torn' = FALSE /\ listOf' = TableOf(han[h].req.list)
       ELSE UNCHANGED <<torn, listOf>>
  /\ UNCHANGED <<poolVars, cfgVars, cfgBounds, table, version, requests, diverged>>

(* performPartialUpdate: the update statement takes parent, expiry, status *)
(* and tag in this order, but is bound with the tag first and the status   *)
(* last.  It looks for a tag that is spelled like the number of a status,  *)
(* so it changes no row, and succeeds.                                     *)
PartialUpdate(h) ==
  /\ han[h].pc = "diff"
  /\ \/ Goto(h, "config") /\ UNCHANGED cfgBounds
     \/ han[h].req.list # <<>> /\ Rest(h) /\ Fault
  /\ UNCHANGED <<poolVars, cfgVars, table, stmt, version, requests, torn, listOf, diverged>>

(* The version in the configuration; if it cannot be set, the answer is    *)
(* Failed.                                                                 *)
SetVersion(h) ==
  /\ han[h].pc = "config"
  /\ SetLeaf(Ver, Number(han[h].req.version))
  /\ Goto(h, "assign")
  /\ diverged' = (\E g \in Handlers \ {h} : han[g].pc = "assign")
  /\ UNCHANGED <<cfgBounds, table, stmt, version, requests, torn, listOf>>

SetVersionFails(h) ==
  /\ han[h].pc = "config"
  /\ cfgLock = Nobody
  /\ ~CompareJsonTypeByPath(Ver, Number(0))
  /\ Rest(h)
  /\ UNCHANGED <<poolVars, cfgVars, cfgBounds, table, stmt, version, requests, torn,
                 listOf, diverged>>

(* The version in memory, and the answer Accepted.                         *)
AssignVersion(h) ==
  /\ han[h].pc = "assign"
  /\ version' = han[h].req.version
  /\ Rest(h)
  /\ UNCHANGED <<poolVars, cfgVars, cfgBounds, table, stmt, requests, torn, listOf, diverged>>

HandlerStep(h) ==
  \/ \E r \in Requests : SendList(h, r)
  \/ FullClear(h) \/ InsertReset(h) \/ BindTag(h) \/ BindInfo(h) \/ InsertExec(h)
  \/ InsertFails(h) \/ FullDone(h) \/ PartialUpdate(h)
  \/ SetVersion(h) \/ SetVersionFails(h) \/ AssignVersion(h)

-----------------------------------------------------------------------------
(* The rest of the program and the configuration manager.                  *)

OthersSet ==
  /\ SetByOthers
  /\ diverged' = (diverged \/ doc'[Ver] # doc[Ver])
  /\ UNCHANGED <<table, stmt, version, han, requests, torn, listOf>>

ConfigStep ==
  /\ \/ \E s \in Subscribers : Subscribe(s) \/ Unsubscribe(s)
     \/ \E w \in Workers : WorkerStep(w)
     \/ Restore \/ BootLoad \/ BootWrite
     \/ Shutdown /\ \A h \in Handlers : han[h].pc = "idle"
  /\ UNCHANGED listVars

(* The process ends at any point and is started again; table and file stay.*)
Crash ==
  /\ CfgCrash
  /\ stmt' = ResetQuery(stmt)
  /\ version' = 0
  /\ han' = [h \in Handlers |-> Resting]
  /\ diverged' = FALSE
  /\ UNCHANGED <<table, requests, torn, listOf>>

Next ==
  \/ InitList
  \/ \E h \in Handlers : HandlerStep(h)
  \/ OthersSet
  \/ ConfigStep
  \/ Crash

Spec == Init /\ [][Next]_vars

-----------------------------------------------------------------------------
(* Properties.                                                             *)

(* From the end of a full update that met no other and did not fail, the   *)
(* table is the list that was sent, across crashes, until the next full    *)
(* update begins.                                                          *)
ListMatches == ~torn => table = listOf

(* The version answered to GetLocalListVersion is the one in the           *)
(* configuration whenever no handler is between its two assignments, also  *)
(* after a restart, unless the rest of the program wrote the configuration *)
(* or two handlers were between them at once.                              *)
VersionsAgree ==
  Up /\ ~diverged => \/ version = VersionIn(doc)
                     \/ \E h \in Handlers : han[h].pc = "assign"

(* With a single handler: when a differential update has reported all its  *)
(* tags as updated, the rows with these tags hold what was sent.           *)
DifferentialApplied ==
  \A h \in Handlers :
    han[h].pc = "config" /\ ~han[h].req.full =>
      \A i \in DOMAIN han[h].req.list :
        table[han[h].req.list[i].tag] \in {Absent, TableOf(han[h].req.list)[han[h].req.list[i].tag]}
=============================================================================
