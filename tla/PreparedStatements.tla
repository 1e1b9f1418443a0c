-------------------------- MODULE PreparedStatements --------------------------
(***************************************************************************)
(* The prepared statements of one open database.  A statement has a handle *)
(* of the client library, which the database lists in db->stmts until it   *)
(* is closed, and a userdata, whose finalizer queues the closing; it keeps *)
(* a plain pointer to its database, and nothing keeps the database alive   *)
(* for it.  The queue is that of LuaDatabase, each library call one step.  *)
(***************************************************************************)
EXTENDS Naturals, Sequences, SequencesExt

CONSTANTS
  Db,             \* the database
  Statements,     \* the statements Lua code may ever prepare
  Executions,     \* the calls of stmt:execute it may ever make
  None            \* no action, no statement

Objects == Statements \cup {Db}

(* The finalizer of an object queues <<"close", object>>.                   *)
Requests == ({"prepare"} \X Statements) \cup ({"execute"} \X Executions)
Actions  == Requests \cup ({"close"} \X Objects)

ASSUME ConstantsAssumption ==
  /\ Db \notin Statements
  /\ None \notin Objects \cup Actions

VARIABLES
  \* class LuaDatabase
  queue, current_action,
  has_finished,      \* of the current action: DoFinish was called
  bind_failed,       \* of the current action: no thread runs its statement
  queue_reference,   \* the database is pinned
  gced,
  stmts,             \* the statements in db->stmts
  instance,          \* "open" or "closed"
  deleted,           \* delete db
  \* class LuaPreparedStatement
  stmt,              \* stmt[s]: "none", "init", "prepared" or "closed"
  \* actions
  target,            \* target[e]: the statement e executes
  outcome,           \* outcome[r]: how the promise of request r is settled
  submitted,         \* the actions queued so far
  \* Lua
  userdata,          \* userdata[o]: "none", "live", "cleared" or "finalized"
  held,              \* the objects Lua code can reach
  callback,          \* a promise calls back
  refused,           \* a call of stmt:execute has raised
  dangling,          \* a deleted database was used: anything may happen
  \* the hooks
  mode,              \* "running", "shutdown" or "down"
  HasCleanedUpAlready

dbVars   == <<queue, current_action, has_finished, bind_failed, queue_reference, gced,
              stmts, instance, deleted>>
callVars == <<target, outcome, submitted>>
luaVars  == <<userdata, held, callback>>
hookVars == <<mode, HasCleanedUpAlready>>

vars == <<dbVars, stmt, callVars, luaVars, refused, dangling, hookVars>>

FlagsOK ==
  /\ has_finished \in BOOLEAN /\ bind_failed \in BOOLEAN
  /\ queue_reference \in BOOLEAN /\ gced \in BOOLEAN
  /\ deleted \in BOOLEAN /\ callback \in BOOLEAN /\ refused \in BOOLEAN
  /\ dangling \in BOOLEAN /\ HasCleanedUpAlready \in BOOLEAN

TypeOK ==
  /\ FlagsOK
  /\ queue \in Seq(Actions)
  /\ current_action \in Actions \cup {None}
  /\ stmts \subseteq Statements
  /\ instance \in {"open", "closed"}
  /\ stmt \in [Statements -> {"none", "init", "prepared", "closed"}]
  /\ target \in [Executions -> Statements \cup {None}]
  /\ outcome \in [Requests -> {"none", "resolved", "rejected"}]
  /\ submitted \subseteq Actions
  /\ userdata \in [Objects -> {"none", "live", "cleared", "finalized"}]
  /\ held \subseteq Objects
  /\ mode \in {"running", "shutdown", "down"}

(* A callback of mysql.connect has just been handed the database.           *)
Init ==
  /\ queue = <<>> /\ current_action = None /\ has_finished = FALSE
  /\ bind_failed = FALSE /\ queue_reference = FALSE /\ gced = FALSE /\ stmts = {}
  /\ instance = "open" /\ deleted = FALSE
  /\ stmt = [s \in Statements |-> "none"]
  /\ target = [e \in Executions |-> None]
  /\ outcome = [r \in Requests |-> "none"]
  /\ submitted = {}
  /\ userdata = [o \in Objects |-> IF o = Db THEN "live" ELSE "none"]
  /\ held = {Db} /\ callback = FALSE /\ refused = FALSE /\ dangling = FALSE
  /\ mode = "running" /\ HasCleanedUpAlready = FALSE

-----------------------------------------------------------------------------
(* The queue                                                                *)

(* Faulty variants: RunTick does not look at the queue; a statement is      *)
(* closed ahead of its turn.                                                *)
BusyCurrently == current_action # None
Jumped(a) == <<a>> \o queue

Busy == current_action # None \/ queue # <<>>

Active == IF current_action # None THEN current_action ELSE Head(queue)
Rest   == IF current_action # None THEN queue ELSE Tail(queue)

Pending == IF current_action = None THEN queue ELSE <<current_action>> \o queue

Appended(a) == Append(queue, a)

(* Push raises once __gc has reset the reference, unless the pin is there.  *)
PushRaises == ~ queue_reference /\ userdata[Db] = "finalized"

InsertAction(a) ==
  /\ queue' = Appended(a)
  /\ queue_reference' = (queue_reference \/ userdata[Db] = "live")
  /\ submitted' = submitted \cup {a}

(* The end of an action's RunTick.                                          *)
Retire ==
  /\ current_action' = None
  /\ queue' = Rest
  /\ has_finished' = FALSE /\ bind_failed' = FALSE
  /\ queue_reference' = (queue_reference /\ Rest # <<>>)

-----------------------------------------------------------------------------
(* Lua code                                                                 *)

LuaRuns == ~ dangling /\ (callback \/ mode = "running")

(* Faulty variant: any userdata passes for a statement.                     *)
AnyCallable == held

(* What GetLuaUserData accepts as the self of a statement's method.         *)
Callable == held \cap Statements

prepare(s) ==
  /\ LuaRuns
  /\ Db \in held /\ stmt[s] = "none"
  /\ stmt' = [stmt EXCEPT ![s] = "init"]
  /\ InsertAction(<<"prepare", s>>)
  /\ UNCHANGED <<current_action, has_finished, bind_failed, gced, stmts, instance,
                 deleted, target, outcome, luaVars, refused, dangling, hookVars>>

execute(e, s) ==
  /\ LuaRuns
  /\ s \in Callable /\ target[e] = None
  /\ ~ deleted /\ ~ PushRaises
  /\ target' = [target EXCEPT ![e] = s]
  /\ InsertAction(<<"execute", e>>)
  /\ UNCHANGED <<current_action, has_finished, bind_failed, gced, stmts, instance,
                 deleted, stmt, outcome, luaVars, refused, dangling, hookVars>>

(* The database is gone: InsertAction raises, or works on freed memory.     *)
executeError ==
  /\ LuaRuns
  /\ Callable # {}
  /\ deleted \/ PushRaises
  /\ IF deleted THEN dangling' = TRUE /\ UNCHANGED refused
                ELSE refused' = TRUE /\ UNCHANGED dangling
  /\ UNCHANGED <<dbVars, stmt, callVars, luaVars, hookVars>>

(* The statement a callback was handed stays on the stack until it returns. *)
Drop(o) ==
  /\ LuaRuns
  /\ o \in held
  /\ ~ (callback /\ current_action = <<"prepare", o>>)
  /\ held' = held \ {o}
  /\ UNCHANGED <<dbVars, stmt, callVars, userdata, callback, refused, dangling, hookVars>>

-----------------------------------------------------------------------------
(* The collector                                                            *)

(* The end of a mark phase, for any unreachable objects: one that became    *)
(* unreachable during the phase may be kept for another.                    *)
Collect(S) ==
  /\ mode # "down" /\ ~ dangling
  /\ S # {} /\ \A o \in Objects : userdata[o] # "cleared"
  /\ \A o \in S : userdata[o] = "live" /\ o \notin held
  /\ Db \in S => ~ queue_reference
  /\ userdata' = [o \in Objects |-> IF o \in S THEN "cleared" ELSE userdata[o]]
  /\ UNCHANGED <<dbVars, stmt, callVars, held, callback, refused, dangling, hookVars>>

(* A sweep finalizes what the phase has found, lua_close whatever is left.  *)
Finalizable(o) ==
  /\ ~ dangling
  /\ \/ mode # "down" /\ userdata[o] = "cleared"
     \/ mode = "down" /\ userdata[o] \in {"live", "cleared"}
  /\ userdata' = [userdata EXCEPT ![o] = "finalized"]

(* __gc of a statement.                                                     *)
FinalizeStatement(s) ==
  /\ Finalizable(s)
  /\ ~ HasCleanedUpAlready /\ ~ deleted /\ ~ PushRaises
  /\ InsertAction(<<"close", s>>)
  /\ UNCHANGED <<current_action, has_finished, bind_failed, gced, stmts, instance,
                 deleted, stmt, target, outcome, held, callback, refused, dangling,
                 hookVars>>

FinalizeStatementCleanedUp(s) ==
  /\ Finalizable(s)
  /\ HasCleanedUpAlready
  /\ UNCHANGED <<dbVars, stmt, callVars, held, callback, refused, dangling, hookVars>>

(* As executeError; a callback may catch the error, the hooks do not.       *)
FinalizeStatementError(s) ==
  /\ Finalizable(s)
  /\ ~ HasCleanedUpAlready /\ (deleted \/ PushRaises)
  /\ dangling' = deleted
  /\ callback' \in {FALSE, callback}
  /\ mode' = IF mode = "shutdown" /\ ~ callback' THEN "down" ELSE mode
  /\ UNCHANGED <<dbVars, stmt, callVars, held, refused, HasCleanedUpAlready>>

(* __gc of the database, always younger objects first.                      *)
FinalizeDatabase ==
  /\ Finalizable(Db)
  /\ \A s \in Statements :
       userdata[s] # "cleared" /\ (mode = "down" => userdata[s] # "live")
  /\ IF HasCleanedUpAlready
     THEN UNCHANGED <<gced, queue, submitted>>
     ELSE /\ gced' = TRUE
          /\ queue' = Append(queue, <<"close", Db>>)
          /\ submitted' = submitted \cup {<<"close", Db>>}
  /\ UNCHANGED <<current_action, has_finished, bind_failed, queue_reference, stmts,
                 instance, deleted, stmt, target, outcome, held, callback, refused,
                 dangling, hookVars>>

-----------------------------------------------------------------------------
(* RunTick                                                                  *)

Ticked == mode # "down" /\ ~ dangling /\ ~ callback

(* The library suspends the first call of the action.                       *)
TickSuspend ==
  /\ Ticked
  /\ current_action = None /\ queue # <<>>
  /\ current_action' = Active
  /\ queue' = Rest
  /\ UNCHANGED <<has_finished, bind_failed, queue_reference, gced, stmts, instance,
                 deleted, stmt, callVars, luaVars, refused, dangling, hookVars>>

(* The library calls of action a are over.                                  *)
Completed(a) == Ticked /\ Busy /\ a = Active /\ ~ has_finished

(* The promise of the current action is settled, and calls back.            *)
Answer(r, result) ==
  /\ current_action' = r
  /\ queue' = Rest
  /\ outcome' = [outcome EXCEPT ![r] = result]
  /\ callback' = TRUE

(* DoFinish, up to the callback of the promise.                             *)
Settle(r, result) ==
  /\ Answer(r, result)
  /\ has_finished' = TRUE
  /\ UNCHANGED bind_failed

(* Faulty variants: a new statement is not listed; a closed one stays.      *)
ListedNot(s) == stmts
UnlistedNot(s) == stmts

Listed(s)   == stmts \cup {s}
Unlisted(s) == stmts \ {s}

FinishPrepare(s) ==
  /\ Completed(<<"prepare", s>>)
  /\ stmt' = [stmt EXCEPT ![s] = "prepared"]
  /\ stmts' = Listed(s)
  /\ userdata' = [userdata EXCEPT ![s] = "live"]
  /\ held' = held \cup {s}
  /\ Settle(<<"prepare", s>>, "resolved")
  /\ UNCHANGED <<queue_reference, gced, instance, deleted, target, submitted, refused,
                 dangling, hookVars>>

(* The handle is neither closed nor listed.                                 *)
FinishPrepareError(s) ==
  /\ Completed(<<"prepare", s>>)
  /\ Settle(<<"prepare", s>>, "rejected")
  /\ UNCHANGED <<queue_reference, gced, stmts, instance, deleted, stmt, target, submitted,
                 userdata, held, refused, dangling, hookVars>>

FinishExecute(e) ==
  /\ Completed(<<"execute", e>>)
  /\ outcome[<<"execute", e>>] = "none"
  /\ Settle(<<"execute", e>>, "resolved")
  /\ UNCHANGED <<queue_reference, gced, stmts, instance, deleted, stmt, target, submitted,
                 userdata, held, refused, dangling, hookVars>>

(* Query rejects before DoFinish.  At its first tick the binding may be     *)
(* what has failed.                                                         *)
RejectExecute(e) ==
  /\ Completed(<<"execute", e>>)
  /\ outcome[<<"execute", e>>] = "none"
  /\ Answer(<<"execute", e>>, "rejected")
  /\ bind_failed' \in {FALSE, current_action = None}
  /\ UNCHANGED <<has_finished, queue_reference, gced, stmts, instance, deleted, stmt,
                 target, submitted, userdata, held, refused, dangling, hookVars>>

(* The stages left after a rejection settle nothing more.                   *)
EndExecute(e) ==
  /\ Completed(<<"execute", e>>)
  /\ outcome[<<"execute", e>>] # "none" /\ ~ bind_failed
  /\ Retire
  /\ UNCHANGED <<gced, stmts, instance, deleted, stmt, callVars, luaVars, refused,
                 dangling, hookVars>>

(* The poll of a thread that was not started, after a callback that raised. *)
TickPoll ==
  /\ Ticked /\ bind_failed
  /\ UNCHANGED vars

(* PrepareStatementCloseAction settles nothing.                             *)
FinishClose(s) ==
  /\ Completed(<<"close", s>>)
  /\ stmt' = [stmt EXCEPT ![s] = "closed"]
  /\ stmts' = Unlisted(s)
  /\ Retire
  /\ UNCHANGED <<gced, instance, deleted, callVars, luaVars, refused, dangling, hookVars>>

(* CloseAction: mysql_close.                                                *)
FinishCloseDatabase ==
  /\ Completed(<<"close", Db>>)
  /\ instance' = "closed"
  /\ Retire
  /\ UNCHANGED <<gced, stmts, deleted, stmt, callVars, luaVars, refused, dangling,
                 hookVars>>

(* Back in RunTick, which frees the action.                                 *)
CallbackReturn ==
  /\ ~ dangling /\ callback
  /\ callback' = FALSE
  /\ Retire
  /\ UNCHANGED <<gced, stmts, instance, deleted, stmt, callVars, userdata, held, refused,
                 dangling, hookVars>>

(* Back in FetchFinish: the rows are freed before the action is.            *)
CallbackReturnFetch ==
  /\ ~ dangling /\ callback
  /\ ~ has_finished /\ ~ bind_failed
  /\ callback' = FALSE
  /\ UNCHANGED <<dbVars, stmt, callVars, userdata, held, refused, dangling, hookVars>>

(* The error unwinds the hook; the action stays the current one.            *)
CallbackError ==
  /\ ~ dangling /\ callback
  /\ callback' = FALSE
  /\ mode' = IF mode = "shutdown" THEN "down" ELSE mode
  /\ UNCHANGED <<dbVars, stmt, callVars, userdata, held, refused, dangling,
                 HasCleanedUpAlready>>

(* The callback raised at an earlier tick.                                  *)
TickFree ==
  /\ Ticked /\ has_finished
  /\ Retire
  /\ UNCHANGED <<gced, stmts, instance, deleted, stmt, callVars, luaVars, refused,
                 dangling, hookVars>>

DeleteDatabase ==
  /\ Ticked
  /\ ~ Busy /\ gced /\ ~ deleted
  /\ deleted' = TRUE
  /\ UNCHANGED <<queue, current_action, has_finished, bind_failed, queue_reference,
                 gced, stmts, instance, stmt, callVars, luaVars, refused, dangling,
                 hookVars>>

-----------------------------------------------------------------------------
(* The ShutDown hook: passes until nothing is left to do, then the end      *)

ShutdownHook ==
  /\ mode = "running" /\ ~ callback /\ ~ dangling
  /\ mode' = "shutdown"
  /\ UNCHANGED <<dbVars, stmt, callVars, luaVars, refused, dangling, HasCleanedUpAlready>>

(* Faulty variant: the finalizers are not disarmed.                         *)
Armed == HasCleanedUpAlready

(* The flag is set for each database the hook closes.                       *)
Disarmed == HasCleanedUpAlready \/ ~ deleted

(* The listed statements are closed, then their connection.                 *)
CloseAll ==
  /\ mode = "shutdown" /\ Ticked
  /\ ~ Busy /\ (gced => deleted)
  /\ HasCleanedUpAlready' = Disarmed
  /\ IF deleted THEN UNCHANGED <<stmt, stmts, instance>>
     ELSE /\ stmt' = [s \in Statements |-> IF s \in stmts THEN "closed" ELSE stmt[s]]
          /\ stmts' = {}
          /\ instance' = "closed"
  /\ deleted' = TRUE
  /\ mode' = "down"
  /\ UNCHANGED <<queue, current_action, has_finished, bind_failed, queue_reference,
                 gced, callVars, luaVars, refused, dangling>>

Stopped ==
  /\ \/ dangling
     \/ /\ mode = "down"
        /\ \A o \in Objects : userdata[o] \notin {"live", "cleared"}
  /\ UNCHANGED vars

-----------------------------------------------------------------------------
LuaCode ==
  \/ \E s \in Statements : prepare(s)
  \/ \E e \in Executions, s \in Callable : execute(e, s)
  \/ executeError
  \/ \E o \in Objects : Drop(o)

Finalizers ==
  \/ \E s \in Statements :
       FinalizeStatement(s) \/ FinalizeStatementCleanedUp(s) \/ FinalizeStatementError(s)
  \/ FinalizeDatabase

Hooks ==
  \/ \E s \in Statements : FinishPrepare(s) \/ FinishPrepareError(s) \/ FinishClose(s)
  \/ \E e \in Executions : FinishExecute(e) \/ RejectExecute(e) \/ EndExecute(e)
  \/ FinishCloseDatabase
  \/ CallbackReturn \/ CallbackReturnFetch \/ CallbackError
  \/ TickFree \/ TickPoll
  \/ DeleteDatabase
  \/ CloseAll

Next ==
  \/ LuaCode
  \/ \E S \in SUBSET Objects : Collect(S)
  \/ Finalizers
  \/ TickSuspend \/ Hooks
  \/ ShutdownHook
  \/ Stopped

Spec == Init /\ [][Next]_vars

(* The hooks tick, the server answers, callbacks return.                    *)
FairSpec == Spec /\ WF_vars(Hooks)

-----------------------------------------------------------------------------
IndexIn(q, a) == {i \in DOMAIN q : q[i] = a}

(* An execution works on a handle that is prepared and not closed, although *)
(* the statement may be collected, closed and replaced while it waits: the  *)
(* closing is queued behind it.                                             *)
ExecutesBeforeClose ==
  \A e \in Executions : \A i \in IndexIn(Pending, <<"execute", e>>) :
    /\ stmt[target[e]] = "prepared"
    /\ \A j \in IndexIn(Pending, <<"close", target[e]>>) : i < j

(* db->stmts lists the open handles: what it lists is closed by the         *)
(* ShutDown hook, so a closed handle must not stay, and every closing finds *)
(* its statement there to erase, whatever callbacks raise.                  *)
ListedIsOpen ==
  /\ ~ deleted => stmts = {s \in Statements : stmt[s] = "prepared"}
  /\ \A s \in Statements : IndexIn(Pending, <<"close", s>>) # {} => s \in stmts

(* As long as Lua code keeps its database, no call and no finalizer of a    *)
(* statement raises or uses a deleted database, and no prepared statement   *)
(* outlives the connection.                                                 *)
NoDanglingDatabase ==
  Db \in held =>
    /\ ~ dangling /\ ~ refused
    /\ instance = "closed" => \A s \in Statements : stmt[s] # "prepared"

(* The binding of an execution failed, and the callback of its promise      *)
(* raised: the queue polls for a thread nobody has started.                 *)
Hung == bind_failed /\ ~ callback

(* A statement Lua has lost is closed in the end, unless the process goes   *)
(* down, the database is lost first or its queue hangs.                     *)
StatementsClosed ==
  \A s \in Statements :
    userdata[s] = "finalized" /\ Db \in held
      ~> (stmt[s] = "closed" \/ mode = "down" \/ Db \notin held \/ Hung)

(* Calls through a statement are answered like calls of the database: once  *)
(* and in the order of the calls, the closings between them.                *)
Service == INSTANCE SerialService WITH
  Clients  <- {Db},
  Calls    <- Actions,
  pending  <- [d \in {Db} |-> Pending],
  answer   <- [a \in Actions |-> IF a \in Requests THEN outcome[a] ELSE "none"],
  accepted <- submitted,
  owed     <- submitted \cap Requests

ImplementsService == Service!Spec

(* README.md: execute returns a promise.                                    *)
ExecuteReturnsPromise == ~ refused

=============================================================================
