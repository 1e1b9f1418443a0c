-------------------------- MODULE ExecuteStatement --------------------------
(***************************************************************************)
(* One stmt:execute from its first tick to Free.  Three of its four stages *)
(* run in a detached thread, which shares the fields of the action with    *)
(* the hook: the hook polls thread_finished at every tick and, once it is  *)
(* set, reads what the thread has written.                                 *)
(***************************************************************************)
EXTENDS Naturals, Sequences

CONSTANTS
  MaxRounds,   \* how often the library may suspend within one call
  MaxRows      \* the longest result set a server may send

ASSUME BoundsAssumption == MaxRounds \in Nat /\ MaxRows \in Nat

VARIABLES
  \* class ExecuteStatementAction
  started,          \* the start function of the current stage was called
  current_action,   \* the stage: "execute", "fetch", "results" or "statement"
  in_thread,
  thread_finished,
  out,              \* what the last call returned
  resultdata,       \* the rows fetched and not freed yet
  data,             \* the rows in the result table
  has_finished,
  \* the hook and the thread
  hook,             \* "check" between the spawn of a thread and the poll after it
  thread,           \* what the detached thread does next, "idle" without one
  socket_state,     \* 0, or the readiness events the call still needs
  ready,            \* the socket has the event waited for
  \* the server
  fields,           \* the statement has a result set
  total,            \* the rows of the result set
  fetched,          \* those fetched
  \* the promise
  answer,           \* how it is settled
  value,            \* the table it is resolved with
  callback,         \* the Lua callback running: "none", "reject" or "finish"
  over              \* Free was called

stageVars  == <<started, current_action, in_thread, has_finished>>
threadVars == <<thread, thread_finished, out, resultdata, fields, total, fetched>>
netVars    == <<socket_state, ready>>
luaVars    == <<data, answer, value, callback, over>>

vars == <<stageVars, threadVars, netVars, luaVars, hook>>

FlagsOK ==
  /\ started \in BOOLEAN /\ in_thread \in BOOLEAN /\ thread_finished \in BOOLEAN
  /\ has_finished \in BOOLEAN /\ ready \in BOOLEAN /\ fields \in BOOLEAN
  /\ over \in BOOLEAN

TypeOK ==
  /\ FlagsOK
  /\ current_action \in {"execute", "fetch", "results", "statement"}
  /\ out \in {"ok", "no_data", "truncated", "error"}
  /\ resultdata \in Seq(Nat) /\ data \in Seq(Nat) /\ value \in Seq(Nat)
  /\ hook \in {"idle", "check"}
  /\ thread \in {"idle", "execute", "store", "fetch", "free", "finish"}
  /\ socket_state \in 0..(MaxRounds + 1)
  /\ total \in 0..MaxRows /\ fetched \in 0..MaxRows
  /\ answer \in {"none", "resolved", "rejected"}
  /\ callback \in {"none", "reject", "finish"}

Init ==
  /\ started = FALSE /\ current_action = "execute" /\ in_thread = FALSE
  /\ thread_finished = FALSE /\ out = "ok" /\ resultdata = <<>> /\ data = <<>>
  /\ has_finished = FALSE
  /\ hook = "idle" /\ thread = "idle" /\ socket_state = 0 /\ ready = FALSE
  /\ fields = FALSE /\ total = 0 /\ fetched = 0
  /\ answer = "none" /\ value = <<>> /\ callback = "none" /\ over = FALSE

-----------------------------------------------------------------------------
(* The detached thread.  Its last step is the flag: what it wrote before is *)
(* visible when the flag is, which holds of the builds for x86 although the *)
(* field is a plain bool.                                                   *)

(* Faulty variant: the thread of a failed statement ends without its flag.  *)
ThreadExecuteMute ==
  /\ thread = "execute"
  /\ \/ out' = "error" /\ thread' = "idle" /\ UNCHANGED <<fields, total>>
     \/ /\ out' = "ok" /\ fields' \in BOOLEAN
        /\ IF fields' THEN total' \in 0..MaxRows /\ thread' = "store"
                      ELSE thread' = "finish" /\ UNCHANGED total
  /\ UNCHANGED <<stageVars, thread_finished, resultdata, fetched, netVars, luaVars, hook>>

ThreadExecute ==
  /\ thread = "execute"
  /\ \/ out' = "error" /\ thread' = "finish" /\ UNCHANGED <<fields, total>>
     \/ /\ out' = "ok" /\ fields' \in BOOLEAN
        /\ IF fields' THEN total' \in 0..MaxRows /\ thread' = "store"
                      ELSE thread' = "finish" /\ UNCHANGED total
  /\ UNCHANGED <<stageVars, thread_finished, resultdata, fetched, netVars, luaVars, hook>>

ThreadStore ==
  /\ thread = "store"
  /\ out' \in {"ok", "error"}
  /\ thread' = "finish"
  /\ UNCHANGED <<stageVars, thread_finished, resultdata, fields, total, fetched,
                 netVars, luaVars, hook>>

(* Faulty variant: the loop fetches once more than there are rows.          *)
ThreadFetchRowPast ==
  /\ thread = "fetch"
  /\ fetched <= total
  /\ out' = "ok"
  /\ fetched' = fetched + 1
  /\ resultdata' = Append(resultdata, fetched + 1)
  /\ UNCHANGED <<stageVars, thread, thread_finished, fields, total, netVars, luaVars, hook>>

ThreadFetchRow ==
  /\ thread = "fetch"
  /\ fetched < total
  /\ out' = "ok"
  /\ fetched' = fetched + 1
  /\ resultdata' = Append(resultdata, fetched + 1)
  /\ UNCHANGED <<stageVars, thread, thread_finished, fields, total, netVars, luaVars, hook>>

(* Any answer but a whole row ends the loop.                                *)
ThreadFetchEnd ==
  /\ thread = "fetch"
  /\ \/ out' = "no_data" /\ fetched = total
     \/ out' = "truncated" /\ fetched < total
     \/ out' = "error"
  /\ thread' = "finish"
  /\ UNCHANGED <<stageVars, thread_finished, resultdata, fields, total, fetched,
                 netVars, luaVars, hook>>

ThreadFree ==
  /\ thread = "free"
  /\ resultdata' = Tail(resultdata)
  /\ thread' = IF Len(resultdata) = 1 THEN "finish" ELSE "free"
  /\ UNCHANGED <<stageVars, thread_finished, out, fields, total, fetched,
                 netVars, luaVars, hook>>

ThreadFinish ==
  /\ thread = "finish"
  /\ thread_finished' = TRUE
  /\ thread' = "idle"
  /\ UNCHANGED <<stageVars, out, resultdata, fields, total, fetched, netVars, luaVars, hook>>

Thread ==
  \/ ThreadExecute \/ ThreadStore
  \/ ThreadFetchRow \/ ThreadFetchEnd
  \/ ThreadFree
  \/ ThreadFinish

-----------------------------------------------------------------------------
(* The hook: the start of a stage                                           *)

Ticked == ~ over /\ callback = "none" /\ hook = "idle" /\ ~ has_finished

(* The promise ignores a settlement after its first.                        *)
Settle(result, table, next) ==
  /\ answer' = IF answer = "none" THEN result ELSE answer
  /\ value' = IF answer = "none" THEN table ELSE value
  /\ IF answer = "none" THEN callback' = next /\ UNCHANGED over
     ELSE UNCHANGED callback /\ over' = TRUE

(* mysql_stmt_bind_param fails: no thread, and Reject at once.              *)
ExecuteStartError ==
  /\ Ticked
  /\ ~ started /\ current_action = "execute"
  /\ started' = TRUE
  /\ out' = "error"
  /\ answer' = "rejected" /\ callback' = "reject"
  /\ UNCHANGED <<current_action, in_thread, has_finished, thread, thread_finished,
                 resultdata, fields, total, fetched, netVars, data, value, over, hook>>

(* Faulty variant: thread_finished is left over from the stage before.      *)
SpawnStale(task) == thread' = task /\ UNCHANGED thread_finished

(* ExecuteStart relies on the initial value of the flag; the other stages   *)
(* reset it.                                                                *)
Spawn(task) ==
  /\ thread' = task
  /\ thread_finished' = (thread_finished /\ task = "execute")

StartThread ==
  /\ Ticked
  /\ ~ started
  /\ \/ current_action = "execute" /\ Spawn("execute")
     \/ current_action = "fetch" /\ Spawn("fetch")
     \/ current_action = "results" /\ resultdata # <<>> /\ Spawn("free")
  /\ started' = TRUE
  /\ in_thread' = TRUE
  /\ hook' = "check"
  /\ UNCHANGED <<current_action, has_finished, out, resultdata, fields, total, fetched,
                 netVars, luaVars>>

(* FreeResultsStart with nothing to free: FreeResultsFinish at once.        *)
NoResults ==
  /\ Ticked
  /\ ~ started /\ current_action = "results" /\ resultdata = <<>>
  /\ socket_state' = 0
  /\ current_action' = "statement"
  /\ UNCHANGED <<started, in_thread, has_finished, threadVars, ready, luaVars, hook>>

-----------------------------------------------------------------------------
(* The hook: polling the thread                                             *)

Threaded == current_action \in {"execute", "fetch", "results"}

(* The poll of the start function, or of a later tick.                      *)
Polls ==
  \/ hook = "check"
  \/ Ticked /\ started /\ Threaded /\ (in_thread \/ socket_state = 0 \/ ready)

StillRunning ==
  /\ Polls
  /\ ~ thread_finished
  /\ hook' = "idle"
  /\ socket_state' = 1 /\ ready' = FALSE
  /\ UNCHANGED <<stageVars, threadVars, luaVars>>

Done(stage) ==
  /\ Polls
  /\ thread_finished
  /\ current_action = stage
  /\ hook' = "idle"
  /\ socket_state' = 0 /\ ready' = FALSE

(* Faulty variant: what the thread has returned is not looked at.           *)
ExecuteFinishUnseen ==
  /\ Done("execute")
  /\ in_thread' = FALSE
  /\ IF fields
     THEN /\ current_action' = "fetch" /\ started' = FALSE
          /\ UNCHANGED <<has_finished, luaVars>>
     ELSE /\ started' = FALSE /\ has_finished' = TRUE
          /\ Settle("resolved", data, "finish")
          /\ UNCHANGED <<current_action, data>>
  /\ UNCHANGED threadVars

ExecuteFinish ==
  /\ Done("execute")
  /\ in_thread' = FALSE
  /\ IF out # "ok"
     THEN /\ Settle("rejected", value, "reject")
          /\ started' = (started /\ answer = "none")
          /\ has_finished' = (answer # "none")
          /\ UNCHANGED <<current_action, data>>
     ELSE IF fields
     THEN /\ current_action' = "fetch" /\ started' = FALSE
          /\ UNCHANGED <<has_finished, luaVars>>
     ELSE /\ started' = FALSE /\ has_finished' = TRUE
          /\ Settle("resolved", data, "finish")
          /\ UNCHANGED <<current_action, data>>
  /\ UNCHANGED threadVars

(* Faulty variant: the last row is still with the thread when rows are read. *)
FetchFinishRowsShort ==
  /\ Done("fetch")
  /\ out = "no_data"
  /\ in_thread' = FALSE /\ started' = FALSE
  /\ data' = data \o SubSeq(resultdata, 1, Len(resultdata) - 1)
  /\ current_action' = "results"
  /\ UNCHANGED <<has_finished, threadVars, answer, value, callback, over>>

FetchFinishRows ==
  /\ Done("fetch")
  /\ out = "no_data"
  /\ in_thread' = FALSE /\ started' = FALSE
  /\ data' = data \o resultdata
  /\ current_action' = "results"
  /\ UNCHANGED <<has_finished, threadVars, answer, value, callback, over>>

(* The stage ends whether or not the promise still listens, but a callback  *)
(* comes first.                                                             *)
FetchFinishError ==
  /\ Done("fetch")
  /\ out # "no_data"
  /\ in_thread' = FALSE
  /\ IF answer = "none"
     THEN /\ answer' = "rejected" /\ callback' = "reject"
          /\ UNCHANGED <<started, current_action>>
     ELSE /\ started' = FALSE /\ current_action' = "results"
          /\ UNCHANGED <<answer, callback>>
  /\ UNCHANGED <<has_finished, threadVars, data, value, over>>

(* in_thread stays set.                                                     *)
FreeResultsFinish ==
  /\ Done("results")
  /\ current_action' = "statement" /\ started' = FALSE
  /\ UNCHANGED <<in_thread, has_finished, threadVars, luaVars>>

-----------------------------------------------------------------------------
(* The last stage, a call of the library, and the end of the action         *)

Polled(n) ==
  /\ Ticked
  /\ current_action = "statement"
  /\ IF started THEN (in_thread \/ ready) /\ n < socket_state ELSE n <= MaxRounds
  /\ socket_state' = n /\ ready' = FALSE

FreeStatementSuspend(n) ==
  /\ n > 0
  /\ Polled(n)
  /\ started' = TRUE
  /\ UNCHANGED <<current_action, in_thread, has_finished, threadVars, luaVars, hook>>

(* Faulty variant: Query sets the field has_finished, which its local       *)
(* variable hides, and DoFinish returns early.                              *)
FreeStatementUnhidden ==
  /\ Polled(0)
  /\ started' = FALSE
  /\ has_finished' = TRUE
  /\ over' = TRUE
  /\ UNCHANGED <<current_action, in_thread, threadVars, data, answer, value, callback, hook>>

FreeStatementFinish ==
  /\ Polled(0)
  /\ started' = FALSE
  /\ has_finished' = TRUE
  /\ Settle("resolved", data, "finish")
  /\ UNCHANGED <<current_action, in_thread, threadVars, data, hook>>

(* Faulty variant: a rejected fetch is freed like a rejected execute.       *)
CallbackReturnFree ==
  /\ callback # "none"
  /\ callback' = "none"
  /\ started' = FALSE /\ has_finished' = TRUE /\ over' = TRUE
  /\ UNCHANGED <<current_action, in_thread, threadVars, netVars, data, answer, value, hook>>

(* Back from the callback: a fetch goes on to free its rows, otherwise      *)
(* DoFinish and Free follow.                                                *)
CallbackReturn ==
  /\ callback # "none"
  /\ callback' = "none"
  /\ started' = FALSE
  /\ IF callback = "reject" /\ current_action = "fetch"
     THEN current_action' = "results" /\ UNCHANGED <<has_finished, over>>
     ELSE has_finished' = TRUE /\ over' = TRUE /\ UNCHANGED current_action
  /\ UNCHANGED <<in_thread, threadVars, netVars, data, answer, value, hook>>

CallbackError ==
  /\ callback # "none"
  /\ callback' = "none"
  /\ UNCHANGED <<stageVars, threadVars, netVars, data, answer, value, over, hook>>

(* The callback of resolve raised in an earlier tick.                       *)
TickFree ==
  /\ ~ over /\ callback = "none" /\ has_finished
  /\ over' = TRUE
  /\ UNCHANGED <<stageVars, threadVars, netVars, data, answer, value, callback, hook>>

SocketReady ==
  /\ socket_state # 0 /\ ~ ready
  /\ ready' = TRUE
  /\ UNCHANGED <<stageVars, threadVars, socket_state, luaVars, hook>>

Finishes ==
  \/ ExecuteFinish
  \/ FetchFinishRows \/ FetchFinishError
  \/ FreeResultsFinish
  \/ FreeStatementFinish

Tick ==
  \/ ExecuteStartError \/ StartThread \/ NoResults
  \/ StillRunning
  \/ Finishes
  \/ \E n \in 1..MaxRounds : FreeStatementSuspend(n)
  \/ CallbackReturn \/ CallbackError
  \/ TickFree

Terminated == over /\ UNCHANGED vars

Next == Tick \/ Thread \/ SocketReady \/ Terminated

Spec == Init /\ [][Next]_vars

(* The hook goes on ticking, the thread runs, the server answers.           *)
FairSpec == Spec /\ WF_vars(Tick) /\ WF_vars(Thread) /\ WF_vars(SocketReady)

-----------------------------------------------------------------------------
(* While a thread runs, the fields of the action belong to it: the action   *)
(* is at the thread's stage, waits for its flag, and neither calls back nor *)
(* is freed; no second thread is started beside it.                         *)
ThreadOwnsAction ==
  thread # "idle" =>
    /\ started /\ in_thread /\ ~ thread_finished
    /\ callback = "none" /\ ~ over
    /\ thread \in {"execute", "store"} => current_action = "execute"
    /\ thread = "fetch" => current_action = "fetch"
    /\ thread = "free" => current_action = "results" /\ resultdata # <<>>

(* A resolved execution carries every row of the result set in the order    *)
(* the thread fetched them, and no row if the statement has no result set.  *)
ResolvedWithAllRows ==
  answer = "resolved" => value = [i \in 1..total |-> i] /\ fetched = total

(* An error or a truncated row, in the thread or before it, is never        *)
(* answered with a result: once the thread is over and the hook has looked, *)
(* it is a rejection.                                                       *)
FailureIsRejected ==
  /\ answer = "resolved" => out \in {"ok", "no_data"}
  /\ over => (answer = "rejected" <=> out \in {"truncated", "error"})

(* When the action is freed, so is every row the thread has fetched, after  *)
(* a truncated fetch or a callback that raised too.                         *)
RowsFreed == over => resultdata = <<>>

Life == INSTANCE ActionLife WITH
  phase <- IF over THEN "over"
           ELSE IF callback # "none" THEN "settling"
           ELSE IF answer # "none" THEN "settled"
           ELSE IF in_thread \/ socket_state # 0 THEN "suspended" ELSE "waiting"

(* The action settles once and is freed after that, never before.           *)
ImplementsLifeSteps == Life!Init /\ [][Life!Next]_(Life!vars)

(* The binding failed, the callback of Reject raised and is over: no thread *)
(* was ever started, and the poll of later ticks waits for its flag.        *)
WaitsForNoThread ==
  /\ current_action = "execute" /\ started /\ callback = "none"
  /\ ~ in_thread /\ ~ thread_finished

(* The action is freed in the end, after a failed binding too whose         *)
(* callback returns: the only one that is not is the one that ends up       *)
(* polling for ever for a thread it has not started.                        *)
ExecutionEnds == <>over \/ <>[]WaitsForNoThread

=============================================================================
