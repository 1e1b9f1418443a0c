---------------------------- MODULE QueryAction ----------------------------
(***************************************************************************)
(* One db:query from its first tick to Free: the stages of QueryAction     *)
(* (send the query, fetch the rows one by one, free the result set), each  *)
(* a library call that may suspend, and the ways each stage can fail.      *)
(***************************************************************************)
EXTENDS Naturals, Sequences

CONSTANTS
  MaxRounds,   \* how often the library may suspend within one call
  MaxRows      \* the longest result set a server may send

ASSUME BoundsAssumption == MaxRounds \in Nat /\ MaxRows \in Nat

VARIABLES
  \* class QueryAction
  started,          \* the library call of the current stage was begun
  current_action,   \* the stage: "query", "fetch" or "free"
  results,          \* "null", "open" (mysql_use_result) or "freed"
  data,             \* the rows in the result table, in the order stored
  has_retried,
  has_finished,
  \* the connection and the server
  socket_state,     \* 0, or the readiness events the call still needs
  ready,            \* the socket has the event waited for
  status,           \* "ready", "get_result" or "use_result"
  errno,            \* mysql_errno: "ok", "lost" (2006, 2013) or "other"
  total,            \* the rows of the result set
  fetched,          \* those the library has read
  attempts,         \* how often the query was sent
  \* the promise
  answer,           \* how it is settled
  value,            \* the table it is resolved with
  callback,         \* the Lua callback running: "none", "reject" or "finish"
  over              \* Free was called

actionVars == <<started, current_action, results, data, has_retried, has_finished>>
netVars    == <<socket_state, ready, status, errno, total, fetched, attempts>>
luaVars    == <<answer, value, callback, over>>

vars == <<actionVars, netVars, luaVars>>

FlagsOK ==
  /\ started \in BOOLEAN /\ has_retried \in BOOLEAN /\ has_finished \in BOOLEAN
  /\ ready \in BOOLEAN /\ over \in BOOLEAN

CountsOK ==
  /\ socket_state \in 0..MaxRounds
  /\ total \in 0..MaxRows /\ fetched \in 0..MaxRows
  /\ attempts \in 0..1

StatesOK ==
  /\ current_action \in {"query", "fetch", "free"}
  /\ results \in {"null", "open", "freed"}
  /\ status \in {"ready", "get_result", "use_result"}
  /\ errno \in {"ok", "lost", "other"}
  /\ answer \in {"none", "resolved", "rejected"}
  /\ callback \in {"none", "reject", "finish"}

TablesOK == data \in Seq(Nat) /\ value \in Seq(Nat)

TypeOK == FlagsOK /\ CountsOK /\ StatesOK /\ TablesOK

Init ==
  /\ started = FALSE /\ current_action = "query" /\ results = "null"
  /\ data = <<>> /\ has_retried = FALSE /\ has_finished = FALSE
  /\ socket_state = 0 /\ ready = FALSE /\ status = "ready" /\ errno = "ok"
  /\ total = 0 /\ fetched = 0 /\ attempts = 0
  /\ answer = "none" /\ value = <<>> /\ callback = "none" /\ over = FALSE

-----------------------------------------------------------------------------
(* A tick of the action, and the answer n of the library call it makes      *)

Ticked == ~ over /\ callback = "none" /\ ~ has_finished

Polled(n) ==
  /\ Ticked
  /\ IF started THEN ready /\ n < socket_state ELSE n <= MaxRounds
  /\ socket_state' = n
  /\ ready' = FALSE
  /\ attempts' = IF started \/ current_action # "query" THEN attempts ELSE attempts + 1

Suspend(n) ==
  /\ n > 0
  /\ Polled(n)
  /\ started' = TRUE
  /\ UNCHANGED <<current_action, results, data, has_retried, has_finished,
                 status, errno, total, fetched, luaVars>>

(* The call of stage s is over.                                             *)
Completed(s) == Polled(0) /\ current_action = s

(* The Finish of the stage returns false: on to the next library call.      *)
GoOn(s) ==
  /\ started' = FALSE
  /\ current_action' = s
  /\ UNCHANGED <<has_retried, has_finished, luaVars>>

(* Reject is called from Query, with started still set.                     *)
Reject(e) ==
  /\ started' = TRUE
  /\ errno' = e
  /\ answer' = "rejected"
  /\ callback' = "reject"
  /\ UNCHANGED <<current_action, data, has_retried, has_finished, total, fetched,
                 value, over>>

(* Query returns true, and DoFinish resolves with the result table.         *)
Resolve ==
  /\ started' = TRUE
  /\ has_finished' = TRUE
  /\ answer' = "resolved"
  /\ value' = data
  /\ callback' = "finish"
  /\ UNCHANGED <<current_action, data, has_retried, over>>

-----------------------------------------------------------------------------
(* The stages                                                               *)

FinishQueryError(e) ==
  /\ Completed("query")
  /\ Reject(e)
  /\ UNCHANGED <<results, status>>

(* A statement without a result set: nothing to use, no fields.             *)
FinishQueryNoRows ==
  /\ Completed("query")
  /\ Resolve
  /\ UNCHANGED <<results, status, errno, total, fetched>>

FinishQueryRows(n) ==
  /\ Completed("query")
  /\ total' = n
  /\ results' = "open"
  /\ status' = "use_result"
  /\ GoOn("fetch")
  /\ UNCHANGED <<data, errno, fetched>>

(* There are fields but mysql_use_result failed: the rows stay unread.      *)
FinishQueryUnused ==
  /\ Completed("query")
  /\ Reject("other")
  /\ status' = "get_result"
  /\ UNCHANGED results

(* Faulty variant: every row is stored at the end the table had at first.   *)
FinishFetchRowOver ==
  /\ Completed("fetch")
  /\ fetched < total
  /\ fetched' = fetched + 1
  /\ data' = <<fetched + 1>>
  /\ GoOn("fetch")
  /\ UNCHANGED <<results, status, errno, total>>

(* The table is extended by the row just read.                              *)
FinishFetchRow ==
  /\ Completed("fetch")
  /\ fetched < total
  /\ fetched' = fetched + 1
  /\ data' = Append(data, fetched + 1)
  /\ GoOn("fetch")
  /\ UNCHANGED <<results, status, errno, total>>

(* Faulty variant: a null row always means the end of the rows.             *)
FinishFetchErrorUnseen(e) ==
  /\ Completed("fetch")
  /\ status' = "ready"
  /\ errno' = e
  /\ GoOn("free")
  /\ UNCHANGED <<results, data, total, fetched>>

(* A null row with an error: the result set is not freed.                   *)
FinishFetchError(e) ==
  /\ Completed("fetch")
  /\ Reject(e)
  /\ status' = "ready"
  /\ UNCHANGED results

(* Faulty variant: the promise is resolved with the result set unfreed.     *)
FinishFetchEndEarly ==
  /\ Completed("fetch")
  /\ fetched = total
  /\ status' = "ready"
  /\ Resolve
  /\ UNCHANGED <<results, errno, total, fetched>>

FinishFetchEnd ==
  /\ Completed("fetch")
  /\ fetched = total
  /\ status' = "ready"
  /\ GoOn("free")
  /\ UNCHANGED <<results, data, errno, total, fetched>>

FinishFreeResult ==
  /\ Completed("free")
  /\ results' = "freed"
  /\ Resolve
  /\ UNCHANGED <<status, errno, total, fetched>>

-----------------------------------------------------------------------------
(* The end of the action                                                    *)

(* "server lost, try reperform": what is done is to replace the table.      *)
Retry ==
  IF ~ has_retried /\ errno = "lost"
  THEN has_retried' = TRUE /\ data' = <<>>
  ELSE UNCHANGED <<has_retried, data>>

(* Faulty variant: a lost query is performed again, however often.          *)
CallbackReturnReperform ==
  /\ callback # "none"
  /\ callback' = "none"
  /\ IF errno = "lost"
     THEN started' = FALSE /\ current_action' = "query" /\ UNCHANGED <<has_finished, over>>
     ELSE has_finished' = TRUE /\ over' = TRUE /\ UNCHANGED <<started, current_action>>
  /\ UNCHANGED <<results, data, has_retried, netVars, answer, value>>

(* Faulty variant: the return true after Reject is missing, and the stage   *)
(* goes on as if it had succeeded.                                          *)
CallbackReturnGoesOn ==
  /\ callback # "none"
  /\ callback' = "none"
  /\ IF callback = "reject"
     THEN started' = FALSE /\ current_action' = "free" /\ UNCHANGED <<has_finished, over>>
     ELSE has_finished' = TRUE /\ over' = TRUE /\ UNCHANGED <<started, current_action>>
  /\ UNCHANGED <<results, data, has_retried, netVars, answer, value>>

(* The callback returns.  After a Reject, Query returns true, DoFinish      *)
(* calls resolve on the settled promise, to no effect, and Free follows.    *)
CallbackReturn ==
  /\ callback # "none"
  /\ callback' = "none"
  /\ IF callback = "reject" THEN Retry ELSE UNCHANGED <<has_retried, data>>
  /\ has_finished' = TRUE
  /\ over' = TRUE
  /\ UNCHANGED <<started, current_action, results, netVars, answer, value>>

CallbackError ==
  /\ callback # "none"
  /\ callback' = "none"
  /\ UNCHANGED <<actionVars, netVars, answer, value, over>>

(* The callback of resolve raised in an earlier tick.                       *)
TickFree ==
  /\ ~ over /\ callback = "none" /\ has_finished
  /\ over' = TRUE
  /\ UNCHANGED <<actionVars, netVars, answer, value, callback>>

(* The callback of reject raised: Continue finds nothing suspended, fails   *)
(* with an error of its own, and the settled promise ignores the rest.      *)
TickOutOfSync ==
  /\ Ticked
  /\ started /\ socket_state = 0
  /\ errno' = "other"
  /\ has_finished' = TRUE
  /\ over' = TRUE
  /\ UNCHANGED <<started, current_action, results, data, has_retried, socket_state,
                 ready, status, total, fetched, attempts, answer, value, callback>>

SocketReady ==
  /\ socket_state # 0 /\ ~ ready
  /\ ready' = TRUE
  /\ UNCHANGED <<actionVars, socket_state, status, errno, total, fetched, attempts, luaVars>>

Stage ==
  \/ \E e \in {"lost", "other"} : FinishQueryError(e) \/ FinishFetchError(e)
  \/ FinishQueryNoRows \/ FinishQueryUnused
  \/ \E n \in 0..MaxRows : FinishQueryRows(n)
  \/ FinishFetchRow \/ FinishFetchEnd
  \/ FinishFreeResult

Tick ==
  \/ \E n \in 1..MaxRounds : Suspend(n)
  \/ Stage
  \/ CallbackReturn \/ CallbackError
  \/ TickFree \/ TickOutOfSync

Terminated == over /\ UNCHANGED vars

Next == Tick \/ SocketReady \/ Terminated

Spec == Init /\ [][Next]_vars

(* The hook goes on ticking, and the server goes on answering.              *)
FairSpec == Spec /\ WF_vars(Tick) /\ WF_vars(SocketReady)

-----------------------------------------------------------------------------
(* A resolved promise holds every row of the result set, once and in the    *)
(* order the server sent them, however often fetching was suspended.        *)
ResolvedWithAllRows ==
  answer = "resolved" =>
    /\ fetched = total
    /\ value = [i \in 1..total |-> i]

(* A failure of any stage reaches the caller as a rejection: no error ends  *)
(* as a shorter result.                                                     *)
FailureIsRejected == errno # "ok" => answer = "rejected"

(* When the promise resolves, the result set is freed and the connection    *)
(* free for the next action; a connection left with unread rows belongs to  *)
(* a query rejected before mysql_use_result gave it a result set.           *)
ConnectionInSync ==
  /\ answer = "resolved" => status = "ready" /\ results # "open"
  /\ over /\ status # "ready" => answer = "rejected" /\ results = "null"

(* What an action knows at every point of its life, as three facts that     *)
(* together are inductive: how far it has got, the rows it has stored, and  *)
(* what it has left on the connection.                                      *)
Progress ==
  /\ answer = "none" => ~ has_finished /\ ~ over /\ callback = "none" /\ errno = "ok"
  /\ answer = "resolved" => has_finished /\ errno = "ok" /\ callback # "reject"
  /\ answer = "none" /\ started => socket_state # 0
  /\ answer # "none" /\ ~ has_finished => started /\ socket_state = 0
  /\ current_action = "query" /\ ~ started => attempts = 0

Rows ==
  /\ current_action = "query" => fetched = 0 /\ total = 0
  /\ current_action = "free" => fetched = total
  /\ fetched <= total
  /\ answer = "none" => data = [i \in 1..fetched |-> i]

Wire ==
  /\ answer = "none" =>
       CASE current_action = "query" -> status = "ready" /\ results = "null"
         [] current_action = "fetch" -> status = "use_result" /\ results = "open"
         [] current_action = "free"  -> status = "ready" /\ results = "open"
  /\ answer = "resolved" => status = "ready" /\ results # "open"
  /\ answer = "rejected" /\ status # "ready" => results = "null"

(* An action is never past what it has done: an unsettled one has had no    *)
(* error, holds exactly the rows it read and is at the stage the            *)
(* connection is in; a settled one never ticks a stage again.               *)
StagesInStep == Progress /\ Rows /\ Wire

Life == INSTANCE ActionLife WITH
  phase <- IF over THEN "over"
           ELSE IF callback # "none" THEN "settling"
           ELSE IF answer # "none" THEN "settled"
           ELSE IF socket_state # 0 THEN "suspended" ELSE "waiting"

(* The action lives the life the event loop gives an action: it settles     *)
(* once, is freed after that, and both happen in the end.                   *)
ImplementsLife == Life!Spec

(* "server lost, try reperform": a query that was retried was sent twice.   *)
RetryReperforms == over /\ has_retried => attempts = 2

=============================================================================
