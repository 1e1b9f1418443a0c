---------------------------- MODULE LuaDatabase ----------------------------
(***************************************************************************)
(* The event loop of gluamysql: the databases the module has open, the     *)
(* queue of actions of each, the Tick hook that runs them one suspended    *)
(* library call at a time, the Lua collector that decides when a database  *)
(* is no longer needed, and the ShutDown hook that drains and closes       *)
(* everything.                                                             *)
(*                                                                         *)
(* Three actors share this state: the hooks, Lua code (between two hooks,  *)
(* and inside a hook whenever a promise calls back), and the collector,    *)
(* which runs at any allocation of either.  MySQL servers answer on their  *)
(* own; a hook sees an answer only when it polls the socket.               *)
(***************************************************************************)
EXTENDS Naturals, Sequences, SequencesExt

CONSTANTS
  Databases,   \* the databases Lua code may ever create
  Requests,    \* the actions mysql.connect, db:query, db:ping ... may ever create
  None,        \* no action, no database
  MaxRounds,   \* how often the library may suspend within one operation
  MaxStages    \* how many operations of a query may precede its last one

(* The CloseAction __gc queues for d is represented by d itself.            *)
Actions == Requests \cup Databases

ASSUME ConstantsAssumption ==
  /\ Databases \cap Requests = {}
  /\ None \notin Actions
  /\ MaxRounds \in Nat
  /\ MaxStages \in Nat

VARIABLES
  \* class LuaDatabase
  open_databases,   \* the static deque of databases not deleted yet
  queue,            \* queue[d]: the actions waiting, oldest first
  current_action,   \* current_action[d]: the action running, or None
  queue_reference,  \* the databases pinned by a registry reference
  gced,             \* the databases whose __gc has run
  closed,           \* the databases whose MYSQL handle is freed
  socket_state,     \* socket_state[d]: 0, or the readiness events still to come
  \* class LuaAction and its subclasses
  kind,             \* kind[r]: "unused" until r is queued, then its class
  started,          \* the actions whose started flag is set
  has_finished,     \* the actions whose has_finished flag is set
  outcome,          \* outcome[r]: how the promise of r is settled
  \* the client library and the socket
  operation,        \* operation[d]: the action whose library call is suspended
  stages,           \* stages[d]: the operations the current query has finished
  ready,            \* the databases whose socket has the event waited for
  \* Lua
  userdata,         \* userdata[d]: "none", "live", "cleared" or "finalized"
  held,             \* the databases Lua code can reach
  call,             \* the database mysql.connect is constructing, or None
  \* the hooks
  mode,             \* "idle", "tick", "shutdown" or "down"
  it,               \* the position of the pass in open_databases
  unready,          \* the pass has run an action
  callback,         \* the Lua callback running inside the pass, if any
  HasCleanedUpAlready

dbVars     == <<open_databases, queue, current_action, queue_reference, gced,
                closed, socket_state>>
actionVars == <<kind, started, has_finished, outcome>>
netVars    == <<operation, stages, ready>>
luaVars    == <<userdata, held, call>>
hookVars   == <<mode, it, unready, callback, HasCleanedUpAlready>>

vars == <<dbVars, actionVars, netVars, luaVars, hookVars>>

FlagsOK == unready \in BOOLEAN /\ HasCleanedUpAlready \in BOOLEAN

TypeOK ==
  /\ open_databases \in Seq(Databases)
  /\ queue \in [Databases -> Seq(Actions)]
  /\ current_action \in [Databases -> Actions \cup {None}]
  /\ queue_reference \subseteq Databases
  /\ gced \subseteq Databases
  /\ closed \subseteq Databases
  /\ socket_state \in [Databases -> 0..MaxRounds]
  /\ kind \in [Requests -> {"unused", "connect", "command", "query"}]
  /\ started \subseteq Actions
  /\ has_finished \subseteq Actions
  /\ outcome \in [Requests -> {"none", "resolved", "rejected"}]
  /\ operation \in [Databases -> Actions \cup {None}]
  /\ stages \in [Databases -> 0..MaxStages]
  /\ ready \subseteq Databases
  /\ userdata \in [Databases -> {"none", "live", "cleared", "finalized"}]
  /\ held \subseteq Databases
  /\ call \in Databases \cup {None}
  /\ mode \in {"idle", "tick", "shutdown", "down"}
  /\ it \in Nat \ {0}
  /\ callback \in {"none", "reject", "finish"}
  /\ FlagsOK

Init ==
  /\ open_databases = <<>>
  /\ queue = [d \in Databases |-> <<>>]
  /\ current_action = [d \in Databases |-> None]
  /\ queue_reference = {} /\ gced = {} /\ closed = {}
  /\ socket_state = [d \in Databases |-> 0]
  /\ kind = [r \in Requests |-> "unused"]
  /\ started = {} /\ has_finished = {}
  /\ outcome = [r \in Requests |-> "none"]
  /\ operation = [d \in Databases |-> None]
  /\ stages = [d \in Databases |-> 0]
  /\ ready = {}
  /\ userdata = [d \in Databases |-> "none"]
  /\ held = {} /\ call = None
  /\ mode = "idle" /\ it = 1 /\ unready = FALSE /\ callback = "none"
  /\ HasCleanedUpAlready = FALSE

-----------------------------------------------------------------------------
(* The queue of a database                                                  *)

KindOf(a) == IF a \in Databases THEN "close" ELSE kind[a]

(* Faulty variant: the hook looks at the queue only.                        *)
BusyIfQueued(d) == queue[d] # <<>>

(* What makes TickHookTick call RunTick.                                    *)
Busy(d) == current_action[d] # None \/ queue[d] # <<>>

(* Faulty variant: the next action is begun while one is suspended.         *)
ActiveNext(d) == IF queue[d] # <<>> THEN Head(queue[d]) ELSE current_action[d]

(* The action RunTick works on, and what waits behind it.                   *)
Active(d) == IF current_action[d] # None THEN current_action[d] ELSE Head(queue[d])
Rest(d)   == IF current_action[d] # None THEN queue[d] ELSE Tail(queue[d])

(* Everything a database still has to do, in order.                         *)
Pending(d) ==
  IF current_action[d] = None THEN queue[d] ELSE <<current_action[d]>> \o queue[d]

Take(d) ==
  /\ current_action' = [current_action EXCEPT ![d] = Active(d)]
  /\ queue' = [queue EXCEPT ![d] = Rest(d)]

(* Faulty variant: the end of RunTick does not look at the queue.           *)
UnpinnedEagerly(d) == queue_reference \ {d}

(* The pin is dropped only by a tick that leaves nothing to do.             *)
Unpinned(d) == IF Rest(d) = <<>> THEN queue_reference \ {d} ELSE queue_reference

(* Free, current_action = nullptr, and the unpinning at the end of RunTick. *)
Retire(d) ==
  /\ current_action' = [current_action EXCEPT ![d] = None]
  /\ queue' = [queue EXCEPT ![d] = Rest(d)]
  /\ queue_reference' = Unpinned(d)
  /\ stages' = [stages EXCEPT ![d] = 0]

(* The pin InsertAction takes: a reference to nil pins nothing.             *)
Pin(d) == IF userdata[d] = "live" THEN queue_reference \cup {d} ELSE queue_reference

InsertAction(d, a) ==
  /\ queue_reference' = Pin(d)
  /\ queue' = [queue EXCEPT ![d] = Append(@, a)]

-----------------------------------------------------------------------------
(* Lua code: it runs between two hooks and inside a promise's callback      *)

LuaRuns == call = None /\ (mode = "idle" \/ callback # "none")

(* mysql.connect up to the constructor of its action: the userdata is       *)
(* reachable through a weak table only.                                     *)
ConnectBegin(d) ==
  /\ LuaRuns
  /\ userdata[d] = "none"
  /\ userdata' = [userdata EXCEPT ![d] = "live"]
  /\ open_databases' = Append(open_databases, d)
  /\ call' = d
  /\ UNCHANGED <<queue, current_action, queue_reference, gced, closed,
                 socket_state, actionVars, netVars, held, hookVars>>

(* An argument of mysql.connect is not a string.                            *)
ConnectTypeError ==
  /\ call # None
  /\ call' = None
  /\ UNCHANGED <<dbVars, actionVars, netVars, userdata, held, hookVars>>

(* Faulty variant: the reference is not reset by __gc, so Push succeeds.    *)
ConnectInsertLate(a) ==
  /\ call # None
  /\ kind[a] = "unused"
  /\ kind' = [kind EXCEPT ![a] = "connect"]
  /\ InsertAction(call, a)
  /\ call' = None
  /\ UNCHANGED <<open_databases, current_action, gced, closed, socket_state,
                 started, has_finished, outcome, netVars, userdata, held, hookVars>>

(* InsertAction and the return of the promise; Push raises once __gc has    *)
(* reset the reference, and the connect action is then never queued.        *)
ConnectInsert(a) ==
  /\ call # None
  /\ userdata[call] # "finalized"
  /\ kind[a] = "unused"
  /\ kind' = [kind EXCEPT ![a] = "connect"]
  /\ InsertAction(call, a)
  /\ call' = None
  /\ UNCHANGED <<open_databases, current_action, gced, closed, socket_state,
                 started, has_finished, outcome, netVars, userdata, held, hookVars>>

ConnectInsertError ==
  /\ call # None
  /\ userdata[call] = "finalized"
  /\ call' = None
  /\ UNCHANGED <<dbVars, actionVars, netVars, userdata, held, hookVars>>

(* db:query, db:prepare, db:ping, db:autocommit, db:commit, db:rollback.    *)
Submit(d, a, k) ==
  /\ LuaRuns
  /\ d \in held
  /\ kind[a] = "unused"
  /\ kind' = [kind EXCEPT ![a] = k]
  /\ InsertAction(d, a)
  /\ UNCHANGED <<open_databases, current_action, gced, closed, socket_state,
                 started, has_finished, outcome, netVars, luaVars, hookVars>>

(* Lua code forgets its last reference; the argument of a callback stays on *)
(* the stack until the callback ends.                                       *)
Drop(d) ==
  /\ LuaRuns
  /\ d \in held
  /\ ~ (callback = "finish" /\ d = open_databases[it] /\ KindOf(current_action[d]) = "connect")
  /\ held' = held \ {d}
  /\ UNCHANGED <<dbVars, actionVars, netVars, userdata, call, hookVars>>

-----------------------------------------------------------------------------
(* The collector: it runs at allocations of Lua code, of a constructor, or  *)
(* of an action a pass has run                                              *)

CollectorRuns ==
  \/ mode = "idle" \/ call # None \/ callback # "none"
  \/ mode \in {"tick", "shutdown"} /\ unready

(* The end of a mark phase: unreachable userdata leave the weak tables and  *)
(* await their finalizers; the phase before has ended by then.              *)
Collect(S) ==
  /\ CollectorRuns
  /\ \A d \in Databases : userdata[d] # "cleared"
  /\ S # {}
  /\ \A d \in S : userdata[d] = "live" /\ d \notin held \cup queue_reference
  /\ userdata' = [d \in Databases |-> IF d \in S THEN "cleared" ELSE userdata[d]]
  /\ UNCHANGED <<dbVars, actionVars, netVars, held, call, hookVars>>

(* Faulty variant: __gc queues the CloseAction but does not set gced.       *)
FinalizeUnmarked(d) ==
  /\ \/ CollectorRuns /\ userdata[d] = "cleared"
     \/ mode = "down" /\ userdata[d] \in {"live", "cleared"}
  /\ userdata' = [userdata EXCEPT ![d] = "finalized"]
  /\ queue' = [queue EXCEPT ![d] = Append(@, d)]
  /\ UNCHANGED <<open_databases, current_action, queue_reference, gced, closed,
                 socket_state, actionVars, netVars, held, call, hookVars>>

(* __gc, from a sweep or from lua_close: CloseAction is queued with a plain *)
(* push_back, without the pin of InsertAction.                              *)
Finalize(d) ==
  /\ \/ CollectorRuns /\ userdata[d] = "cleared"
     \/ mode = "down" /\ userdata[d] \in {"live", "cleared"}
  /\ userdata' = [userdata EXCEPT ![d] = "finalized"]
  /\ IF HasCleanedUpAlready
     THEN UNCHANGED <<gced, queue>>
     ELSE /\ gced' = gced \cup {d}
          /\ queue' = [queue EXCEPT ![d] = Append(@, d)]
  /\ UNCHANGED <<open_databases, current_action, queue_reference, closed,
                 socket_state, actionVars, netVars, held, call, hookVars>>

-----------------------------------------------------------------------------
(* The visit of one database by TickHookTick                                *)

Visiting(d) ==
  /\ mode \in {"tick", "shutdown"}
  /\ callback = "none"
  /\ it <= Len(open_databases)
  /\ d = open_databases[it]

(* Query polls or starts action a of d, and the library answers n.          *)
Polled(d, a, n) ==
  /\ a \notin has_finished
  /\ IF a \in started
     THEN d \in ready /\ n < socket_state[d]
     ELSE n <= MaxRounds

Advance ==
  /\ it' = it + 1
  /\ unready' = TRUE
  /\ UNCHANGED <<mode, HasCleanedUpAlready>>

(* The operation of a is over, and so is its readiness event.               *)
Completed(d) ==
  /\ socket_state' = [socket_state EXCEPT ![d] = 0]
  /\ operation' = [operation EXCEPT ![d] = None]
  /\ ready' = ready \ {d}

(* A Lua error unwinds the whole pass; out of the ShutDown hook, nothing is *)
(* closed any more.                                                         *)
Abort ==
  /\ mode' = IF mode = "shutdown" THEN "down" ELSE "idle"
  /\ it' = 1 /\ unready' = FALSE /\ callback' = "none"
  /\ UNCHANGED HasCleanedUpAlready

(* The operation is suspended until the socket has another event.           *)
TickSuspend(d, a, n) ==
  /\ Polled(d, a, n) /\ n > 0
  /\ Take(d)
  /\ started' = started \cup {a}
  /\ socket_state' = [socket_state EXCEPT ![d] = n]
  /\ operation' = [operation EXCEPT ![d] = a]
  /\ ready' = ready \ {d}
  /\ Advance
  /\ UNCHANGED <<open_databases, queue_reference, gced, closed, kind, has_finished,
                 outcome, stages, luaVars, callback>>

(* Faulty variant: an action that is not ready is given up.                 *)
TickWaitNot(d, a) ==
  /\ a \in started \ has_finished
  /\ socket_state[d] # 0 /\ d \notin ready
  /\ Retire(d)
  /\ Advance
  /\ UNCHANGED <<open_databases, gced, closed, socket_state, actionVars, operation,
                 ready, luaVars, callback>>

(* CheckStatus finds nothing: the action stays the current one.             *)
TickWait(d, a) ==
  /\ a \in started \ has_finished
  /\ socket_state[d] # 0 /\ d \notin ready
  /\ Advance
  /\ UNCHANGED <<dbVars, actionVars, netVars, luaVars, callback>>

(* Faulty variant: a query counts as finished after its first operation.    *)
TickStageFinal(d, a) ==
  /\ Polled(d, a, 0)
  /\ KindOf(a) = "query"
  /\ Take(d)
  /\ Completed(d)
  /\ started' = started \cup {a}
  /\ has_finished' = has_finished \cup {a}
  /\ Advance
  /\ UNCHANGED <<open_databases, queue_reference, gced, closed, kind, outcome, stages,
                 luaVars, callback>>

(* A query has more operations to go through: Query clears started.         *)
TickStage(d, a) ==
  /\ Polled(d, a, 0)
  /\ KindOf(a) = "query" /\ stages[d] < MaxStages
  /\ Take(d)
  /\ Completed(d)
  /\ started' = started \ {a}
  /\ stages' = [stages EXCEPT ![d] = @ + 1]
  /\ Advance
  /\ UNCHANGED <<open_databases, queue_reference, gced, closed, kind, has_finished,
                 outcome, luaVars, callback>>

(* An operation of a query fails: Reject is called before DoFinish.         *)
TickReject(d, a) ==
  /\ Polled(d, a, 0)
  /\ KindOf(a) = "query"
  /\ Take(d)
  /\ Completed(d)
  /\ started' = started \cup {a}
  /\ outcome' = [outcome EXCEPT ![a] = "rejected"]
  /\ callback' = "reject"
  /\ UNCHANGED <<open_databases, queue_reference, gced, closed, kind, has_finished,
                 stages, luaVars, mode, it, unready, HasCleanedUpAlready>>

(* DoFinish of a command, a query or a connect settles the promise, whose   *)
(* callback runs; a connect hands its userdata, if it is still there, over. *)
TickFinish(d, a, result) ==
  /\ Polled(d, a, 0)
  /\ KindOf(a) \in {"connect", "command", "query"}
  /\ KindOf(a) = "query" => result = "resolved"
  /\ KindOf(a) = "connect" /\ result = "resolved" => userdata[d] # "finalized"
  /\ Take(d)
  /\ Completed(d)
  /\ started' = started \cup {a}
  /\ has_finished' = has_finished \cup {a}
  /\ outcome' = [outcome EXCEPT ![a] = result]
  /\ held' = IF KindOf(a) = "connect" /\ result = "resolved" /\ userdata[d] = "live"
             THEN held \cup {d} ELSE held
  /\ callback' = "finish"
  /\ UNCHANGED <<open_databases, queue_reference, gced, closed, kind, stages,
                 userdata, call, mode, it, unready, HasCleanedUpAlready>>

(* The connect succeeded, but db->Push raises: __gc reset the reference.    *)
TickConnectLost(d, a) ==
  /\ Polled(d, a, 0)
  /\ KindOf(a) = "connect" /\ userdata[d] = "finalized"
  /\ Take(d)
  /\ Completed(d)
  /\ started' = started \cup {a}
  /\ has_finished' = has_finished \cup {a}
  /\ Abort
  /\ UNCHANGED <<open_databases, queue_reference, gced, closed, kind, outcome,
                 stages, luaVars>>

(* The handle is closed; CloseAction has no callback.                       *)
TickClose(d, a) ==
  /\ Polled(d, a, 0)
  /\ KindOf(a) = "close"
  /\ Completed(d)
  /\ closed' = closed \cup {d}
  /\ started' = started \cup {a}
  /\ has_finished' = has_finished \cup {a}
  /\ Retire(d)
  /\ Advance
  /\ UNCHANGED <<open_databases, gced, kind, outcome, luaVars, callback>>

(* "errored in DoFinish": the action of an earlier pass is freed.           *)
TickFree(d, a) ==
  /\ a \in has_finished
  /\ Retire(d)
  /\ Advance
  /\ UNCHANGED <<open_databases, gced, closed, socket_state, actionVars, operation,
                 ready, luaVars, callback>>

(* The callback of Reject raised: the library has nothing to continue, its  *)
(* error rejects a settled promise, and DoFinish and Free follow.           *)
TickOutOfSync(d, a) ==
  /\ a \in started \ has_finished /\ socket_state[d] = 0
  /\ has_finished' = has_finished \cup {a}
  /\ Retire(d)
  /\ Advance
  /\ UNCHANGED <<open_databases, gced, closed, socket_state, kind, started, outcome,
                 operation, ready, luaVars, callback>>

(* The callback is over: DoFinish if Reject was called, then Free.          *)
CallbackReturn ==
  /\ callback # "none" /\ call = None
  /\ LET d == open_databases[it] IN
       /\ has_finished' = has_finished \cup {current_action[d]}
       /\ Retire(d)
  /\ Advance
  /\ callback' = "none"
  /\ UNCHANGED <<open_databases, gced, closed, socket_state, kind, started, outcome,
                 operation, ready, luaVars>>

(* The callback raises: DoFinish has set has_finished, Reject has not.      *)
CallbackError ==
  /\ callback # "none" /\ call = None
  /\ Abort
  /\ UNCHANGED <<dbVars, actionVars, netVars, luaVars>>

(* A collected database with nothing left to do is erased in place.         *)
DeleteDatabase(d) ==
  /\ d \in gced
  /\ open_databases' = RemoveAt(open_databases, it)
  /\ UNCHANGED <<queue, current_action, queue_reference, gced, closed, socket_state,
                 actionVars, netVars, luaVars, hookVars>>

SkipDatabase(d) ==
  /\ d \notin gced
  /\ it' = it + 1
  /\ UNCHANGED <<dbVars, actionVars, netVars, luaVars, mode, unready, callback,
                 HasCleanedUpAlready>>

-----------------------------------------------------------------------------
(* The two hooks                                                            *)

(* Faulty variants: the pass starts one too low; unready is never cleared.  *)
StartPassAtZero(m) == mode' = m /\ it' = 0 /\ unready' = FALSE
StartPassUnready(m) == mode' = m /\ it' = 1 /\ UNCHANGED unready

StartPass(m) == mode' = m /\ it' = 1 /\ unready' = FALSE

PassOver == callback = "none" /\ it > Len(open_databases)

TickHook ==
  /\ mode = "idle" /\ call = None
  /\ StartPass("tick")
  /\ UNCHANGED <<dbVars, actionVars, netVars, luaVars, callback, HasCleanedUpAlready>>

TickHookEnd ==
  /\ mode = "tick" /\ PassOver
  /\ StartPass("idle")
  /\ UNCHANGED <<dbVars, actionVars, netVars, luaVars, callback, HasCleanedUpAlready>>

ShutdownHook ==
  /\ mode = "idle" /\ call = None
  /\ StartPass("shutdown")
  /\ UNCHANGED <<dbVars, actionVars, netVars, luaVars, callback, HasCleanedUpAlready>>

(* TickHookTick returned false: the hook makes another pass.                *)
ShutdownRepeat ==
  /\ mode = "shutdown" /\ PassOver /\ unready
  /\ StartPass("shutdown")
  /\ UNCHANGED <<dbVars, actionVars, netVars, luaVars, callback, HasCleanedUpAlready>>

(* Faulty variant: the finalizers are not disarmed.                         *)
CloseAllArmed ==
  /\ mode = "shutdown" /\ PassOver /\ ~ unready
  /\ closed' = closed \cup ToSet(open_databases)
  /\ open_databases' = <<>>
  /\ StartPass("down")
  /\ UNCHANGED <<queue, current_action, queue_reference, gced, socket_state,
                 actionVars, netVars, luaVars, callback, HasCleanedUpAlready>>

(* The flag is set in the loop: not when no database is open.               *)
CloseAll ==
  /\ mode = "shutdown" /\ PassOver /\ ~ unready
  /\ closed' = closed \cup ToSet(open_databases)
  /\ HasCleanedUpAlready' = (HasCleanedUpAlready \/ open_databases # <<>>)
  /\ open_databases' = <<>>
  /\ StartPass("down")
  /\ UNCHANGED <<queue, current_action, queue_reference, gced, socket_state,
                 actionVars, netVars, luaVars, callback>>

-----------------------------------------------------------------------------
(* The network, and the specification                                       *)

SocketReady(d) ==
  /\ socket_state[d] # 0 /\ d \notin ready /\ mode # "down"
  /\ ready' = ready \cup {d}
  /\ UNCHANGED <<dbVars, actionVars, operation, stages, luaVars, hookVars>>

(* After lua_close the process exits.                                       *)
Terminated ==
  /\ mode = "down"
  /\ \A d \in Databases : userdata[d] \notin {"live", "cleared"}
  /\ UNCHANGED vars

LuaCode ==
  \/ \E d \in Databases : ConnectBegin(d) \/ Drop(d)
  \/ \E d \in Databases, a \in Requests, k \in {"command", "query"} : Submit(d, a, k)

(* mysql.connect returns, one way or another.                               *)
ConnectEnd ==
  \/ ConnectTypeError
  \/ \E a \in Requests : ConnectInsert(a)
  \/ ConnectInsertError

Collector ==
  \/ \E S \in SUBSET Databases : Collect(S)
  \/ \E d \in Databases : Finalize(d)

(* One call of RunTick makes at most one call of the library: it ends when  *)
(* current_action is null again, even if more is queued.                    *)
RunTick(d) ==
  LET a == Active(d) IN
    \/ \E n \in 1..MaxRounds : TickSuspend(d, a, n)
    \/ TickWait(d, a)
    \/ TickStage(d, a)
    \/ TickReject(d, a)
    \/ \E result \in {"resolved", "rejected"} : TickFinish(d, a, result)
    \/ TickConnectLost(d, a)
    \/ TickClose(d, a)
    \/ TickFree(d, a)
    \/ TickOutOfSync(d, a)

(* Faulty variant: a collected database is deleted without being drained.   *)
TickHookTickGcedFirst ==
  \/ \E d \in Databases :
       /\ Visiting(d)
       /\ IF d \in gced THEN DeleteDatabase(d)
          ELSE IF Busy(d) THEN RunTick(d) ELSE SkipDatabase(d)
  \/ CallbackReturn
  \/ CallbackError

TickHookTick ==
  \/ \E d \in Databases :
       /\ Visiting(d)
       /\ IF Busy(d) THEN RunTick(d) ELSE DeleteDatabase(d) \/ SkipDatabase(d)
  \/ CallbackReturn
  \/ CallbackError

Hooks ==
  \/ TickHookTick
  \/ TickHook \/ TickHookEnd
  \/ ShutdownRepeat \/ CloseAll

Next ==
  \/ LuaCode \/ ConnectEnd
  \/ Collector
  \/ Hooks \/ ShutdownHook
  \/ \E d \in Databases : SocketReady(d)
  \/ Terminated

(* The engine runs Tick for ever, C++ code and callbacks return, and every  *)
(* server answers; Lua code, the collector and ShutDown owe nothing.        *)
Fairness ==
  /\ WF_vars(Hooks \/ ConnectEnd)
  /\ \A d \in Databases : WF_vars(SocketReady(d))

Spec == Init /\ [][Next]_vars

FairSpec == Spec /\ Fairness

-----------------------------------------------------------------------------
(* Safety                                                                   *)

(* A callback runs for the current action of the database being visited,    *)
(* whose library call is over; a constructor runs inside Lua code.          *)
PassOK ==
  /\ callback # "none" =>
       /\ mode \in {"tick", "shutdown"}
       /\ it \in 1..Len(open_databases)
       /\ LET d == open_databases[it] IN
            /\ current_action[d] # None
            /\ socket_state[d] = 0
  /\ call # None => mode = "idle" \/ callback # "none"

(* The requests a database owes an answer to, the CloseAction left out.     *)
Owed(d) == ToSet(Pending(d)) \ Databases

(* While a request of a Lua caller waits or runs, InsertAction's reference  *)
(* keeps the userdata alive, whatever the caller, a failing callback and    *)
(* the collector do.  A connect may be queued unpinned (mysql.connect loses *)
(* the race with the collector), so it is left out.                         *)
PinnedWhilePending ==
  mode # "down" =>
    \A d \in Databases :
      (\E r \in Owed(d) : kind[r] # "connect")
        => d \in queue_reference /\ userdata[d] = "live"

(* Nothing waits behind a CloseAction: __gc queues it with a plain          *)
(* push_back, and no call can reach the database after that.                *)
CloseIsLast ==
  \A d \in Databases : \A i \in DOMAIN Pending(d) :
    Pending(d)[i] = d => i = Len(Pending(d))

(* What is still queued or running works on a handle mysql_close has not    *)
(* freed, and on a database object that has not been deleted.               *)
PendingOnOpenHandle ==
  \A d \in Databases :
    Pending(d) # <<>> => d \notin closed /\ d \in ToSet(open_databases)

(* The client library allows one operation at a time per handle: the        *)
(* suspended call is that of the action RunTick will continue.              *)
OneOperation ==
  \A d \in Databases :
    /\ operation[d] # None <=> socket_state[d] # 0
    /\ operation[d] # None => /\ operation[d] = current_action[d]
                              /\ operation[d] \in started \ has_finished

(* A finalizer never touches a deleted database: delete waits for __gc, and *)
(* the ShutDown hook, which does not, disarms the finalizers.               *)
NoDanglingFinalizer ==
  \A d \in Databases :
    userdata[d] \in {"live", "cleared"} /\ d \notin ToSet(open_databases)
      => HasCleanedUpAlready

(* The ShutDown hook closes a handle that is still open, and only once      *)
(* every database has run all its actions, those that callbacks of the last *)
(* pass queued included.                                                    *)
ShutdownDrained ==
  mode = "shutdown" /\ PassOver /\ ~ unready =>
    \A d \in ToSet(open_databases) : Pending(d) = <<>> /\ d \notin closed

(* What makes the three invariants above inductive, in terms of the queue   *)
(* and the running action instead of their concatenation.                   *)
InQueue(d, a) == current_action[d] = a \/ \E i \in 1..Len(queue[d]) : queue[d][i] = a

ReachableIsLive == mode # "down" => \A d \in held : userdata[d] = "live"

GcedIsFinalized == \A d \in gced : userdata[d] = "finalized"

CloseEndsQueue ==
  \A d \in Databases :
    /\ current_action[d] = d => d \in gced /\ queue[d] = <<>>
    /\ \A i \in 1..Len(queue[d]) : queue[d][i] = d => d \in gced /\ i = Len(queue[d])

PinsHold ==
  mode # "down" =>
    \A d \in Databases : \A r \in Requests :
      InQueue(d, r) /\ kind[r] # "connect"
        => d \in queue_reference /\ userdata[d] = "live"

LifetimeOK ==
  /\ PassOK
  /\ ReachableIsLive
  /\ GcedIsFinalized
  /\ CloseEndsQueue
  /\ PinsHold
  /\ NoDanglingFinalizer

(* What makes the invariants of the service inductive, in terms of Pending. *)

(* A call is queued once, in one database; the only CloseAction in a queue  *)
(* is the one __gc queued for that database.                                *)
QueuedOnce ==
  \A d \in Databases : \A i \in DOMAIN Pending(d) :
    LET a == Pending(d)[i] IN
    /\ IF a \in Databases THEN a = d /\ d \in gced ELSE kind[a] # "unused"
    /\ \A e \in Databases : \A j \in DOMAIN Pending(e) :
         Pending(e)[j] = a => e = d /\ j = i

(* What has not been queued, or still waits, has not been begun.            *)
UnusedUntouched ==
  /\ \A d \in Databases \ gced : d \notin started \cup has_finished
  /\ \A r \in Requests :
       kind[r] = "unused" => r \notin started \cup has_finished /\ outcome[r] = "none"
  /\ \A d \in Databases : \A i \in 2..Len(Pending(d)) : Pending(d)[i] \notin started
  /\ \A d \in Databases :
       current_action[d] = None /\ Busy(d) => Active(d) \notin started

(* A call that is settled and still there runs, and its library call is     *)
(* over: it cannot be settled again.                                        *)
SettledIsCurrent ==
  \A d \in Databases : \A r \in ToSet(Pending(d)) \cap Requests :
    outcome[r] # "none" =>
      current_action[d] = r /\ r \in started /\ socket_state[d] = 0

(* An owed call about to be freed is settled.                               *)
SettledBeforeFree ==
  /\ \A r \in Requests \cap has_finished :
       kind[r] \in {"command", "query"} => outcome[r] # "none"
  /\ \A d \in Databases :
       current_action[d] \in (Requests \cap started) \ has_finished /\ socket_state[d] = 0
         => outcome[current_action[d]] # "none"
  /\ callback # "none" =>
       LET a == current_action[open_databases[it]] IN a \in Requests /\ outcome[a] # "none"

(* A handle is freed by CloseAction or for good by the ShutDown hook.       *)
ClosedForGood ==
  /\ \A d \in closed : d \in gced \/ HasCleanedUpAlready
  /\ HasCleanedUpAlready => mode = "down"
  /\ call # None => userdata[call] # "none"

(* Until it runs an action, a pass of ShutDown leaves idle databases behind.*)
PassDrained ==
  mode = "shutdown" /\ ~ unready /\ callback = "none" =>
    \A i \in 1..Len(open_databases) :
      i < it => ~ Busy(open_databases[i]) /\ open_databases[i] \notin gced

ServiceOK ==
  /\ QueuedOnce
  /\ UnusedUntouched
  /\ OneOperation
  /\ SettledIsCurrent
  /\ SettledBeforeFree
  /\ ClosedForGood
  /\ PendingOnOpenHandle
  /\ PassDrained

LoopOK == LifetimeOK /\ ServiceOK

(* The order of the callbacks is the order of the calls: an action is begun *)
(* only when every action queued before it has been freed, and no operation *)
(* of the library is suspended.  Stated of every step that sets started.    *)
BegunInOrder ==
  [][\A d \in Databases : \A a \in started' \ started :
       a \in ToSet(Pending(d)) => a = Head(Pending(d)) /\ operation[d] = None]_vars

-----------------------------------------------------------------------------
(* What gluamysql promises its callers, as a service that answers in order  *)

Service == INSTANCE SerialService WITH
  Clients  <- Databases,
  Calls    <- Actions,
  pending  <- [d \in Databases |-> Pending(d)],
  answer   <- [a \in Actions |-> IF a \in Databases THEN "none" ELSE outcome[a]],
  accepted <- {r \in Requests : kind[r] # "unused"} \cup gced,
  owed     <- {r \in Requests : kind[r] \in {"command", "query"}}

(* Every request is queued once, answered at most once and in order, and,   *)
(* connect aside, never freed unanswered.                                   *)
ImplementsService == Service!Spec

-----------------------------------------------------------------------------
(* Liveness                                                                 *)

Queued(a) == \E d \in Databases : a \in ToSet(Pending(d))

(* Every action queued is freed in the end, the one whose callback raised   *)
(* and the CloseAction included, unless the process goes down first.        *)
EveryActionLeaves ==
  \A a \in Actions : Queued(a) ~> ~ Queued(a) \/ mode = "down"

(* A database Lua has lost is closed and deleted in the end.                *)
CollectedIsDeleted ==
  \A d \in Databases :
    userdata[d] = "finalized" ~> d \notin ToSet(open_databases) \/ mode = "down"

(* The loop of the ShutDown hook ends.                                      *)
ShutdownEnds == mode = "shutdown" ~> mode = "down"

-----------------------------------------------------------------------------
(* The comment "+1" of mysql_connect: the constructor leaves the userdata   *)
(* on the stack, so that the collector cannot take it before InsertAction.  *)
ConnectKeepsUserdata == call # None => userdata[call] = "live"

=============================================================================
