# gluamysql: a verification project

gluamysql is a binary module for Garry's Mod that gives Lua an asynchronous
MySQL client.  It is single-threaded where Lua is concerned: a `Tick` hook
polls every connection without blocking and continues the one library call
each has suspended.  These modules model that event loop, the one-call and the
query actions with the polls they wait by, the life and the execution of prepared
statements, the conversion of values and the Lua promise, model-check them on
small instances and prove every safety property the runs check of them for every
value of the constants.

## 1. The system

| part | source | state | operations |
|---|---|---|---|
| event loop | `main.cpp`, `luadatabase.{h,cpp}` | `open_databases`; per database `queue`, `current_action`, `queue_reference` (the pin), `reference` (a weak table), `gced`, `socket_state`; `HasCleanedUpAlready` | `TickHook`, `TickHookTick`, `RunTick`, `ShutdownHook`, `InsertAction`, `Push` |
| Lua interface | `gluamysql.cpp`, `luadatabase_library.cpp` | none of its own | `mysql.connect`; `query`, `prepare`, `ping`, `autocommit`, `commit`, `rollback`, `queuelength`, `IsValid`; `__gc` |
| actions | `luaaction.h`, `luaactionasync.h`, `luapromise.h` | `started`, `has_finished`; registry references to a promise | `Query`, `DoFinish`, `Finish`, `Reject`, `Free` |
| one-call actions | `actions/{connect,close,ping,autocommit}.h` | the answer of the call | `Start`, `Continue`, `Finish` |
| query | `actions/query.h` | the stage, the result set, the row table, `has_retried` | send, fetch a row, free the result |
| prepared statements | `luapreparedstatement*`, `actions/preparestatement*.h` | `db->stmts`; a raw pointer to the database | prepare, execute, close |
| statement execution | `actions/executestatement.h` | stage, `in_thread`, `thread_finished`, `out`, the rows | four stages, three on detached threads |
| values | `gluamysql.h`, `PopulateBind` | the buffers of an execution | `PushField`, `PushRow`, `CreateBuffer`, `PopulateBind` |
| socket polling | `GetCurrentDatabaseStatus`, `CheckDatabaseStatus` | none | masks of `poll` |
| Lua promises | `lua/promise.lua` | `_next`, `_catch`, `result`, `_finished` | `new`, `next`, `catch`, `wait` |
| Lua wrappers | `lua/oopmysql.lua`, `lua/cmysql.lua` | | |

How they interact.  Lua calls the interface, which creates an action (whose
constructor calls the global `Promise`) and queues it.  The engine calls the
`Tick` hook; the hook takes the oldest action of each database and asks it to
`Query`; the action calls the client library, which answers at once or with the
socket events it waits for.  A finished action calls back into Lua, inside the
hook, and that code may call the interface again or raise.  The collector may
run at any allocation of any of these and calls `__gc`, which queues a
`CloseAction`.  `ShutDown` runs the same passes until nothing is left, then
closes everything.

What is hard about it:

* the collector decides when a database is closed, and runs inside
  `mysql.connect`, inside callbacks and between two databases of a pass;
* callbacks run inside `TickHookTick` and `RunTick`, change the state these
  have already read, and may unwind them with a Lua error at that point;
* a database is deleted by the pass that iterates over the deque, and by
  `ShutdownHook` before the finalizers of its userdata have run;
* a query is many library calls, each of which may suspend or fail, and it
  leaves the connection unusable if it stops at the wrong one;
* the execution of a statement runs in detached threads, which share plain
  fields with the hook.

What makes each part correct:

* event loop: nothing pending on a database that is collected, closed or
  deleted; one operation at a time; actions in the order of the calls; every
  action freed; every collected database closed and deleted; shutdown drains,
  then closes, and ends;
* actions: each settles its promise at most once, and is freed once;
* query: all rows, once, in order, or a rejection; no error becomes a shorter
  result; the connection is free for the next action;
* prepared statements: no use after the database is gone, every statement
  closed once and before its connection;
* statement execution: the hook reads results only after the thread is done;
  all rows or a rejection, every row freed, and an end;
* polling: a suspended call is continued when its event comes, and only then;
* values: each parameter is sent its argument, each field of a row is the value
  of its column, and what a conversion loses is known;
* promises: one handler called, once, with the first settlement.

`PROJECT.json` lists the hazards at their lines, with the properties that cover
each, or why none does yet.

## 2. The modules

| module | what it is |
|---|---|
| `LuaDatabase` | the event loop, the collector, Lua code and the network |
| `SerialService` | abstract: what a caller relies on, a queue per database answered in order |
| `MCLuaDatabase` | symmetry for TLC |
| `LuaDatabaseProofs` | theorems about `LuaDatabase`: types and lifetime |
| `ServiceProofs` | theorems about `LuaDatabase`: the service, and the refinement of `SerialService` |
| `QueryAction` | one `db:query`, stage by stage |
| `ActionLife` | abstract: the life the event loop gives one action |
| `QueryActionProofs` | theorems about `QueryAction` |
| `ExecuteStatement` | one `stmt:execute`, its detached threads beside the hook |
| `ExecuteStatementProofs` | theorems about `ExecuteStatement` |
| `PreparedStatements` | the statements of one database, their finalizers and the database's own end |
| `PreparedStatementsProofs` | theorems about `PreparedStatements` |
| `AsyncAction` | one `LuaActionAsync` and the socket it waits for |
| `AsyncActionProofs` | theorems about `AsyncAction` |
| `FieldValues` | arguments to buffers, rows to tables |
| `MCFieldValues` | the values TLC tries |
| `FieldValuesProofs` | theorems about `FieldValues` |
| `Promise` | one promise of `lua/promise.lua` |
| `PromiseProofs` | theorems about `Promise` |

### LuaDatabase

The variables carry the names of the fields they stand for; sets stand for
Boolean fields (`gced`, `started`, `has_finished`).  `queue_reference` is the
set of pinned databases.  The weak table behind `reference` and the userdata
are one variable, `userdata[d]`: `"live"`, then `"cleared"` once a mark phase
found it unreachable (weak entry gone, finalizer not yet run), then
`"finalized"` (`__gc` has run and reset `reference`).

* **Lua code** runs between two hooks and inside a callback (`LuaRuns`):
  `ConnectBegin` and `ConnectInsert` are the two halves of `mysql.connect`, with
  the collector free to run between them; `Submit` is each of `query`,
  `prepare`, `ping`, `autocommit`, `commit`, `rollback`; `Drop` forgets a
  reference.
* **The collector**: `Collect` ends a mark phase, `Finalize` is `__gc`.
* **A pass** visits `open_databases` from `it = 1`.  One step is one visit:
  a call of `RunTick` (the `Tick...` actions, one for each way the library can
  answer and the action can react), `DeleteDatabase` or `SkipDatabase`.  A visit
  that calls back into Lua is cut in two: the step that calls
  (`callback # "none"`) and `CallbackReturn` or `CallbackError`, with Lua code
  and the collector in between.  The `do ... while` of `RunTick` ends after one
  action, because its condition reads `current_action` right after it was
  cleared: so does the model.
* **Errors**: `Abort` is a Lua error that leaves the hook, with
  `current_action` as it was; the next pass meets it in `TickFree` (finished) or
  `TickOutOfSync` (rejected, not finished).
* **The network**: `SocketReady` gives a suspended call its event.
  `socket_state[d]` counts the suspensions left, so every call ends.

Names ending in `AtZero`, `Late`, `Unmarked` and the like, commented *faulty
variant*, are plausible bugs of the definition that follows them; no behaviour
of the specification uses them.  `PROJECT.json` pairs each property with the
variant that breaks it.

Scope.  A kind is `connect`, `command` (one library call), `query` (several)
or the `CloseAction` of `__gc`.  Calls through a prepared statement are not in
this module: `stmt->db->InsertAction` does reach the queue by a pointer of its
own, and raises in `Push` once `__gc` has reset `reference`, but nothing stops
it from using a database already deleted.  The theorems are about programs that
prepare no statement; `PreparedStatements` is about the others.
A callback that connects a new database appends to `open_databases` during the
pass.  That invalidates the iterator by the letter of the language; the model
takes what release builds do with a small deque, where the position stays good.

### QueryAction

One action, from its first tick to `Free`.  `results` is the `MYSQL_RES`,
`status` the connection's own idea of whether it still has rows to read
(external, from how `mysql_use_result` and the fetches are used), `data` the Lua
table as the sequence of row numbers stored.  Each `Finish...` action is one
outcome of the `Finish` function of the stage; `GoOn` is its `return false`,
`Resolve` and `Reject` its two ends.

### ExecuteStatement

One `stmt:execute`, from its first tick to `Free`.  The detached thread is an
actor of its own: `thread` names what it does next, one step per library call,
and `ThreadFinish` is the write of `thread_finished`.  Between two of its steps
the hook may tick any number of times.  `out` and `resultdata` belong to the
thread while it runs, by convention only; `ThreadOwnsAction` is that convention.
`thread_finished` is a plain `bool`.  The model takes what the builds for x86
produce: the hook sees it late or not yet, but sees with it all that was
written before it; the starting of a thread and the poll that follows in the
same call are two steps (`hook = "check"`), because the thread may be done in
between.

`Polled` and `Polls` are the two conditions under which `Query` goes on: for the
stages with a thread and for the last one, a library call that may suspend.
`FreeResultsFinish` leaves `in_thread` set, and so does the model: the last
stage is then continued without its event.  A callback that raises leaves
`started` set; the stage is finished again by a later tick, where `Settle` does
nothing.  In one case there is no later finish: the binding of the parameters
failed, so no thread was started, and its rejection raised.  From then on the
hook polls for a thread that does not exist, and the queue of the database hangs.
No document says otherwise, so this is not a finding, but it is the one state
`ExecutionEnds` excepts: `WaitsForNoThread` names it, and it is not reached while
the callback runs, nor when it returns.

### PreparedStatements

One open database, from the callback of its connect to the end of the process,
and the statements prepared on it.  The queue is that of `LuaDatabase`, without
the stages of an action: `TickSuspend` is a library call that did not answer at
once, a `Finish...` action one that did.  `stmt[s]` is the `MYSQL_STMT`,
`userdata[s]` the Lua object, which exists from the callback of the prepare on;
`stmts` is `db->stmts`, by content.  The pointer `stmt->db` is implicit, there
being one database, and `deleted` says that it dangles.  `execute` and the
finalizer of a statement both end in `InsertAction` on that pointer: it pins the
database again, raises in `Push` after the database's `__gc`
(`executeError`, `FinalizeStatementError`), or works on freed memory, after which
`dangling` stops the model.  A statement whose execution fails is rejected from
inside `Query`, before `DoFinish` sets `has_finished`: `RejectExecute` leaves it
clear, and when the callback returns or raises, the stages left are run through
(`CallbackReturnFetch`, `EndExecute`), which settle nothing.  If it was the
binding that failed (`bind_failed`) and the callback raises, there is no such
end but only `TickPoll`, the poll for a thread that was never started: the state
is called `Hung`.  Finalizers run youngest first in one sweep, so that
a database collected together with its statements closes after them; a
collection may also take one and not yet the other.  A prepare that fails leaves
its handle in `"init"`, as the code does, and nobody closes it.

Whether Lua code ever forgets its database is not a constant: the properties
that need a program that does not are stated of the states in which the database
is still `held`.  Not modelled: an error of a finalizer that unwinds a hook
between the end of a library call and its callback; with a program that keeps
its database no finalizer raises, which is `NoDanglingDatabase`.

### AsyncAction

One action whose `Query` is that of `LuaActionAsync`: `connect`, a command
(`ping`, `autocommit`, `commit`, `rollback`, `prepare`) or one of the two
closings.  `socket_state` is the set of events of the mask, `readable` the events
on the socket.  A tick is two steps, `CheckStatus` and `Continue`, each with a
poll of its own, and the network moves between them.  `hangup` is what `poll`
reports without being asked; the function translates it to no event at all.
`poll_error` says that `poll` fails: `GetCurrentDatabaseStatus` reports that as a
timeout, which wakes nobody in the first poll of a tick and in the second is
handed to the library, where it fails the call.  `PollFails` may come at any
moment, between the two polls too.
What the masks may be is the assumption `MasksAssumption`, from how libmariadb
waits: one direction at a time.  `CheckDatabaseStatus` needs it: of a mask with
both directions it would want both at once.

### FieldValues

A behaviour binds the arguments of one `stmt:execute` or pushes one row, one
argument or column a step.  The buffers are addresses: `buffers` is what is
there, `valid` which addresses are still those of an element, because the library
reads them later, from another thread.  Numbers are integers up to twice
`MaxExact`, which stands for 2^53, and a byte has `Bytes` values; `Double` is the
rounding of `atof`.  `Representable` lists what the conversions lose: a NULL
without flags (`db:query` passes none, so that it reads as 0 or as an empty
string), an odd integer beyond 2^53, and a BIT of more than seven bits.
`ValuesAssumption` says what a server sends: the value of a column of type NULL
is NULL, and the text of a number or of a BIT is never empty.

### Promise

One promise, with Lua code that attaches handlers (`AttachNext`, `AttachCatch`)
and the C++ side that settles it (`Finish`), in any order, from inside handlers
too.  `Promise.new` puts tables under the keys `next` and `catch` of the object,
which hide the methods; `AttachNext` and `AttachCatch` are the methods reached
through the metatable, `CallMethod` is the call as the examples write it, which
raises.  `_try` takes the handlers and the result as its caller has just set
them; `running` is the handler inside which the next step happens.  The sequences
`fired` and `attached` record what has happened: the calls of handlers, and every
attachment with its outcome and whether it came after the settlement.
`MaxAttached` bounds the second, and nothing else depends on them.

## 3. What is checked

| run | module | bounds | shows |
|---|---|---|---|
| `safety` | `MCLuaDatabase` | 2 databases, 4 requests, 2 suspensions, 2 operations per query | types, lifetime, order, one operation, draining; `LuaDatabase` implements `SerialService` |
| `liveness` | `MCLuaDatabase` | 2 databases, 2 requests, 1 suspension | every action leaves, every collected database is deleted, shutdown ends |
| `connect_window` | `MCLuaDatabase` | 1 database | the comment `// +1` of `mysql_connect` is not what happens |
| `query` | `QueryAction` | 3 rows, 2 suspensions per call | all rows or a rejection, connection in step; implements `ActionLife` |
| `execute` | `ExecuteStatement` | 3 rows, 2 suspensions | ownership between hook and threads, all rows or a rejection, all rows freed, an end unless it waits for a thread never started; steps of `ActionLife` |
| `promise` | `Promise` | 3 handlers, 4 attachments | one handler, for the first settlement, and it is the one that is due |
| `statements` | `PreparedStatements` | 2 statements, 2 executions | executions before closings, `db->stmts` lists the open ones, nothing dangles while the database is held, closings happen unless the queue hangs; implements `SerialService` |
| `statement_orphan` | `PreparedStatements` | 1 statement, 1 execution | a statement whose database was collected raises |
| `async_action` | `AsyncAction` | 6 masks, 2 suspensions | continued with an event, never without; an end; steps of `ActionLife` |
| `values` | `MCFieldValues` | 2 parameters, 3 arguments, 2 columns | parameters and fields are faithful, but for the exceptions named |
| `promise_methods` | `Promise` | 1 handler | the method calls of the examples raise |
| `query_retry` | `QueryAction` | 1 row | "try reperform" does not reperform |

Why the bounds are enough.  Two databases let a callback of one act on the
other and a deletion move the position of the pass; four requests give each a
connect and leave two for one queue, so that something runs, something waits
and something is being queued.  Two suspensions allow a wait, a wake-up and a
second wait of the same call; one extra operation distinguishes a finished
operation from a finished action.  Three rows are a first, a middle and a last.  Two statements let one close
between the calls of the other, and two executions let one wait behind a closing.
The six masks are all that libmariadb asks for, with and without a timeout, and
the theorems of section 4 are about every set of masks.  Two columns suffice for
one to overwrite another, and one argument more than parameters for one to be
left over.  Three handlers are one that runs,
one that replaces it and one for the other outcome; of four attachments two can
come before the settlement and two after it, which is all that `Due` tells apart.

The properties, by what could really go wrong:

* `PinnedWhilePending`: the pin is taken by `InsertAction` and dropped by a tick
  that read the queue, with a callback in between.  A connect is left out: it
  may be queued unpinned, see `connect_window`.
* `CloseIsLast`, `PendingOnOpenHandle` and, in `LoopOK`,
  `NoDanglingFinalizer`: the three orders in which a database must die - drained, closed, deleted - against collector
  and shutdown.  They hold although `mysql.connect` loses its userdata, because
  `Push` raises after `__gc`.
* `OneOperation`, `BegunInOrder`, `ImplementsService`: serial execution, and one
  answer per call in order, whatever raises.
* `ShutdownDrained`: closing starts only when callbacks have stopped queueing.
* `LoopOK`, `StagesInStep`: the inductive invariants of section 4.
* `ResolvedWithAllRows`, `FailureIsRejected`, `ConnectionInSync`,
  `ImplementsLife`: the query.
* `ThreadOwnsAction`, `RowsFreed`, `ImplementsLifeSteps`, `ExecutionEnds`, and
  `ResolvedWithAllRows` and `FailureIsRejected` again: the execution.
  `ThreadOwnsAction` is what a stale `thread_finished` would break: the first
  stage relies on its initial value, the others reset it.
* `ExecutesBeforeClose`, `ListedIsOpen`, `NoDanglingDatabase`,
  `StatementsClosed`: the orders in which a statement, its executions, its
  database and the process may end.  `ListedIsOpen` is also what makes the
  `erase` of `PrepareStatementCloseAction` defined.
* `ContinuedReady`, `ActionEnds`: together, a suspended call is continued exactly
  when an event it waits for is there, although two polls decide it and either
  may fail.  `ImplementsLifeSteps` of `AsyncAction`: one settlement and one end,
  however often the call is suspended and whatever its callback does.  A connect
  whose `Push` raises is excepted by name (`Untold`): nobody is told its result.
* `ParametersFaithful`, `RowFaithful`: what crosses the border arrives.
* `OneHandlerForResult`, `DueHandlerCalled`: both ends of a promise call `_try`,
  and a handler must be called by one of them, not by both or by neither.  Which
  handler, `Due` says: the last one attached for the outcome before the
  settlement or, without one, the first one attached after it.  Every other
  handler is dropped: a second handler attached to a promise whose handler has
  been called is never called (`promise.lua:70`).

Fairness.  `WF(Hooks \/ ConnectEnd)`: the engine calls `Tick` for ever, and
C++ code and callbacks return.  It is one condition for the whole loop: nothing
is assumed of one database or one action.  `WF(SocketReady(d))`: a server answers
in the end; `gluamysql` itself sets no timeout, so without this nothing more can
be promised.  Nothing is assumed of Lua code, of the collector or of `ShutDown`.
In `QueryAction` and `ExecuteStatement`, `WF(Tick)` and `WF(SocketReady)` for the
same reasons; and `WF(Thread)`: the operating system runs a started thread, and
its blocking calls return.  In `PreparedStatements`, `WF(Hooks)`: the hook ticks
and every call is answered.  In `AsyncAction`, `WF(Tick)` and `WF(Answer)`: one
of the events waited for comes in the end, be it the end of the connection;
`gluamysql` ignores timeouts, so nothing less would do, and a server that falls
silent suspends its queue for ever.  `WF(PollRecovers)` and `SF(CheckStatus)`: of
the polls of the hook, one every tick, not all fail.  `FieldValues` is
sequential and ends by itself.  `Promise` is checked for safety only: nothing makes
Lua code attach a handler.

Findings.

1. `gluamysql.cpp:9` says `// +1` of the constructor, and line 27 pops that
   value.  The constructor leaves nothing on the stack: only a weak table refers
   to the userdata until `InsertAction`.  `connect_window` shows a collection in
   between; the connect is then lost or runs unpinned.
2. `query.h:41` says "server lost, try reperform".  The branch swaps the table
   and falls into `return true`: `query_retry` shows a retried query sent once.
3. `lua/example.lua:16` attaches a handler with `:next(function(db)`.  The fields
   `next` and `catch` that `Promise.new` sets (`promise.lua:17`) hide the methods:
   `promise_methods` shows that the first such call raises.
4. `README.md:80` of the repository gives `execute` a promise as its result.  A
   statement does not keep its database alive: `statement_orphan` shows a call
   that raises because the database was collected meanwhile.

One more disagreement has no run.  `README.md:51` of the repository says "Each
row's data will also have keys AFFECTED_ROWS and LAST_INSERT_ID".  No row has
them: `PushRow` sets the columns and nothing else, and `Finish`
(`query.h:120-136`, `executestatement.h:302-317`) sets them on the result table,
beside the rows, and each only if the connection reports it.  `RowFaithful` is
about the columns, by the code and not by that sentence; a run that looked for
the keys in `fields` would only repeat that `PushRow` does not mention them.

## 4. What is proved

`tlapm` checks every step below for all values of the constants.  The
assumptions are on the constants only: `ConstantsAssumption` of `LuaDatabase`
(databases and requests are disjoint, `None` is neither, the bounds are
naturals) and of `PreparedStatements` (the database is no statement, `None` is
no object and no action), the `BoundsAssumption` of `QueryAction` and
`ExecuteStatement`, `MasksAssumption` and `ValuesAssumption`.  Every proof has
the same outline: an inductive invariant, checked by TLC on the bounds of
section 3 before it was proved, one step per action, and the properties as
consequences.

**The event loop** (`LuaDatabaseProofs`, `ServiceProofs`).

* `TypeCorrect`: types, with `PassOK` (a callback belongs to the action taken by
  the visited database, whose call is over).  Without `PassOK` the end of a
  callback could not be typed: it indexes the deque with the position.
* `LifetimeCorrect`: `LifetimeOK` is inductive.  `PinnedWhilePending` is not:
  that a pinned userdata stays alive needs `ReachableIsLive` (what Lua reaches
  is live, or a call could queue on a dying database), and that nothing follows
  a CloseAction needs `GcedIsFinalized` (no call can be made after `__gc`) and
  the position of the CloseAction in `CloseEndsQueue`.  `PinsHold` is the claim
  about pins in terms of the queue and the running action.  The proof classifies
  each step once, by its effect on one database (`QueueStep`, `PinStep`,
  `UserdataStep`, `OpenStep`, ...), and each invariant is then proved from the
  classes.
* `Pinned`, `CloseLast`, `NoDangling`: the three safety properties that follow.
* `LoopCorrect`: `LoopOK`, that is `LifetimeOK` with `ServiceOK`, is inductive.
  `OneOperation` alone is not: that the action a step begins or frees is no other
  database's needs that a call is queued once and in one database (`QueuedOnce`),
  and that it was not begun before needs `UnusedUntouched` (what waits, or was
  never queued, is not started).  `SettledIsCurrent` and `SettledBeforeFree` tie
  the answer to the action: it is given while the action runs, with no library
  call left, and before it is freed.  `PendingOnOpenHandle` needs
  `ClosedForGood`: a handle is closed after `__gc`, by the last action of its
  queue, or by the ShutDown hook for good.  `ShutdownDrained` follows from
  `PassDrained`: until a pass of ShutDown runs an action, the databases it has
  left behind are idle.
* `OneAtATime`, `HandleOpen`, `Drained`: these three.  `InOrder`: the action
  property `BegunInOrder`.
* `ServesInOrder`: `ImplementsService`, every step of the loop a step of
  `SerialService` or a stutter.  An action is retired at the head of its queue
  (`QueuedOnce`, `SettledIsCurrent`) and was answered before (`SettledBeforeFree`).

**A query** (`QueryActionProofs`).

* `InStep`: `StagesInStep`, the invariant of a query: `Progress` (a settled
  action never reaches a stage again), `Rows` (the table is exactly the rows
  read), `Wire` (the stage matches the connection).  `TypeCorrect`: the types,
  proved with it.
* `AllRows`, `FailureRejects`, `InSync`: from it, the three safety properties of
  the query, for any number of rows.
* `LivesOnce`: each step of `QueryAction` is a step of `ActionLife` or a
  stutter; the safety part of `ImplementsLife`.

**An execution** (`ExecuteStatementProofs`).

* The invariant is `StageOK`, one conjunct for each stage (`ExecuteOK`,
  `FetchOK`, `ResultsOK`, `StatementOK`: which thread may run, what `in_thread`
  and `thread_finished` are, how much has been fetched and freed) and for what
  may interrupt a stage (`HookOK`, `CallbackOK`).  `ThreadOwnsAction` is a
  conjunct of it and not inductive alone: that a hook which sees
  `thread_finished` sees the one of this stage's thread depends on who reset it
  before, which differs by stage.  A callback that raised sends the action to
  the same stage again, so that `ExecuteOK` also describes the failures that are
  looked at twice, and `FinishedOK` and `AnswerOK` why nothing is settled twice.
* `TypeCorrect`, `Owned`, `AllRows`, `FailureRejects`, `FreesRows`: the five
  invariants, for any number of rows and suspensions and every interleaving of
  the hook with the threads.  `LivesOnce`: `ImplementsLifeSteps`.

**Statements** (`PreparedStatementsProofs`).

* The invariant relates the queue to the objects.  `QueuedOnce` and `MadeOK`: an
  action is queued once, when it is made, and what has been made can be told
  from the state of the objects, so a statement or a database that still has to
  be finalized has no closing queued.  `UserdataOK`: a userdata exists from the
  end of its preparation on.  `PreparesFirst`: a statement whose preparation
  waits has only `init` as its state, which keeps its executions and its closing
  behind it.  `AnsweredOK`: what is answered is the current action, at the head,
  and only an execution is answered before it is finished.  `DeletedOK`: a
  deleted database has an empty queue, and was collected or the process goes
  down.  `ExecutesBeforeClose`, `ListedIsOpen` and `NoDanglingDatabase` are
  conjuncts: each needs the others' context and none is inductive alone.
* `TypeCorrect`, `ExecutesFirst`, `Listing`, `NothingDangles`: the four
  invariants, for any number of statements and executions.  `ServesInOrder`:
  `ImplementsService`.

**One call, values, promises** (`AsyncActionProofs`, `FieldValuesProofs`,
`PromiseProofs`).

* `WokenByEvent`: for every mask of one direction, the two comparisons of
  `CheckDatabaseStatus` say that the poll succeeded and an event of the mask is
  there.  `TypeCorrect`, `NeverContinuedEmpty`, `LivesOnce`: `TypeOK`,
  `ContinuedReady` and `ImplementsLifeSteps`, under `MasksAssumption`.  The
  invariant is `CallOK`: a call begun and not over always waits for a mask, and
  from the first poll on an event of it is on the socket, which only `Continue`
  takes away.
* `Parameters`: `ParametersFaithful`, for any arguments and any number of
  parameters.  The invariant says of each parameter that it is still unset, or
  that its bind points behind all the flags to a buffer with its argument: the
  buffers bound later are put behind that one and do not move it.  `Rows`:
  `RowFaithful`, for rows of any width; the invariant is the property of the
  columns pushed so far.  `ColumnFaithful` is the lemma about the conversion of
  one column that `Representable` admits, and `NumberOne` the one about the fold
  `Number` of a single byte.
* `TypeCorrect`, `CalledOnce`, `DueCalled`: types and the two properties of a
  promise, for any number of handlers and attachments.  The invariant ties the
  fields to the history: a field holds the handler attached last for its outcome
  (`HandlersAttached`), nothing is late before the settlement, and the handler
  called is the due one's (`CallsCounted`).  `AttachKeeps` and `SettleKeeps` are
  the two ends that call `_try`, `DueIsOne` that no two attachments are due.

Only model-checked: everything under fairness, which the prover does not reach -
the properties `EveryActionLeaves`, `CollectedIsDeleted` and `ShutdownEnds` of
the run `liveness`, `ExecutionEnds`, `StatementsClosed`, `ActionEnds`, and the
fairness in `ImplementsLife`, of which `LivesOnce` proves the steps.  The four
properties of the runs that expect a violation are false, and TLC shows the
behaviour.

## 5. What is not modelled

* Most of the repository's lines are not the program's own: the headers of the
  client library (`mysql/`), of LuaJIT (`luajit/`) and of Garry's Mod
  (`gmod-module-base/`, `garrysmod_common/`), declarations with no state of this
  system, modelled only from how `src/` uses them.  The program itself is about
  1700 lines of C++ and 470 of Lua, and nearly all of its functions that change
  state are modelled; the rest of the tree is why the share of mapped lines is
  small, and modelling more of the program cannot change that.
* `lua/oopmysql.lua` does not parse (lines 72 and 138); `lua/cmysql.lua` waits on
  its first promise with the method call that raises; `lua/example.lua` is a
  client of the interface.
* Registration of functions and metatables (`gmod13_open`, `CreateMetaTable`),
  `tremove` and `PushLibrary`, which set up tables or are not called.
* `__tostring`, `IsValid`, `queuelength`, `parametercount`: they read one value.
* `LAST_INSERT_ID` and `AFFECTED_ROWS`: values read from the connection after
  the last stage; they do not change what is answered or when.  Section 3 says
  where they differ from the repository's README.
* Memory: a failed fetch leaks its result set, a failed prepare its statement,
  and an execution the metadata it asks for only to see whether there is any.
* The constructor of `ResultData`, which throws inside the thread, ending the
  process, when results cannot be bound.
* Texts of numbers: signs, fractions and exponents of `atof`.
* `Promise:wait`, which begins with the method call that raises.

## 6. Plan

1. The hypotheses of the liveness properties that are safety: that in every
   state with work left a hook or the network has a step to take.
