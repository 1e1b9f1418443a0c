------------------------- MODULE LuaDatabaseProofs -------------------------
(* Theorems about LuaDatabase, for any databases, requests and bounds.      *)
EXTENDS LuaDatabase, SequenceTheorems, TLAPS

-----------------------------------------------------------------------------
(* Sequences                                                                *)

(* What is left when the pass erases an element are elements of the deque.  *)
LEMMA RemoveAtType ==
  ASSUME NEW S, NEW s \in Seq(S), NEW i \in 1..Len(s)
  PROVE  RemoveAt(s, i) \in Seq(S)
BY SubSeqProperties, ConcatProperties DEF RemoveAt

(* The queue behind the running action is made of queued actions.           *)
LEMMA RestType ==
  ASSUME TypeOK, NEW d \in Databases, Busy(d)
  PROVE  /\ Active(d) \in Actions
         /\ Rest(d) \in Seq(Actions)
BY DEF TypeOK, Busy, Active, Rest

-----------------------------------------------------------------------------
(* Type correctness                                                         *)

TypeInv == TypeOK /\ PassOK

(* The module starts with every variable in its type.                      *)
LEMMA TypeInit == Init => TypeInv
<1> SUFFICES ASSUME Init PROVE TypeInv
  OBVIOUS
<1>1. FlagsOK
  BY DEF Init, FlagsOK
<1>2. TypeOK
  BY <1>1, ConstantsAssumption DEF ConstantsAssumption, Init, TypeOK, Actions
<1>3. PassOK
  BY DEF Init, PassOK
<1> QED
  BY <1>2, <1>3 DEF TypeInv

(* The flags only ever take a truth value.                                  *)
LEMMA FlagsNext == FlagsOK /\ [Next]_vars => FlagsOK'
<1> SUFFICES ASSUME FlagsOK, [Next]_vars PROVE FlagsOK'
  OBVIOUS
<1>1. CASE UNCHANGED hookVars
  BY <1>1 DEF hookVars, FlagsOK
<1>2. CASE \E d \in Databases : Visiting(d) /\ Busy(d) /\ RunTick(d)
  BY <1>2, ZenonT(60) DEF RunTick, TickSuspend, TickWait, TickStage, TickReject, TickFinish,
     TickConnectLost, TickClose, TickFree, TickOutOfSync, Advance, Abort, FlagsOK
<1>3. CASE \/ \E d \in Databases : DeleteDatabase(d) \/ SkipDatabase(d)
           \/ CallbackReturn \/ CallbackError
  BY <1>3 DEF DeleteDatabase, SkipDatabase, CallbackReturn, CallbackError, Advance,
     Abort, hookVars, FlagsOK
<1>4. CASE TickHook \/ TickHookEnd \/ ShutdownHook \/ ShutdownRepeat \/ CloseAll
  BY <1>4 DEF TickHook, TickHookEnd, ShutdownHook, ShutdownRepeat, CloseAll,
     StartPass, FlagsOK
<1>5. CASE LuaCode \/ ConnectEnd \/ Collector \/ \E d \in Databases : SocketReady(d)
  BY <1>1, <1>5 DEF LuaCode, ConnectEnd, Collector, ConnectBegin, Drop, Submit,
     ConnectTypeError, ConnectInsert, ConnectInsertError, Collect, Finalize, SocketReady
<1>6. CASE UNCHANGED vars
  BY <1>1, <1>6 DEF vars
<1> QED
  BY <1>2, <1>3, <1>4, <1>5, <1>6 DEF Next, Hooks, TickHookTick, Terminated

(* No step of Lua code, the collector, a hook or the network leaves the     *)
(* types: a queue stays a queue of actions, a count within its bound.       *)
LEMMA TypeNext == TypeOK /\ PassOK /\ [Next]_vars => TypeOK'
<1> SUFFICES ASSUME TypeOK, PassOK, [Next]_vars PROVE TypeOK'
  OBVIOUS
<1>0. FlagsOK'
  BY FlagsNext DEF TypeOK
<1> USE <1>0, ConstantsAssumption DEF ConstantsAssumption
<1> USE DEF Actions, dbVars, actionVars, netVars, luaVars, hookVars
<1>1. ASSUME NEW d \in Databases, ConnectBegin(d) PROVE TypeOK'
  BY <1>1 DEF ConnectBegin, TypeOK
<1>2. ASSUME NEW d \in Databases, Drop(d) PROVE TypeOK'
  BY <1>2 DEF Drop, TypeOK
<1>3. ASSUME NEW d \in Databases, NEW a \in Requests,
             NEW k \in {"command", "query"}, Submit(d, a, k)
      PROVE TypeOK'
  BY <1>3 DEF Submit, InsertAction, Pin, TypeOK
<1>4. CASE ConnectTypeError \/ ConnectInsertError
  BY <1>4 DEF ConnectTypeError, ConnectInsertError, TypeOK
<1>5. ASSUME NEW a \in Requests, ConnectInsert(a) PROVE TypeOK'
  BY <1>5 DEF ConnectInsert, InsertAction, Pin, TypeOK
<1>6. ASSUME NEW S \in SUBSET Databases, Collect(S) PROVE TypeOK'
  BY <1>6 DEF Collect, TypeOK
<1>7. ASSUME NEW d \in Databases, Finalize(d) PROVE TypeOK'
  <2>1. CASE HasCleanedUpAlready
    BY <1>7, <2>1 DEF Finalize, TypeOK
  <2>2. CASE ~ HasCleanedUpAlready
    <3>1. queue' = [queue EXCEPT ![d] = Append(queue[d], d)] /\ gced' = gced \cup {d}
      BY <1>7, <2>2 DEF Finalize
    <3>2. queue' \in [Databases -> Seq(Actions)]
      BY <3>1 DEF TypeOK
    <3> QED
      BY <1>7, <3>1, <3>2 DEF Finalize, TypeOK
  <2> QED
    BY <2>1, <2>2
<1>8. ASSUME NEW d \in Databases, Visiting(d), Busy(d), RunTick(d) PROVE TypeOK'
  <2> DEFINE a == Active(d)
  <2>1. a \in Actions /\ Rest(d) \in Seq(Actions)
    BY <1>8, RestType
  <2> HIDE DEF a
  <2> USE <2>1 DEF Polled, Take, Retire, Unpinned, Completed, Advance, TypeOK
  <2>2. ASSUME NEW n \in 1..MaxRounds, TickSuspend(d, a, n) PROVE TypeOK'
    BY <2>2, SMTT(30) DEF TickSuspend, a
  <2>3. CASE TickWait(d, a)
    BY <2>3, SMTT(30) DEF TickWait
  <2>4. CASE TickStage(d, a)
    BY <2>4, SMTT(30) DEF TickStage, a
  <2>5. CASE TickReject(d, a)
    BY <2>5 DEF TickReject, KindOf, a
  <2>6. ASSUME NEW result \in {"resolved", "rejected"}, TickFinish(d, a, result)
        PROVE TypeOK'
    BY <2>6, SMTT(30) DEF TickFinish, KindOf, a
  <2>7. CASE TickConnectLost(d, a)
    BY <2>7 DEF TickConnectLost, Abort, a
  <2>8. CASE TickClose(d, a)
    BY <2>8, SMTT(30) DEF TickClose
  <2>9. CASE TickFree(d, a)
    BY <2>9 DEF TickFree
  <2>10. CASE TickOutOfSync(d, a)
    BY <2>10, SMTT(30) DEF TickOutOfSync
  <2> QED
    BY <1>8, <2>2, <2>3, <2>4, <2>5, <2>6, <2>7, <2>8, <2>9, <2>10 DEF RunTick, a
<1>9. ASSUME NEW d \in Databases, Visiting(d), DeleteDatabase(d) PROVE TypeOK'
  <2>1. RemoveAt(open_databases, it) \in Seq(Databases)
    BY <1>9, RemoveAtType DEF Visiting, TypeOK
  <2> QED
    BY <1>9, <2>1 DEF DeleteDatabase, TypeOK
<1>10. ASSUME NEW d \in Databases, Visiting(d), SkipDatabase(d) PROVE TypeOK'
  BY <1>10, SMTT(30) DEF SkipDatabase, TypeOK
<1>11. CASE CallbackReturn
  <2> DEFINE d == open_databases[it]
  <2>1. d \in Databases /\ current_action[d] \in Actions
    BY <1>11 DEF CallbackReturn, TypeOK, PassOK
  <2>2. Rest(d) \in Seq(Actions)
    BY <2>1, RestType DEF Busy, Actions
  <2>3. Retire(d) /\ has_finished' = has_finished \cup {current_action[d]}
    BY <1>11 DEF CallbackReturn
  <2> HIDE DEF d
  <2>4. /\ current_action' \in [Databases -> Actions \cup {None}]
        /\ queue' \in [Databases -> Seq(Actions)]
        /\ queue_reference' \subseteq Databases
        /\ stages' \in [Databases -> 0..MaxStages]
        /\ has_finished' \subseteq Actions
    BY <2>1, <2>2, <2>3, SMTT(30) DEF Retire, Unpinned, TypeOK
  <2>5. /\ it' = it + 1 /\ mode' = mode /\ callback' = "none"
        /\ UNCHANGED <<open_databases, gced, closed, socket_state, kind, started,
                       outcome, operation, ready, luaVars>>
    BY <1>11 DEF CallbackReturn, Advance
  <2> QED
    BY <2>4, <2>5 DEF TypeOK
<1>12. CASE CallbackError
  BY <1>12 DEF CallbackError, Abort, TypeOK
<1>13. CASE TickHook \/ TickHookEnd \/ ShutdownHook \/ ShutdownRepeat
  BY <1>13 DEF TickHook, TickHookEnd, ShutdownHook, ShutdownRepeat, StartPass, TypeOK
<1>14. CASE CloseAll
  BY <1>14 DEF CloseAll, StartPass, ToSet, TypeOK
<1>15. ASSUME NEW d \in Databases, SocketReady(d) PROVE TypeOK'
  BY <1>15 DEF SocketReady, TypeOK
<1>16. CASE UNCHANGED vars
  BY <1>16 DEF vars, TypeOK
<1> QED
  BY <1>1, <1>2, <1>3, <1>4, <1>5, <1>6, <1>7, <1>8, <1>9, <1>10, <1>11, <1>12,
     <1>13, <1>14, <1>15, <1>16
  DEF Next, LuaCode, ConnectEnd, Collector, Hooks, TickHookTick, Terminated

(* A callback runs only inside a pass and for an action that has been       *)
(* taken, whose library call is over: no step breaks it.                    *)
LEMMA PassNext == TypeOK /\ PassOK /\ [Next]_vars => PassOK'
<1> SUFFICES ASSUME TypeOK, PassOK, [Next]_vars PROVE PassOK'
  OBVIOUS
<1> USE ConstantsAssumption DEF ConstantsAssumption, Actions
<1> USE DEF dbVars, actionVars, netVars, luaVars, hookVars
<1>1. ASSUME NEW d \in Databases, ConnectBegin(d) PROVE PassOK'
  <2>1. callback # "none" => open_databases'[it] = open_databases[it]
    BY <1>1, AppendProperties DEF ConnectBegin, TypeOK, PassOK
  <2> QED
    BY <1>1, <2>1, SMTT(30) DEF ConnectBegin, LuaRuns, TypeOK, PassOK
<1>2. ASSUME NEW d \in Databases, Drop(d) PROVE PassOK'
  BY <1>2 DEF Drop, LuaRuns, PassOK
<1>3. ASSUME NEW d \in Databases, NEW a \in Requests,
             NEW k \in {"command", "query"}, Submit(d, a, k)
      PROVE PassOK'
  BY <1>3 DEF Submit, PassOK
<1>4. CASE ConnectTypeError \/ ConnectInsertError
  BY <1>4 DEF ConnectTypeError, ConnectInsertError, PassOK
<1>5. ASSUME NEW a \in Requests, ConnectInsert(a) PROVE PassOK'
  BY <1>5 DEF ConnectInsert, PassOK
<1>6. ASSUME NEW S \in SUBSET Databases, Collect(S) PROVE PassOK'
  BY <1>6 DEF Collect, PassOK
<1>7. ASSUME NEW d \in Databases, Finalize(d) PROVE PassOK'
  BY <1>7 DEF Finalize, PassOK
<1>8. ASSUME NEW d \in Databases, Visiting(d), Busy(d), RunTick(d) PROVE PassOK'
  <2> DEFINE a == Active(d)
  <2>1. a # None
    BY <1>8, RestType
  <2>2. callback = "none" /\ it \in 1..Len(open_databases) /\ d = open_databases[it]
        /\ mode \in {"tick", "shutdown"}
    BY <1>8 DEF Visiting, TypeOK
  <2>3. call = None
    BY <2>2 DEF PassOK
  <2>4. ASSUME NEW n \in 1..MaxRounds, TickSuspend(d, a, n) PROVE PassOK'
    BY <2>2, <2>3, <2>4 DEF TickSuspend, PassOK
  <2>5. CASE TickWait(d, a) \/ TickStage(d, a)
    BY <2>2, <2>3, <2>5 DEF TickWait, TickStage, PassOK
  <2>6. CASE TickReject(d, a)
    BY <2>1, <2>2, <2>3, <2>6 DEF TickReject, Take, Completed, TypeOK, PassOK
  <2>7. ASSUME NEW result \in {"resolved", "rejected"}, TickFinish(d, a, result)
        PROVE PassOK'
    BY <2>1, <2>2, <2>3, <2>7 DEF TickFinish, Take, Completed, TypeOK, PassOK
  <2>8. CASE TickConnectLost(d, a)
    BY <2>3, <2>8 DEF TickConnectLost, Abort, PassOK
  <2>9. CASE TickClose(d, a) \/ TickFree(d, a) \/ TickOutOfSync(d, a)
    BY <2>2, <2>3, <2>9 DEF TickClose, TickFree, TickOutOfSync, PassOK
  <2> QED
    BY <1>8, <2>4, <2>5, <2>6, <2>7, <2>8, <2>9 DEF RunTick
<1>9. ASSUME NEW d \in Databases, Visiting(d), DeleteDatabase(d) \/ SkipDatabase(d)
      PROVE PassOK'
  BY <1>9 DEF DeleteDatabase, SkipDatabase, Visiting, PassOK
<1>10. CASE CallbackReturn \/ CallbackError
  BY <1>10 DEF CallbackReturn, CallbackError, Abort, PassOK
<1>11. CASE TickHook \/ TickHookEnd \/ ShutdownHook \/ ShutdownRepeat \/ CloseAll
  BY <1>11 DEF TickHook, TickHookEnd, ShutdownHook, ShutdownRepeat, CloseAll,
               PassOver, StartPass, PassOK
<1>12. ASSUME NEW d \in Databases, SocketReady(d) PROVE PassOK'
  BY <1>12 DEF SocketReady, PassOK
<1>13. CASE UNCHANGED vars
  BY <1>13 DEF vars, PassOK
<1> QED
  BY <1>1, <1>2, <1>3, <1>4, <1>5, <1>6, <1>7, <1>8, <1>9, <1>10, <1>11, <1>12, <1>13
  DEF Next, LuaCode, ConnectEnd, Collector, Hooks, TickHookTick, Terminated

(* The state of the event loop is well typed, and a callback or constructor *)
(* runs only where the code can be inside one.                              *)
THEOREM TypeCorrect == Spec => [](TypeOK /\ PassOK)
<1>1. Init => TypeInv
  BY TypeInit
<1>2. TypeInv /\ [Next]_vars => TypeInv'
  BY TypeNext, PassNext DEF TypeInv
<1> QED
  BY <1>1, <1>2, PTL DEF Spec, TypeInv

-----------------------------------------------------------------------------
(* What one step does to the queue of a database                            *)

Kept(d)    == current_action'[d] = current_action[d] /\ queue'[d] = queue[d]
Taken(d)   == Busy(d) /\ current_action'[d] = Active(d) /\ queue'[d] = Rest(d)
Retired(d) == Busy(d) /\ current_action'[d] = None /\ queue'[d] = Rest(d)

Appended(d, a) == current_action'[d] = current_action[d] /\ queue'[d] = Append(queue[d], a)

Called(d) ==
  \E a \in Requests, k \in {"command", "query"} : Submit(d, a, k) /\ Appended(d, a)

Connected(d) == \E a \in Requests : call = d /\ ConnectInsert(a) /\ Appended(d, a)

(* The four things a step may do to a database: leave it alone, take its    *)
(* next action, retire the running one, or queue one more.                  *)
LEMMA QueueStep ==
  ASSUME TypeOK, PassOK, [Next]_vars, NEW d \in Databases
  PROVE  \/ Kept(d) \/ Taken(d) \/ Retired(d) \/ Called(d) \/ Connected(d)
         \/ Finalize(d) /\ Appended(d, d)
<1> USE DEF dbVars, actionVars, netVars, luaVars, hookVars, TypeOK
<1>1. ASSUME NEW e \in Databases, ConnectBegin(e) \/ Drop(e) PROVE Kept(d)
  BY <1>1 DEF ConnectBegin, Drop, Kept
<1>2. ASSUME NEW e \in Databases, NEW a \in Requests,
             NEW k \in {"command", "query"}, Submit(e, a, k)
      PROVE Kept(d) \/ Called(d)
  <2>1. CASE e = d
    BY <1>2, <2>1 DEF Submit, InsertAction, Called, Appended
  <2>2. CASE e # d
    BY <1>2, <2>2 DEF Submit, InsertAction, Kept
  <2> QED
    BY <2>1, <2>2
<1>3. CASE ConnectTypeError \/ ConnectInsertError
  BY <1>3 DEF ConnectTypeError, ConnectInsertError, Kept
<1>4. ASSUME NEW a \in Requests, ConnectInsert(a) PROVE Kept(d) \/ Connected(d)
  <2>1. CASE call = d
    BY <1>4, <2>1 DEF ConnectInsert, InsertAction, Connected, Appended
  <2>2. CASE call # d
    BY <1>4, <2>2 DEF ConnectInsert, InsertAction, Kept
  <2> QED
    BY <2>1, <2>2
<1>5. ASSUME NEW S \in SUBSET Databases, Collect(S) PROVE Kept(d)
  BY <1>5 DEF Collect, Kept
<1>6. ASSUME NEW e \in Databases, Finalize(e)
      PROVE  Kept(d) \/ (Finalize(d) /\ Appended(d, d))
  <2>1. current_action' = current_action
        /\ (queue' = queue \/ queue' = [queue EXCEPT ![e] = Append(queue[e], e)])
    BY <1>6 DEF Finalize
  <2>2. CASE e = d
    BY <1>6, <2>1, <2>2 DEF Kept, Appended
  <2>3. CASE e # d
    BY <2>1, <2>3 DEF Kept
  <2> QED
    BY <2>2, <2>3
<1>7. ASSUME NEW e \in Databases, Busy(e), RunTick(e)
      PROVE  Kept(d) \/ Taken(d) \/ Retired(d)
  <2>1. \/ UNCHANGED <<current_action, queue>>
        \/ Take(e)
        \/ Retire(e)
    BY <1>7 DEF RunTick, TickSuspend, TickWait, TickStage, TickReject, TickFinish,
                TickConnectLost, TickClose, TickFree, TickOutOfSync
  <2>2. CASE e = d
    BY <1>7, <2>1, <2>2 DEF Take, Retire, Kept, Taken, Retired
  <2>3. CASE e # d
    BY <2>1, <2>3 DEF Take, Retire, Kept
  <2> QED
    BY <2>2, <2>3
<1>8. CASE \E e \in Databases : DeleteDatabase(e) \/ SkipDatabase(e) \/ SocketReady(e)
  BY <1>8 DEF DeleteDatabase, SkipDatabase, SocketReady, Kept
<1>9. CASE CallbackReturn
  <2> DEFINE e == open_databases[it]
  <2>1. Retire(e) /\ e \in Databases /\ Busy(e)
    BY <1>9 DEF CallbackReturn, PassOK, Busy
  <2>2. CASE e = d
    BY <2>1, <2>2 DEF Retire, Retired
  <2>3. CASE e # d
    BY <2>1, <2>3 DEF Retire, Kept
  <2> QED
    BY <2>2, <2>3
<1>10. CASE CallbackError
  BY <1>10 DEF CallbackError, Kept
<1>11. CASE TickHook \/ TickHookEnd \/ ShutdownHook \/ ShutdownRepeat \/ CloseAll
  BY <1>11 DEF TickHook, TickHookEnd, ShutdownHook, ShutdownRepeat, CloseAll, Kept
<1>12. CASE UNCHANGED vars
  BY <1>12 DEF vars, Kept
<1> QED
  BY <1>1, <1>2, <1>3, <1>4, <1>5, <1>6, <1>7, <1>8, <1>9, <1>10, <1>11, <1>12
  DEF Next, LuaCode, ConnectEnd, Collector, Hooks, TickHookTick, Terminated

(* What one step does to the other parts of the state                       *)

(* Nothing leaves the state after the ShutDown hook.                        *)
LEMMA DownStays ==
  ASSUME TypeOK, PassOK, [Next]_vars, mode = "down"
  PROVE  mode' = "down"
<1> USE DEF hookVars
<1>1. callback = "none" /\ call = None
  BY DEF PassOK
<1>2. CASE UNCHANGED hookVars
  BY <1>2
<1>3. CASE LuaCode \/ ConnectEnd \/ Collector \/ \E d \in Databases : SocketReady(d)
  BY <1>2, <1>3 DEF LuaCode, ConnectEnd, Collector, ConnectBegin, Drop, Submit,
     ConnectTypeError, ConnectInsert, ConnectInsertError, Collect, Finalize, SocketReady
<1>4. ~ TickHookTick
  BY <1>1 DEF TickHookTick, Visiting, CallbackReturn, CallbackError
<1>5. ~ (TickHook \/ TickHookEnd \/ ShutdownHook \/ ShutdownRepeat \/ CloseAll)
  BY DEF TickHook, TickHookEnd, ShutdownHook, ShutdownRepeat, CloseAll
<1>6. CASE UNCHANGED vars
  BY <1>2, <1>6 DEF vars
<1> QED
  BY <1>3, <1>4, <1>5, <1>6 DEF Next, Hooks, Terminated

(* Only Lua code and the end of mysql.connect queue requests.               *)
LEMMA KindStep ==
  ASSUME TypeOK, [Next]_vars, NEW r \in Requests, kind[r] = "connect"
  PROVE  kind'[r] = "connect"
<1> USE DEF actionVars, TypeOK
<1>1. ASSUME NEW d \in Databases, NEW a \in Requests,
             NEW k \in {"command", "query"}, Submit(d, a, k)
      PROVE kind'[r] = "connect"
  BY <1>1 DEF Submit
<1>2. ASSUME NEW a \in Requests, ConnectInsert(a) PROVE kind'[r] = "connect"
  BY <1>2 DEF ConnectInsert
<1>3. CASE UNCHANGED kind
  BY <1>3
<1>4. CASE \/ \E d \in Databases : ConnectBegin(d) \/ Drop(d) \/ SocketReady(d)
           \/ ConnectTypeError \/ ConnectInsertError \/ Collector
  BY <1>3, <1>4 DEF ConnectBegin, Drop, SocketReady, ConnectTypeError,
     ConnectInsertError, Collector, Collect, Finalize
<1>5. CASE \E d \in Databases : RunTick(d)
  BY <1>3, <1>5 DEF RunTick, TickSuspend, TickWait, TickStage, TickReject, TickFinish,
     TickConnectLost, TickClose, TickFree, TickOutOfSync
<1>6. CASE \/ \E d \in Databases : DeleteDatabase(d) \/ SkipDatabase(d)
           \/ CallbackReturn \/ CallbackError
           \/ TickHook \/ TickHookEnd \/ ShutdownHook \/ ShutdownRepeat \/ CloseAll
  BY <1>3, <1>6 DEF DeleteDatabase, SkipDatabase, CallbackReturn, CallbackError,
     TickHook, TickHookEnd, ShutdownHook, ShutdownRepeat, CloseAll
<1>7. CASE UNCHANGED vars
  BY <1>7 DEF vars
<1> QED
  BY <1>1, <1>2, <1>4, <1>5, <1>6, <1>7
  DEF Next, LuaCode, ConnectEnd, Hooks, TickHookTick, Terminated

(* The life of a userdata: created, then collected, then finalized.         *)
LEMMA UserdataStep ==
  ASSUME TypeOK, [Next]_vars, NEW d \in Databases
  PROVE  \/ userdata'[d] = userdata[d]
         \/ userdata[d] = "none" /\ ConnectBegin(d)
         \/ userdata[d] = "live" /\ userdata'[d] = "cleared"
            /\ d \notin held \cup queue_reference
            /\ UNCHANGED <<held, queue_reference>>
         \/ userdata[d] \in {"live", "cleared"} /\ userdata'[d] = "finalized" /\ Finalize(d)
<1> USE DEF dbVars, actionVars, netVars, luaVars, hookVars, TypeOK
<1>1. ASSUME NEW e \in Databases, ConnectBegin(e)
      PROVE  \/ userdata'[d] = userdata[d]
             \/ userdata[d] = "none" /\ ConnectBegin(d)
  BY <1>1 DEF ConnectBegin
<1>2. ASSUME NEW S \in SUBSET Databases, Collect(S)
      PROVE  \/ userdata'[d] = userdata[d]
             \/ /\ userdata[d] = "live" /\ userdata'[d] = "cleared"
                /\ d \notin held \cup queue_reference
                /\ UNCHANGED <<held, queue_reference>>
  BY <1>2 DEF Collect
<1>3. ASSUME NEW e \in Databases, Finalize(e)
      PROVE  \/ userdata'[d] = userdata[d]
             \/ /\ userdata[d] \in {"live", "cleared"} /\ userdata'[d] = "finalized"
                /\ Finalize(d)
  BY <1>3 DEF Finalize
<1>4. CASE UNCHANGED userdata
  BY <1>4
<1>5. CASE \/ \E e \in Databases : Drop(e) \/ SocketReady(e)
           \/ \E e \in Databases, a \in Requests, k \in {"command", "query"} : Submit(e, a, k)
           \/ ConnectEnd
  BY <1>4, <1>5 DEF Drop, SocketReady, Submit, ConnectEnd, ConnectTypeError,
     ConnectInsert, ConnectInsertError
<1>6. CASE \E e \in Databases : RunTick(e)
  BY <1>4, <1>6 DEF RunTick, TickSuspend, TickWait, TickStage, TickReject, TickFinish,
     TickConnectLost, TickClose, TickFree, TickOutOfSync
<1>7. CASE \/ \E e \in Databases : DeleteDatabase(e) \/ SkipDatabase(e)
           \/ CallbackReturn \/ CallbackError
           \/ TickHook \/ TickHookEnd \/ ShutdownHook \/ ShutdownRepeat \/ CloseAll
  BY <1>4, <1>7 DEF DeleteDatabase, SkipDatabase, CallbackReturn, CallbackError,
     TickHook, TickHookEnd, ShutdownHook, ShutdownRepeat, CloseAll
<1>8. CASE UNCHANGED vars
  BY <1>8 DEF vars
<1> QED
  BY <1>1, <1>2, <1>3, <1>5, <1>6, <1>7, <1>8
  DEF Next, LuaCode, Collector, Hooks, TickHookTick, Terminated

(* A userdata becomes reachable only by the connect that hands it over.     *)
LEMMA HeldStep ==
  ASSUME TypeOK, [Next]_vars, NEW d \in held'
  PROVE  d \in held \/ (d \in Databases /\ userdata[d] = "live" /\ UNCHANGED userdata)
<1> USE DEF dbVars, actionVars, netVars, luaVars, hookVars, TypeOK
<1>1. CASE UNCHANGED held
  BY <1>1
<1>2. CASE LuaCode \/ ConnectEnd \/ Collector \/ \E e \in Databases : SocketReady(e)
  BY <1>2 DEF LuaCode, ConnectBegin, Drop, Submit, SocketReady, ConnectEnd,
     ConnectTypeError, ConnectInsert, ConnectInsertError, Collector, Collect, Finalize
<1>3. ASSUME NEW e \in Databases, NEW a, NEW result, TickFinish(e, a, result)
      PROVE  d \in held \/ (d \in Databases /\ userdata[d] = "live" /\ UNCHANGED userdata)
  BY <1>3 DEF TickFinish
<1>4. ASSUME NEW e \in Databases, RunTick(e)
      PROVE  \/ UNCHANGED held
             \/ \E a, result : TickFinish(e, a, result)
  BY <1>4 DEF RunTick, TickSuspend, TickWait, TickStage, TickReject,
     TickConnectLost, TickClose, TickFree, TickOutOfSync
<1>5. CASE \/ \E e \in Databases : DeleteDatabase(e) \/ SkipDatabase(e)
           \/ CallbackReturn \/ CallbackError
           \/ TickHook \/ TickHookEnd \/ ShutdownHook \/ ShutdownRepeat \/ CloseAll
  BY <1>1, <1>5 DEF DeleteDatabase, SkipDatabase, CallbackReturn, CallbackError,
     TickHook, TickHookEnd, ShutdownHook, ShutdownRepeat, CloseAll
<1>6. CASE UNCHANGED vars
  BY <1>6 DEF vars
<1> QED
  BY <1>1, <1>2, <1>3, <1>4, <1>5, <1>6 DEF Next, Hooks, TickHookTick, Terminated

(* Only __gc marks a database as collected.                                 *)
LEMMA GcedStep ==
  ASSUME TypeOK, [Next]_vars
  PROVE  \/ gced' = gced
         \/ \E d \in Databases : Finalize(d) /\ gced' = gced \cup {d} /\ ~ HasCleanedUpAlready
<1> USE DEF dbVars, actionVars, netVars, luaVars, hookVars
<1>1. CASE gced' = gced
  BY <1>1
<1>2. ASSUME NEW d \in Databases, Finalize(d)
      PROVE  gced' = gced \/ (gced' = gced \cup {d} /\ ~ HasCleanedUpAlready)
  <2>1. CASE HasCleanedUpAlready
    BY <1>2, <2>1 DEF Finalize
  <2>2. CASE ~ HasCleanedUpAlready
    BY <1>2, <2>2 DEF Finalize
  <2> QED
    BY <2>1, <2>2
<1>3. CASE \/ LuaCode \/ ConnectEnd \/ \E d \in Databases : SocketReady(d)
           \/ \E S \in SUBSET Databases : Collect(S)
  BY <1>1, <1>3 DEF LuaCode, ConnectBegin, Drop, Submit, ConnectEnd, ConnectTypeError,
     ConnectInsert, ConnectInsertError, SocketReady, Collect
<1>4. CASE \E d \in Databases : RunTick(d)
  BY <1>1, <1>4 DEF RunTick, TickSuspend, TickWait, TickStage, TickReject, TickFinish,
     TickConnectLost, TickClose, TickFree, TickOutOfSync
<1>5. CASE \/ \E d \in Databases : DeleteDatabase(d) \/ SkipDatabase(d)
           \/ CallbackReturn \/ CallbackError
           \/ TickHook \/ TickHookEnd \/ ShutdownHook \/ ShutdownRepeat \/ CloseAll
  BY <1>1, <1>5 DEF DeleteDatabase, SkipDatabase, CallbackReturn, CallbackError,
     TickHook, TickHookEnd, ShutdownHook, ShutdownRepeat, CloseAll
<1>6. CASE UNCHANGED vars
  BY <1>6 DEF vars
<1> QED
  BY <1>2, <1>3, <1>4, <1>5, <1>6 DEF Next, Collector, Hooks, TickHookTick, Terminated

(* A pin is dropped only by the tick that empties the queue.                *)
LEMMA PinStep ==
  ASSUME TypeOK, PassOK, [Next]_vars, NEW d \in queue_reference
  PROVE  \/ d \in queue_reference'
         \/ current_action'[d] = None /\ queue'[d] = <<>>
<1> USE DEF dbVars, actionVars, netVars, luaVars, hookVars, TypeOK
<1>1. CASE queue_reference \subseteq queue_reference'
  BY <1>1
<1>2. ASSUME NEW e \in Databases, Retire(e)
      PROVE  d \in queue_reference' \/ (current_action'[d] = None /\ queue'[d] = <<>>)
  BY <1>2 DEF Retire, Unpinned
<1>3. CASE LuaCode \/ ConnectEnd \/ Collector \/ \E e \in Databases : SocketReady(e)
  BY <1>1, <1>3 DEF LuaCode, ConnectBegin, Drop, Submit, ConnectEnd, ConnectTypeError,
     ConnectInsert, ConnectInsertError, InsertAction, Pin, SocketReady, Collector,
     Collect, Finalize
<1>4. ASSUME NEW e \in Databases, RunTick(e)
      PROVE  UNCHANGED queue_reference \/ Retire(e)
  BY <1>4 DEF RunTick, TickSuspend, TickWait, TickStage, TickReject, TickFinish,
     TickConnectLost, TickClose, TickFree, TickOutOfSync
<1>5. CASE CallbackReturn
  BY <1>2, <1>5 DEF CallbackReturn, PassOK
<1>6. CASE \/ \E e \in Databases : DeleteDatabase(e) \/ SkipDatabase(e)
           \/ CallbackError
           \/ TickHook \/ TickHookEnd \/ ShutdownHook \/ ShutdownRepeat \/ CloseAll
  BY <1>1, <1>6 DEF DeleteDatabase, SkipDatabase, CallbackError,
     TickHook, TickHookEnd, ShutdownHook, ShutdownRepeat, CloseAll
<1>7. CASE UNCHANGED vars
  BY <1>7 DEF vars
<1> QED
  BY <1>1, <1>2, <1>3, <1>4, <1>5, <1>6, <1>7 DEF Next, Hooks, TickHookTick, Terminated

-----------------------------------------------------------------------------
(* The invariants of a database's lifetime                                  *)

(* What Lua code can reach is not collected.                                *)
LEMMA ReachableNext ==
  ASSUME TypeOK, LifetimeOK, [Next]_vars
  PROVE  ReachableIsLive'
<1> SUFFICES ASSUME mode' # "down", NEW d \in held' PROVE userdata'[d] = "live"
  BY DEF ReachableIsLive
<1>1. PassOK /\ ReachableIsLive
  BY DEF LifetimeOK
<1>2. mode # "down"
  BY <1>1, DownStays
<1>3. CASE userdata[d] = "live" /\ UNCHANGED userdata
  BY <1>3
<1>4. CASE d \in held
  <2>1. d \in Databases /\ userdata[d] = "live"
    BY <1>1, <1>2, <1>4 DEF TypeOK, ReachableIsLive
  <2>2. ~ Finalize(d)
    BY <1>2, <2>1 DEF Finalize
  <2> QED
    BY <1>4, <2>1, <2>2, UserdataStep
<1> QED
  BY <1>3, <1>4, HeldStep

(* gced is set by the finalizer and by nothing else.                        *)
LEMMA GcedNext ==
  ASSUME TypeOK, LifetimeOK, [Next]_vars
  PROVE  GcedIsFinalized'
<1> SUFFICES ASSUME NEW d \in gced' PROVE userdata'[d] = "finalized"
  BY DEF GcedIsFinalized
<1>1. CASE d \in gced
  <2>1. d \in Databases /\ userdata[d] = "finalized"
    BY <1>1 DEF LifetimeOK, GcedIsFinalized, TypeOK
  <2> QED
    BY <2>1, UserdataStep
<1>2. CASE d \notin gced
  <2>1. d \in Databases /\ Finalize(d)
    BY <1>2, GcedStep
  <2> QED
    BY <2>1 DEF Finalize, TypeOK
<1> QED
  BY <1>1, <1>2

(* Nothing is queued behind the CloseAction of __gc.                        *)
LEMMA CloseEndsQueueNext ==
  ASSUME TypeOK, LifetimeOK, [Next]_vars
  PROVE  CloseEndsQueue'
<1> USE ConstantsAssumption DEF ConstantsAssumption, Actions
<1> SUFFICES ASSUME NEW d \in Databases
             PROVE  /\ current_action'[d] = d => d \in gced' /\ queue'[d] = <<>>
                    /\ \A i \in 1..Len(queue'[d]) :
                         queue'[d][i] = d => d \in gced' /\ i = Len(queue'[d])
  BY DEF CloseEndsQueue
<1>1. /\ current_action[d] = d => d \in gced /\ queue[d] = <<>>
      /\ \A i \in 1..Len(queue[d]) : queue[d][i] = d => d \in gced /\ i = Len(queue[d])
  BY DEF LifetimeOK, CloseEndsQueue
<1>2. gced \subseteq gced'
  BY GcedStep
<1>3. queue[d] \in Seq(Actions) /\ queue'[d] \in Seq(Actions)
  BY TypeNext DEF TypeOK, LifetimeOK
<1>4. CASE Kept(d)
  BY <1>1, <1>2, <1>4 DEF Kept
<1>5. CASE Busy(d) /\ queue'[d] = Rest(d)
           /\ current_action'[d] \in {Active(d), None}
  <2>1. CASE current_action[d] # None
    BY <1>1, <1>2, <1>5, <2>1 DEF Active, Rest
  <2>2. CASE current_action[d] = None
    <3>1. queue[d] # <<>> /\ queue'[d] = Tail(queue[d])
          /\ current_action'[d] \in {Head(queue[d]), None}
      BY <1>5, <2>2 DEF Active, Rest, Busy
    <3>2. ASSUME current_action'[d] = d PROVE d \in gced /\ queue'[d] = <<>>
      <4>1. queue[d][1] = d /\ 1 \in 1..Len(queue[d])
        BY <1>3, <3>1, <3>2
      <4>2. d \in gced /\ Len(queue[d]) = 1
        BY <1>1, <4>1
      <4>3. queue'[d] \in Seq(Actions) /\ Len(queue'[d]) = 0
        BY <1>3, <3>1, <4>2, HeadTailProperties
      <4> QED
        BY <4>2, <4>3, EmptySeq
    <3>3. ASSUME NEW i \in 1..Len(queue'[d]), queue'[d][i] = d
          PROVE  d \in gced /\ i = Len(queue'[d])
      <4>1. i + 1 \in 1..Len(queue[d]) /\ queue[d][i + 1] = d
            /\ Len(queue'[d]) = Len(queue[d]) - 1
        BY <1>3, <3>1, <3>3
      <4>2. d \in gced /\ i + 1 = Len(queue[d])
        BY <1>1, <4>1
      <4> QED
        BY <1>3, <4>1, <4>2
    <3> QED
      BY <1>2, <3>2, <3>3
  <2> QED
    BY <2>1, <2>2
<1>6. CASE Called(d) \/ Connected(d)
  <2>1. PICK a \in Requests : Appended(d, a)
    BY <1>6 DEF Called, Connected
  <2>2. userdata[d] # "finalized"
    <3>1. CASE Called(d)
      <4>1. d \in held /\ mode # "down"
        BY <3>1 DEF Called, Submit, LuaRuns, LifetimeOK, PassOK
      <4> QED
        BY <4>1 DEF LifetimeOK, ReachableIsLive
    <3>2. CASE Connected(d)
      BY <3>2 DEF Connected, ConnectInsert
    <3> QED
      BY <1>6, <3>1, <3>2
  <2>3. d \notin gced
    BY <2>2 DEF LifetimeOK, GcedIsFinalized
  <2>4. a # d /\ a \in Actions
    OBVIOUS
  <2>5. current_action'[d] # d
    BY <1>1, <2>1, <2>3 DEF Appended
  <2>6. \A i \in 1..Len(queue'[d]) : queue'[d][i] # d
    <3>1. \A i \in 1..Len(queue[d]) : queue[d][i] # d
      BY <1>1, <2>3
    <3> QED
      BY <1>3, <2>1, <2>4, <3>1, AppendProperties DEF Appended
  <2> QED
    BY <2>5, <2>6
<1>7. CASE Finalize(d) /\ Appended(d, d)
  <2>1. userdata[d] # "finalized"
    BY <1>7 DEF Finalize
  <2>2. d \notin gced
    BY <2>1 DEF LifetimeOK, GcedIsFinalized
  <2>3. d \in gced'
    <3>1. queue'[d] # queue[d]
      BY <1>3, <1>7, AppendProperties DEF Appended
    <3> QED
      BY <1>7, <3>1 DEF Finalize
  <2>4. current_action'[d] # d
    BY <1>1, <1>7, <2>2 DEF Appended
  <2>5. \A i \in 1..Len(queue[d]) : queue[d][i] # d
    BY <1>1, <2>2
  <2>6. \A i \in 1..Len(queue'[d]) : queue'[d][i] = d => i = Len(queue'[d])
    BY <1>3, <1>7, <2>5, AppendProperties DEF Appended
  <2> QED
    BY <2>3, <2>4, <2>6
<1> QED
  <2>1. PassOK
    BY DEF LifetimeOK
  <2>2. CASE Taken(d) \/ Retired(d)
    BY <1>5, <2>2 DEF Taken, Retired
  <2> QED
    BY <1>4, <1>6, <1>7, <2>1, <2>2, QueueStep

(* What an action waits or runs in a database was there before, unless the  *)
(* step itself queued it.                                                   *)
LEMMA InQueueStep ==
  ASSUME TypeOK, PassOK, [Next]_vars, NEW d \in Databases, NEW r \in Requests,
         InQueue(d, r)'
  PROVE  InQueue(d, r) \/ Called(d) \/ (Connected(d) /\ kind'[r] = "connect")
<1> USE ConstantsAssumption DEF ConstantsAssumption, Actions
<1>1. queue[d] \in Seq(Actions)
  BY DEF TypeOK
<1>2. current_action'[d] = r \/ \E i \in 1..Len(queue'[d]) : queue'[d][i] = r
  BY DEF InQueue
<1>3. CASE Kept(d)
  BY <1>2, <1>3 DEF Kept, InQueue
<1>4. CASE Taken(d) \/ Retired(d)
  <2>1. queue'[d] = Rest(d) /\ current_action'[d] \in {Active(d), None} /\ Busy(d)
    BY <1>4 DEF Taken, Retired
  <2>2. CASE current_action[d] # None
    BY <1>2, <2>1, <2>2 DEF Active, Rest, InQueue
  <2>3. CASE current_action[d] = None
    <3>1. queue[d] # <<>> /\ queue'[d] = Tail(queue[d])
          /\ current_action'[d] \in {Head(queue[d]), None}
      BY <2>1, <2>3 DEF Active, Rest, Busy
    <3>2. CASE current_action'[d] = r
      <4>1. queue[d][1] = r /\ 1 \in 1..Len(queue[d])
        BY <1>1, <3>1, <3>2
      <4> QED
        BY <4>1 DEF InQueue
    <3>3. ASSUME NEW i \in 1..Len(queue'[d]), queue'[d][i] = r
          PROVE  InQueue(d, r)
      <4>1. i + 1 \in 1..Len(queue[d]) /\ queue[d][i + 1] = r
        BY <1>1, <3>1, <3>3, HeadTailProperties
      <4> QED
        BY <4>1 DEF InQueue
    <3> QED
      BY <1>2, <3>2, <3>3
  <2> QED
    BY <2>2, <2>3
<1>5. ASSUME NEW a \in Actions, Appended(d, a)
      PROVE  InQueue(d, r) \/ r = a
  <2>1. /\ Len(queue'[d]) = Len(queue[d]) + 1
        /\ \A i \in 1..Len(queue[d]) : queue'[d][i] = queue[d][i]
        /\ queue'[d][Len(queue[d]) + 1] = a
    BY <1>1, <1>5, AppendProperties DEF Appended
  <2>2. Len(queue[d]) \in Nat
    BY <1>1
  <2>3. CASE current_action'[d] = r
    BY <1>5, <2>3 DEF Appended, InQueue
  <2>4. ASSUME NEW i \in 1..Len(queue'[d]), queue'[d][i] = r
        PROVE  InQueue(d, r) \/ r = a
    BY <2>1, <2>2, <2>4 DEF InQueue
  <2> QED
    BY <1>2, <2>3, <2>4
<1>6. CASE Connected(d)
  <2>1. PICK a \in Requests : ConnectInsert(a) /\ Appended(d, a)
    BY <1>6 DEF Connected
  <2>2. kind'[a] = "connect"
    BY <2>1 DEF ConnectInsert, TypeOK
  <2> QED
    BY <1>5, <1>6, <2>1, <2>2
<1>7. CASE Appended(d, d)
  BY <1>5, <1>7
<1> QED
  BY <1>3, <1>4, <1>6, <1>7, QueueStep

(* The pin of InsertAction outlives every request it was taken for.         *)
LEMMA PinsHoldNext ==
  ASSUME TypeOK, LifetimeOK, [Next]_vars
  PROVE  PinsHold'
<1> SUFFICES ASSUME mode' # "down", NEW d \in Databases, NEW r \in Requests,
                    InQueue(d, r)', kind'[r] # "connect"
             PROVE  d \in queue_reference' /\ userdata'[d] = "live"
  BY DEF PinsHold
<1>1. PassOK /\ mode # "down"
  BY DownStays DEF LifetimeOK
<1>2. CASE Called(d)
  <2>1. d \in held /\ queue_reference' = Pin(d) /\ UNCHANGED userdata
    BY <1>2 DEF Called, Submit, InsertAction, luaVars
  <2>2. userdata[d] = "live"
    BY <1>1, <2>1 DEF LifetimeOK, ReachableIsLive
  <2> QED
    BY <2>1, <2>2 DEF Pin
<1>3. CASE InQueue(d, r)
  <2>1. kind[r] # "connect"
    BY KindStep
  <2>2. d \in queue_reference /\ userdata[d] = "live"
    BY <1>1, <1>3, <2>1 DEF LifetimeOK, PinsHold
  <2>3. ~ (current_action'[d] = None /\ queue'[d] = <<>>)
    BY ConstantsAssumption, EmptySeq DEF InQueue, ConstantsAssumption, Actions
  <2>4. d \in queue_reference'
    BY <1>1, <2>2, <2>3, PinStep
  <2>5. ~ Finalize(d)
    BY <1>1, <2>2 DEF Finalize
  <2> QED
    BY <2>2, <2>4, <2>5, UserdataStep
<1> QED
  BY <1>1, <1>2, <1>3, InQueueStep

(* Erasing one element of the deque leaves the others in it.                *)
LEMMA RemoveAtKeeps ==
  ASSUME NEW S, NEW s \in Seq(S), NEW i \in 1..Len(s), NEW e \in ToSet(s), e # s[i]
  PROVE  e \in ToSet(RemoveAt(s, i))
<1> DEFINE front == SubSeq(s, 1, i - 1)
           back  == SubSeq(s, i + 1, Len(s))
<1>0. Len(s) \in Nat
  BY LenProperties
<1>1. PICK j \in 1..Len(s) : s[j] = e
  BY DEF ToSet
<1>2. j # i
  BY <1>1
<1>3. front \in Seq(S) /\ Len(front) = i - 1 /\ \A k \in 1..(i - 1) : front[k] = s[k]
  BY SubSeqProperties
<1>4. back \in Seq(S) /\ Len(back) = Len(s) - i
      /\ \A k \in 1..(Len(s) - i) : back[k] = s[i + k]
  BY SubSeqProperties
<1> HIDE DEF front, back
<1>5. /\ front \o back \in Seq(S)
      /\ Len(front \o back) = Len(s) - 1
      /\ \A k \in 1..(Len(s) - 1) :
           (front \o back)[k] = IF k <= i - 1 THEN front[k] ELSE back[k - (i - 1)]
  <2>1. Len(front) + Len(back) = Len(s) - 1
    BY <1>0, <1>3, <1>4
  <2>2. /\ front \o back \in Seq(S)
        /\ Len(front \o back) = Len(front) + Len(back)
        /\ \A k \in 1..(Len(front) + Len(back)) :
             (front \o back)[k] = IF k <= Len(front) THEN front[k] ELSE back[k - Len(front)]
    BY <1>3, <1>4, ConcatProperties
  <2> QED
    BY <1>3, <2>1, <2>2
<1>6. \E k \in 1..(Len(s) - 1) : (front \o back)[k] = e
  <2>1. CASE j < i
    <3>1. j \in 1..(Len(s) - 1) /\ (front \o back)[j] = front[j] /\ front[j] = s[j]
      BY <1>3, <1>5, <2>1
    <3> QED
      BY <1>1, <3>1
  <2>2. CASE j > i
    <3>1. /\ j - 1 \in 1..(Len(s) - 1) /\ j - i \in 1..(Len(s) - i)
          /\ ~ (j - 1 <= i - 1) /\ (j - 1) - (i - 1) = j - i /\ i + (j - i) = j
      BY <1>0, <2>2
    <3>2. (front \o back)[j - 1] = back[j - i] /\ back[j - i] = s[j]
      BY <1>4, <1>5, <3>1
    <3> QED
      BY <1>1, <3>1, <3>2
  <2>3. j < i \/ j > i
    BY <1>0, <1>2
  <2> QED
    BY <2>1, <2>2, <2>3
<1> QED
  BY <1>5, <1>6, LenProperties DEF ToSet, RemoveAt, front, back

(* A database leaves the deque when it was collected, or with the ShutDown  *)
(* hook, which disarms the finalizers.                                      *)
LEMMA OpenStep ==
  ASSUME TypeOK, PassOK, [Next]_vars, NEW d \in ToSet(open_databases)
  PROVE  d \in ToSet(open_databases') \/ d \in gced \/ HasCleanedUpAlready'
<1> USE DEF dbVars, actionVars, netVars, luaVars, hookVars
<1>1. CASE UNCHANGED open_databases
  BY <1>1
<1>2. ASSUME NEW e \in Databases, ConnectBegin(e) PROVE d \in ToSet(open_databases')
  <2>1. open_databases \in Seq(Databases) /\ open_databases' = Append(open_databases, e)
    BY <1>2 DEF ConnectBegin, TypeOK
  <2>2. PICK i \in 1..Len(open_databases) : open_databases[i] = d
    BY <2>1, LenProperties DEF ToSet
  <2>3. i \in DOMAIN open_databases' /\ open_databases'[i] = d
    BY <2>1, <2>2, AppendProperties
  <2> QED
    BY <2>3 DEF ToSet
<1>3. CASE \/ \E e \in Databases : Drop(e) \/ Finalize(e) \/ SocketReady(e)
           \/ \E e \in Databases, a \in Requests, k \in {"command", "query"} : Submit(e, a, k)
           \/ \E S \in SUBSET Databases : Collect(S)
           \/ ConnectEnd
  BY <1>1, <1>3 DEF Drop, Finalize, SocketReady, Submit, Collect, ConnectEnd,
     ConnectTypeError, ConnectInsert, ConnectInsertError
<1>4. CASE \E e \in Databases : RunTick(e)
  BY <1>1, <1>4 DEF RunTick, TickSuspend, TickWait, TickStage, TickReject, TickFinish,
     TickConnectLost, TickClose, TickFree, TickOutOfSync
<1>5. ASSUME NEW e \in Databases, Visiting(e), DeleteDatabase(e)
      PROVE  d \in ToSet(open_databases') \/ d \in gced
  <2>1. /\ open_databases \in Seq(Databases) /\ it \in 1..Len(open_databases)
        /\ e = open_databases[it] /\ e \in gced
        /\ open_databases' = RemoveAt(open_databases, it)
    BY <1>5 DEF Visiting, DeleteDatabase, TypeOK
  <2> QED
    BY <2>1, RemoveAtKeeps
<1>6. CASE \/ \E e \in Databases : SkipDatabase(e)
           \/ CallbackReturn \/ CallbackError
           \/ TickHook \/ TickHookEnd \/ ShutdownHook \/ ShutdownRepeat
  BY <1>1, <1>6 DEF SkipDatabase, CallbackReturn, CallbackError,
     TickHook, TickHookEnd, ShutdownHook, ShutdownRepeat
<1>7. CASE CloseAll
  <2>1. open_databases # <<>>
    BY DEF ToSet
  <2> QED
    BY <1>7, <2>1 DEF CloseAll
<1>8. CASE UNCHANGED vars
  BY <1>1, <1>8 DEF vars
<1> QED
  BY <1>2, <1>3, <1>4, <1>5, <1>6, <1>7, <1>8
  DEF Next, LuaCode, Collector, Hooks, TickHookTick, Terminated

(* The finalizers are disarmed for good.                                    *)
LEMMA CleanedUpStays ==
  ASSUME [Next]_vars, HasCleanedUpAlready
  PROVE  HasCleanedUpAlready'
<1> USE DEF dbVars, actionVars, netVars, luaVars, hookVars
<1>1. CASE UNCHANGED HasCleanedUpAlready
  BY <1>1
<1>2. CASE LuaCode \/ ConnectEnd \/ Collector \/ \E d \in Databases : SocketReady(d)
  BY <1>1, <1>2 DEF LuaCode, ConnectBegin, Drop, Submit, ConnectEnd, ConnectTypeError,
     ConnectInsert, ConnectInsertError, Collector, Collect, Finalize, SocketReady
<1>3. CASE \E d \in Databases : RunTick(d)
  BY <1>1, <1>3, ZenonT(60) DEF RunTick, TickSuspend, TickWait, TickStage, TickReject, TickFinish,
     TickConnectLost, TickClose, TickFree, TickOutOfSync, Advance, Abort
<1>4. CASE \/ \E d \in Databases : DeleteDatabase(d) \/ SkipDatabase(d)
           \/ CallbackReturn \/ CallbackError
           \/ TickHook \/ TickHookEnd \/ ShutdownHook \/ ShutdownRepeat
  BY <1>1, <1>4 DEF DeleteDatabase, SkipDatabase, CallbackReturn, CallbackError, Advance,
     Abort, TickHook, TickHookEnd, ShutdownHook, ShutdownRepeat
<1>5. CASE CloseAll
  BY <1>5 DEF CloseAll
<1>6. CASE UNCHANGED vars
  BY <1>6 DEF vars
<1> QED
  BY <1>2, <1>3, <1>4, <1>5, <1>6 DEF Next, Hooks, TickHookTick, Terminated

(* A database with a live finalizer stays in the deque, or the finalizers   *)
(* are disarmed.                                                            *)
LEMMA NoDanglingNext ==
  ASSUME TypeOK, LifetimeOK, [Next]_vars
  PROVE  NoDanglingFinalizer'
<1> SUFFICES ASSUME NEW d \in Databases, userdata'[d] \in {"live", "cleared"},
                    d \notin ToSet(open_databases')
             PROVE  HasCleanedUpAlready'
  BY DEF NoDanglingFinalizer
<1>1. PassOK
  BY DEF LifetimeOK
<1>2. ~ ConnectBegin(d)
  <2> SUFFICES ASSUME ConnectBegin(d) PROVE FALSE
    OBVIOUS
  <2>1. open_databases \in Seq(Databases) /\ open_databases' = Append(open_databases, d)
    BY DEF ConnectBegin, TypeOK
  <2>2. Len(open_databases') \in DOMAIN open_databases'
        /\ open_databases'[Len(open_databases')] = d
    BY <2>1, AppendProperties
  <2> QED
    BY <2>2 DEF ToSet
<1>3. userdata[d] \in {"live", "cleared"}
  BY <1>2, UserdataStep
<1>4. d \notin gced
  BY <1>3 DEF LifetimeOK, GcedIsFinalized
<1>5. CASE d \in ToSet(open_databases)
  BY <1>1, <1>4, <1>5, OpenStep
<1>6. CASE d \notin ToSet(open_databases)
  <2>1. HasCleanedUpAlready
    BY <1>3, <1>6 DEF LifetimeOK, NoDanglingFinalizer
  <2> QED
    BY <2>1, CleanedUpStays
<1> QED
  BY <1>5, <1>6

-----------------------------------------------------------------------------
(* The theorems                                                             *)

(* Before the first mysql.connect the lifetime invariant holds.             *)
LEMMA LifetimeInit == Init => LifetimeOK
<1> SUFFICES ASSUME Init PROVE LifetimeOK
  OBVIOUS
<1>1. PassOK
  BY DEF Init, PassOK
<1>2. ReachableIsLive /\ GcedIsFinalized /\ NoDanglingFinalizer
  BY DEF Init, ReachableIsLive, GcedIsFinalized, NoDanglingFinalizer
<1>3. CloseEndsQueue /\ PinsHold
  BY ConstantsAssumption, EmptySeq
  DEF Init, CloseEndsQueue, PinsHold, InQueue, ConstantsAssumption, Actions
<1> QED
  BY <1>1, <1>2, <1>3 DEF LifetimeOK

(* The inductive invariant behind the three theorems below.                 *)
THEOREM LifetimeCorrect == Spec => [](TypeOK /\ LifetimeOK)
<1>1. Init => TypeOK /\ LifetimeOK
  BY TypeInit, LifetimeInit DEF TypeInv
<1>2. TypeOK /\ LifetimeOK /\ [Next]_vars => (TypeOK /\ LifetimeOK)'
  <2> SUFFICES ASSUME TypeOK, LifetimeOK, [Next]_vars PROVE (TypeOK /\ LifetimeOK)'
    OBVIOUS
  <2>1. PassOK
    BY DEF LifetimeOK
  <2>2. TypeOK' /\ PassOK'
    BY <2>1, TypeNext, PassNext
  <2> QED
    BY <2>2, ReachableNext, GcedNext, CloseEndsQueueNext, PinsHoldNext, NoDanglingNext
    DEF LifetimeOK
<1> QED
  BY <1>1, <1>2, PTL DEF Spec

(* The position of an element of Pending.                                   *)
LEMMA PendingElements ==
  ASSUME TypeOK, NEW d \in Databases
  PROVE  /\ Pending(d) \in Seq(Actions \cup {None})
         /\ Len(Pending(d)) = IF current_action[d] = None THEN Len(queue[d])
                              ELSE Len(queue[d]) + 1
         /\ \A i \in 1..Len(Pending(d)) :
              Pending(d)[i] = IF current_action[d] = None THEN queue[d][i]
                              ELSE IF i = 1 THEN current_action[d] ELSE queue[d][i - 1]
<1>1. queue[d] \in Seq(Actions \cup {None}) /\ current_action[d] \in Actions \cup {None}
  BY DEF TypeOK
<1>2. CASE current_action[d] = None
  BY <1>1, <1>2 DEF Pending
<1>3. CASE current_action[d] # None
  <2>1. <<current_action[d]>> \in Seq(Actions \cup {None}) /\ Len(<<current_action[d]>>) = 1
        /\ <<current_action[d]>>[1] = current_action[d]
    BY <1>1
  <2>2. Pending(d) = <<current_action[d]>> \o queue[d]
    BY <1>3 DEF Pending
  <2>3. Len(queue[d]) \in Nat
    BY <1>1
  <2> QED
    BY <1>1, <1>3, <2>1, <2>2, <2>3, ConcatProperties
<1> QED
  BY <1>2, <1>3

(* A database with a request of a Lua caller in it cannot be collected.     *)
THEOREM Pinned == Spec => []PinnedWhilePending
<1>1. TypeOK /\ LifetimeOK => PinnedWhilePending
  <2> SUFFICES ASSUME TypeOK, LifetimeOK, mode # "down", NEW d \in Databases,
                      NEW r \in Owed(d), kind[r] # "connect"
               PROVE  d \in queue_reference /\ userdata[d] = "live"
    BY DEF PinnedWhilePending
  <2>1. PICK i \in 1..Len(Pending(d)) : Pending(d)[i] = r
    BY PendingElements, LenProperties DEF Owed, ToSet
  <2>2. queue[d] \in Seq(Actions) /\ current_action[d] \in Actions \cup {None}
        /\ Len(queue[d]) \in Nat
    BY DEF TypeOK
  <2>3. InQueue(d, r) /\ r \in Actions
    <3>1. CASE current_action[d] = None
      <4>1. i \in 1..Len(queue[d]) /\ queue[d][i] = r
        BY <2>1, <3>1, PendingElements
      <4> QED
        BY <2>2, <4>1, ElementOfSeq DEF InQueue
    <3>2. CASE current_action[d] # None /\ i = 1
      BY <2>1, <2>2, <3>2, PendingElements DEF InQueue
    <3>3. CASE current_action[d] # None /\ i # 1
      <4>1. i - 1 \in 1..Len(queue[d]) /\ queue[d][i - 1] = r
        BY <2>1, <2>2, <3>3, PendingElements
      <4> QED
        BY <2>2, <4>1, ElementOfSeq DEF InQueue
    <3> QED
      BY <3>1, <3>2, <3>3
  <2>4. r \in Requests
    BY <2>3 DEF Owed, Actions
  <2> QED
    BY <2>3, <2>4 DEF LifetimeOK, PinsHold
<1> QED
  BY <1>1, LifetimeCorrect, PTL

(* Nothing is ever queued behind a CloseAction.                             *)
THEOREM CloseLast == Spec => []CloseIsLast
<1>1. TypeOK /\ LifetimeOK => CloseIsLast
  <2> SUFFICES ASSUME TypeOK, LifetimeOK, NEW d \in Databases,
                      NEW i \in DOMAIN Pending(d), Pending(d)[i] = d
               PROVE  i = Len(Pending(d))
    BY DEF CloseIsLast
  <2>1. i \in 1..Len(Pending(d))
    BY PendingElements, LenProperties
  <2>2. Len(queue[d]) \in Nat /\ Len(<<>>) = 0
    BY EmptySeq DEF TypeOK
  <2>3. /\ current_action[d] = d => queue[d] = <<>>
        /\ \A j \in 1..Len(queue[d]) : queue[d][j] = d => j = Len(queue[d])
    BY DEF LifetimeOK, CloseEndsQueue
  <2>4. CASE current_action[d] = None
    BY <2>1, <2>3, <2>4, PendingElements
  <2>5. CASE current_action[d] # None /\ i = 1
    <3>1. current_action[d] = d /\ Len(Pending(d)) = Len(queue[d]) + 1
      BY <2>1, <2>5, PendingElements
    <3> QED
      BY <2>2, <2>3, <2>5, <3>1
  <2>6. CASE current_action[d] # None /\ i # 1
    <3>1. /\ i - 1 \in 1..Len(queue[d]) /\ queue[d][i - 1] = d
          /\ Len(Pending(d)) = Len(queue[d]) + 1
      BY <2>1, <2>2, <2>6, PendingElements
    <3> QED
      BY <2>2, <2>3, <3>1
  <2> QED
    BY <2>4, <2>5, <2>6
<1> QED
  BY <1>1, LifetimeCorrect, PTL

(* No finalizer touches a database that has been deleted.                   *)
THEOREM NoDangling == Spec => []NoDanglingFinalizer
<1>1. LifetimeOK => NoDanglingFinalizer
  BY DEF LifetimeOK
<1> QED
  BY <1>1, LifetimeCorrect, PTL

=============================================================================
