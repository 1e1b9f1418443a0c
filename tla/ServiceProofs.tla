--------------------------- MODULE ServiceProofs ---------------------------
(* The event loop is a service that answers in order: what LuaDatabaseProofs *)
(* leaves of the invariants of LuaDatabase, and every step of it as a step  *)
(* of SerialService, for any databases, requests and bounds.                *)
EXTENDS LuaDatabaseProofs

-----------------------------------------------------------------------------
(* What waits behind an action, as one sequence                             *)

Joined(c, q) == IF c = None THEN q ELSE <<c>> \o q

(* Pending(d) is such a sequence, now and after a step.                     *)
LEMMA PendingJoined ==
  ASSUME NEW d \in Databases
  PROVE  /\ Pending(d) = Joined(current_action[d], queue[d])
         /\ Pending(d)' = Joined(current_action'[d], queue'[d])
BY DEF Pending, Joined

(* The elements of the running action joined to its queue.                  *)
LEMMA JoinedElements ==
  ASSUME NEW c \in Actions \cup {None}, NEW q \in Seq(Actions)
  PROVE  /\ Joined(c, q) \in Seq(Actions)
         /\ Len(Joined(c, q)) = IF c = None THEN Len(q) ELSE Len(q) + 1
         /\ \A i \in 1..Len(Joined(c, q)) :
              Joined(c, q)[i] = IF c = None THEN q[i] ELSE IF i = 1 THEN c ELSE q[i - 1]
<1>1. CASE c = None
  BY <1>1 DEF Joined
<1>2. CASE c # None
  <2>1. /\ <<c>> \in Seq(Actions) /\ Len(<<c>>) = 1 /\ <<c>>[1] = c
        /\ Joined(c, q) = <<c>> \o q /\ Len(q) \in Nat
    BY <1>2 DEF Joined
  <2> QED
    BY <1>2, <2>1, ConcatProperties
<1> QED
  BY <1>1, <1>2

(* Taking the next action moves it, and leaves the sequence as it is.       *)
LEMMA JoinedTaken ==
  ASSUME NEW q \in Seq(Actions), q # <<>>
  PROVE  Joined(Head(q), Tail(q)) = Joined(None, q)
<1> USE ConstantsAssumption DEF ConstantsAssumption
<1>1. /\ Head(q) \in Actions /\ Head(q) # None /\ Tail(q) \in Seq(Actions)
      /\ Len(Tail(q)) = Len(q) - 1 /\ Head(q) = q[1] /\ Len(q) \in Nat \ {0}
      /\ \A i \in 1..Len(Tail(q)) : Tail(q)[i] = q[i + 1]
  BY HeadTailProperties, EmptySeq
<1> DEFINE s == Joined(Head(q), Tail(q))
<1>2. /\ s \in Seq(Actions) /\ Len(s) = Len(Tail(q)) + 1
      /\ \A i \in 1..Len(s) : s[i] = IF i = 1 THEN Head(q) ELSE Tail(q)[i - 1]
  <2> DEFINE h == Head(q)
             t == Tail(q)
  <2>1. h \in Actions /\ h # None /\ t \in Seq(Actions)
    BY <1>1
  <2> HIDE DEF h, t
  <2>2. /\ Joined(h, t) \in Seq(Actions) /\ Len(Joined(h, t)) = Len(t) + 1
        /\ \A i \in 1..Len(Joined(h, t)) :
             Joined(h, t)[i] = IF i = 1 THEN h ELSE t[i - 1]
    BY <2>1, JoinedElements
  <2> QED
    BY <2>2 DEF h, t
<1> HIDE DEF s
<1>3. \A i \in 1..Len(s) : s[i] = q[i]
  BY <1>1, <1>2
<1>4. s = q
  BY <1>1, <1>2, <1>3, SeqEqual
<1> QED
  BY <1>4 DEF Joined, s

(* Retiring an action takes the first off.                                  *)
LEMMA JoinedRetired ==
  ASSUME NEW c \in Actions \cup {None}, NEW q \in Seq(Actions), c # None \/ q # <<>>
  PROVE  /\ Joined(c, q) # <<>>
         /\ Head(Joined(c, q)) = IF c = None THEN Head(q) ELSE c
         /\ Joined(None, IF c # None THEN q ELSE Tail(q)) = Tail(Joined(c, q))
<1>1. CASE c = None
  BY <1>1 DEF Joined
<1>2. CASE c # None
  <2> DEFINE s == Joined(c, q)
  <2>1. /\ s \in Seq(Actions) /\ Len(s) = Len(q) + 1 /\ Len(q) \in Nat
        /\ \A i \in 1..Len(s) : s[i] = IF i = 1 THEN c ELSE q[i - 1]
    BY <1>2, JoinedElements
  <2> HIDE DEF s
  <2>2. s # <<>> /\ Head(s) = c
    BY <2>1, EmptySeq
  <2>3. /\ Tail(s) \in Seq(Actions) /\ Len(Tail(s)) = Len(q)
        /\ \A i \in 1..Len(Tail(s)) : Tail(s)[i] = s[i + 1]
    BY <2>1, <2>2, HeadTailProperties
  <2>4. \A i \in 1..Len(q) : Tail(s)[i] = q[i]
    BY <2>1, <2>3
  <2>5. Tail(s) = q
    BY <2>3, <2>4, SeqEqual
  <2> QED
    BY <1>2, <2>2, <2>5 DEF Joined, s
<1> QED
  BY <1>1, <1>2

(* Queueing an action puts it at the end.                                   *)
LEMMA JoinedAppended ==
  ASSUME NEW c \in Actions \cup {None}, NEW q \in Seq(Actions), NEW a \in Actions
  PROVE  Joined(c, Append(q, a)) = Append(Joined(c, q), a)
<1>1. CASE c = None
  BY <1>1 DEF Joined
<1>2. CASE c # None
  <2>1. Append(q, a) = q \o <<a>> /\ Append(<<c>> \o q, a) = (<<c>> \o q) \o <<a>>
    BY <1>2, AppendIsConcat, ConcatProperties
  <2>2. (<<c>> \o q) \o <<a>> = <<c>> \o (q \o <<a>>)
    <3>1. <<c>> \in Seq(Actions) /\ <<a>> \in Seq(Actions)
      BY <1>2
    <3> QED
      BY <3>1, ConcatAssociative
  <2> QED
    BY <1>2, <2>1, <2>2 DEF Joined
<1> QED
  BY <1>1, <1>2

-----------------------------------------------------------------------------
(* What one step does to Pending                                            *)

(* Pending(d) is a sequence of actions; the first is the one RunTick        *)
(* works on, and there is one exactly when the database is busy.            *)
LEMMA PendingFacts ==
  ASSUME TypeOK, NEW d \in Databases
  PROVE  /\ Pending(d) \in Seq(Actions)
         /\ Len(Pending(d)) \in Nat
         /\ DOMAIN Pending(d) = 1..Len(Pending(d))
         /\ Busy(d) <=> Pending(d) # <<>>
         /\ Busy(d) => /\ 1 \in DOMAIN Pending(d)
                       /\ Head(Pending(d)) = Active(d)
                       /\ Pending(d)[1] = Active(d)
         /\ current_action[d] # None => Pending(d)[1] = current_action[d] /\ Busy(d)
<1>1. current_action[d] \in Actions \cup {None} /\ queue[d] \in Seq(Actions)
  BY DEF TypeOK
<1>2. Pending(d) \in Seq(Actions)
  BY <1>1, PendingJoined, JoinedElements
<1>3. Len(Pending(d)) \in Nat /\ DOMAIN Pending(d) = 1..Len(Pending(d))
  BY <1>2, LenProperties
<1>4. ASSUME Busy(d) PROVE Pending(d) # <<>> /\ Head(Pending(d)) = Active(d)
  <2>1. Pending(d) = Joined(current_action[d], queue[d])
    BY PendingJoined
  <2>2. current_action[d] # None \/ queue[d] # <<>>
    BY <1>4 DEF Busy
  <2>3. /\ Joined(current_action[d], queue[d]) # <<>>
        /\ Head(Joined(current_action[d], queue[d])) =
             IF current_action[d] = None THEN Head(queue[d]) ELSE current_action[d]
    BY <1>1, <2>2, JoinedRetired
  <2> QED
    BY <2>1, <2>3 DEF Active
<1>5. ASSUME ~ Busy(d) PROVE Pending(d) = <<>>
  BY <1>5 DEF Busy, Pending
<1>6. ASSUME Busy(d) PROVE 1 \in DOMAIN Pending(d) /\ Pending(d)[1] = Active(d)
  BY <1>2, <1>3, <1>4, <1>6, EmptySeq
<1>7. current_action[d] # None => Busy(d) /\ Active(d) = current_action[d]
  BY DEF Busy, Active
<1> QED
  BY <1>2, <1>3, <1>4, <1>5, <1>6, <1>7

(* An action joins the end of Pending(d) by a call, by a connect, or by     *)
(* __gc, and it has never been queued before.                               *)
Joins(d, a) ==
  \/ a \in Requests /\ kind[a] = "unused" /\ \E k \in {"command", "query"} : Submit(d, a, k)
  \/ a \in Requests /\ kind[a] = "unused" /\ call = d /\ ConnectInsert(a)
  \/ a = d /\ Finalize(d) /\ ~ HasCleanedUpAlready /\ gced' = gced \cup {d}

(* The three things a step may do to Pending(d).                            *)
LEMMA PendingStep ==
  ASSUME TypeOK, PassOK, [Next]_vars, NEW d \in Databases
  PROVE  \/ Pending(d)' = Pending(d)
         \/ Retired(d) /\ Pending(d)' = Tail(Pending(d))
         \/ \E a \in Actions : Joins(d, a) /\ Pending(d)' = Append(Pending(d), a)
<1>1. current_action[d] \in Actions \cup {None} /\ queue[d] \in Seq(Actions)
  BY DEF TypeOK
<1>2. CASE Kept(d)
  BY <1>2, PendingJoined DEF Kept
<1>3. CASE Taken(d)
  <2>1. CASE current_action[d] # None
    BY <1>3, <2>1, PendingJoined DEF Taken, Active, Rest
  <2>2. CASE current_action[d] = None
    BY <1>1, <1>3, <2>2, PendingJoined, JoinedTaken DEF Taken, Busy, Active, Rest
  <2> QED
    BY <2>1, <2>2
<1>4. CASE Retired(d)
  <2>1. /\ current_action[d] # None \/ queue[d] # <<>>
        /\ Pending(d)' = Joined(None, IF current_action[d] # None THEN queue[d]
                                     ELSE Tail(queue[d]))
    BY <1>4, PendingJoined DEF Retired, Busy, Rest
  <2> QED
    BY <1>1, <1>4, <2>1, PendingJoined, JoinedRetired
<1>5. ASSUME NEW a \in Actions, Appended(d, a) PROVE Pending(d)' = Append(Pending(d), a)
  BY <1>1, <1>5, PendingJoined, JoinedAppended DEF Appended
<1>6. CASE Called(d) \/ Connected(d)
  BY <1>5, <1>6 DEF Called, Connected, Joins, Submit, ConnectInsert, Actions
<1>7. CASE Finalize(d) /\ Appended(d, d)
  <2>1. queue'[d] # queue[d]
    BY <1>1, <1>7, AppendProperties DEF Appended, Actions
  <2>2. ~ HasCleanedUpAlready /\ gced' = gced \cup {d}
    BY <1>7, <2>1 DEF Finalize
  <2> QED
    BY <1>5, <1>7, <2>2 DEF Joins, Actions
<1> QED
  BY <1>2, <1>3, <1>4, <1>6, <1>7, QueueStep

(* A step that retires the running action takes the first off Pending.      *)
LEMMA RetirePending ==
  ASSUME TypeOK, NEW d \in Databases, Busy(d), Retire(d)
  PROVE  Pending(d)' = Tail(Pending(d)) /\ current_action'[d] = None
<1>1. /\ current_action[d] \in Actions \cup {None} /\ queue[d] \in Seq(Actions)
      /\ current_action[d] # None \/ queue[d] # <<>>
  BY DEF TypeOK, Busy
<1>2. /\ current_action'[d] = None
      /\ queue'[d] = IF current_action[d] # None THEN queue[d] ELSE Tail(queue[d])
  BY DEF Retire, Rest, TypeOK
<1>3. Pending(d)' = Joined(None, IF current_action[d] # None THEN queue[d]
                                 ELSE Tail(queue[d]))
  BY <1>2, PendingJoined
<1>4. Pending(d) = Joined(current_action[d], queue[d])
  BY PendingJoined
<1>5. Joined(None, IF current_action[d] # None THEN queue[d] ELSE Tail(queue[d])) =
        Tail(Joined(current_action[d], queue[d]))
  BY <1>1, JoinedRetired
<1> QED
  BY <1>2, <1>3, <1>4, <1>5

(* A step that takes the next action leaves Pending as it is.               *)
LEMMA TakePending ==
  ASSUME TypeOK, NEW d \in Databases, Busy(d), Take(d)
  PROVE  Pending(d)' = Pending(d) /\ current_action'[d] = Active(d)
<1>1. /\ current_action[d] \in Actions \cup {None} /\ queue[d] \in Seq(Actions)
      /\ current_action'[d] = Active(d) /\ queue'[d] = Rest(d)
  BY DEF Take, TypeOK
<1>2. CASE current_action[d] # None
  BY <1>1, <1>2, PendingJoined DEF Active, Rest
<1>3. CASE current_action[d] = None
  BY <1>1, <1>3, PendingJoined, JoinedTaken DEF Busy, Active, Rest
<1> QED
  BY <1>1, <1>2, <1>3

(* After a step, too, Pending(d) is a sequence of actions.                  *)
LEMMA PendingNext ==
  ASSUME TypeOK, PassOK, [Next]_vars, NEW d \in Databases
  PROVE  /\ Pending(d)' \in Seq(Actions)
         /\ Len(Pending(d)') \in Nat
         /\ DOMAIN Pending(d)' = 1..Len(Pending(d)')
<1>1. current_action'[d] \in Actions \cup {None} /\ queue'[d] \in Seq(Actions)
  BY TypeNext DEF TypeOK
<1>2. Pending(d)' \in Seq(Actions)
  BY <1>1, PendingJoined, JoinedElements, SMTT(30)
<1> QED
  BY <1>2, LenProperties

(* The elements of Pending(d) move up by k places, the new one is last.     *)
LEMMA PendingShift ==
  ASSUME TypeOK, PassOK, [Next]_vars, NEW d \in Databases
  PROVE  \E k \in {0, 1} : \A i \in DOMAIN Pending(d)' :
           \/ i + k \in DOMAIN Pending(d) /\ Pending(d)'[i] = Pending(d)[i + k]
           \/ Joins(d, Pending(d)'[i]) /\ i = Len(Pending(d)') /\ i \notin DOMAIN Pending(d)
<1> DEFINE p == Pending(d)
<1>1. /\ p \in Seq(Actions) /\ Len(p) \in Nat /\ DOMAIN p = 1..Len(p)
      /\ Pending(d)' \in Seq(Actions) /\ DOMAIN Pending(d)' = 1..Len(Pending(d)')
  BY PendingFacts, PendingNext DEF p
<1> HIDE DEF p
<1>2. CASE Pending(d)' = p
  BY <1>1, <1>2 DEF p
<1>3. CASE p # <<>> /\ Pending(d)' = Tail(p)
  <2>1. Len(Tail(p)) = Len(p) - 1 /\ \A i \in 1..Len(Tail(p)) : Tail(p)[i] = p[i + 1]
    BY <1>1, <1>3, HeadTailProperties
  <2>2. \A i \in DOMAIN Pending(d)' : i + 1 \in DOMAIN p /\ Pending(d)'[i] = p[i + 1]
    BY <1>1, <1>3, <2>1
  <2> QED
    BY <2>2 DEF p
<1>4. ASSUME NEW a \in Actions, Joins(d, a), Pending(d)' = Append(p, a)
      PROVE  \A i \in DOMAIN Pending(d)' :
               \/ i + 0 \in DOMAIN p /\ Pending(d)'[i] = p[i + 0]
               \/ Joins(d, Pending(d)'[i]) /\ i = Len(Pending(d)') /\ i \notin DOMAIN p
  <2>1. /\ Len(Append(p, a)) = Len(p) + 1
        /\ \A i \in 1..Len(p) : Append(p, a)[i] = p[i]
        /\ Append(p, a)[Len(p) + 1] = a
    BY <1>1, AppendProperties
  <2> SUFFICES ASSUME NEW i \in DOMAIN Pending(d)'
               PROVE  \/ i + 0 \in DOMAIN p /\ Pending(d)'[i] = p[i + 0]
                      \/ Joins(d, Pending(d)'[i]) /\ i = Len(Pending(d)') /\ i \notin DOMAIN p
    OBVIOUS
  <2>2. CASE i \in 1..Len(p)
    BY <1>1, <1>4, <2>1, <2>2
  <2>3. CASE i = Len(p) + 1
    BY <1>1, <1>4, <2>1, <2>3
  <2> QED
    BY <1>1, <1>4, <2>1, <2>2, <2>3
<1>5. Retired(d) => p # <<>>
  BY PendingFacts DEF Retired, p
<1> QED
  BY <1>2, <1>3, <1>4, <1>5, PendingStep DEF p

-----------------------------------------------------------------------------
(* What one step does to the action a database works on                     *)

(* The pass works on the active action of one database.                     *)
Serves(d) ==
  /\ Busy(d)
  /\ \/ Visiting(d) /\ RunTick(d)
     \/ CallbackReturn /\ d = open_databases[it] /\ Active(d) = current_action[d]

Calm ==
  UNCHANGED <<current_action, started, has_finished, outcome, socket_state, operation>>

(* A step runs one action, or leaves all of them alone.                     *)
LEMMA LoopStep ==
  ASSUME TypeOK, PassOK, [Next]_vars
  PROVE  Calm \/ \E d \in Databases : Serves(d)
<1> USE DEF dbVars, actionVars, netVars, luaVars, hookVars, Calm
<1>1. CASE LuaCode \/ ConnectEnd
  BY <1>1 DEF LuaCode, ConnectBegin, Drop, Submit, ConnectEnd, ConnectTypeError,
     ConnectInsert, ConnectInsertError
<1>2. CASE Collector
  BY <1>2 DEF Collector, Collect, Finalize
<1>3. ASSUME NEW d \in Databases, Visiting(d), Busy(d), RunTick(d) PROVE Serves(d)
  BY <1>3 DEF Serves
<1>4. CASE CallbackReturn
  BY <1>4 DEF CallbackReturn, PassOK, TypeOK, Serves, Busy, Active
<1>5. CASE \/ \E d \in Databases : DeleteDatabase(d) \/ SkipDatabase(d) \/ SocketReady(d)
           \/ CallbackError
  BY <1>5 DEF DeleteDatabase, SkipDatabase, SocketReady, CallbackError
<1>6. CASE TickHook \/ TickHookEnd \/ ShutdownHook \/ ShutdownRepeat \/ CloseAll
  BY <1>6 DEF TickHook, TickHookEnd, ShutdownHook, ShutdownRepeat, CloseAll
<1>7. CASE UNCHANGED vars
  BY <1>7 DEF vars
<1> QED
  BY <1>1, <1>2, <1>3, <1>4, <1>5, <1>6, <1>7 DEF Next, Hooks, TickHookTick, Terminated

(* It waits, stays current, or is freed.                                    *)
LEMMA ServeShape ==
  ASSUME TypeOK, NEW d \in Databases, Serves(d)
  PROVE  \/ Calm /\ UNCHANGED queue
         \/ Take(d) /\ Pending(d)' = Pending(d) /\ current_action'[d] = Active(d)
         \/ Retire(d) /\ Pending(d)' = Tail(Pending(d)) /\ current_action'[d] = None
<1>1. Busy(d) /\ ((Calm /\ UNCHANGED queue) \/ Take(d) \/ Retire(d))
  BY DEF Serves, RunTick, TickSuspend, TickWait, TickStage, TickReject, TickFinish,
     TickConnectLost, TickClose, TickFree, TickOutOfSync, CallbackReturn, Calm,
     dbVars, actionVars, netVars
<1> QED
  BY <1>1, RetirePending, TakePending

(* Nothing else is touched by the step: no other action, no other database. *)
LEMMA ServeTouches ==
  ASSUME TypeOK, NEW d \in Databases, Serves(d)
  PROVE  /\ \A x \in Actions \ {Active(d)} :
              /\ x \in started' <=> x \in started
              /\ x \in has_finished' <=> x \in has_finished
              /\ x \in Requests => outcome'[x] = outcome[x]
         /\ \A e \in Databases \ {d} :
              /\ current_action'[e] = current_action[e]
              /\ socket_state'[e] = socket_state[e]
              /\ operation'[e] = operation[e]
         /\ kind' = kind /\ gced' = gced
<1> USE DEF Take, Retire, Completed, TypeOK, dbVars, actionVars, netVars
<1>1. CASE CallbackReturn /\ d = open_databases[it] /\ Active(d) = current_action[d]
  BY <1>1 DEF CallbackReturn
<1>2. CASE \E n \in 1..MaxRounds : TickSuspend(d, Active(d), n)
  BY <1>2 DEF TickSuspend
<1>3. CASE TickWait(d, Active(d))
  BY <1>3 DEF TickWait
<1>4. CASE TickStage(d, Active(d))
  BY <1>4 DEF TickStage
<1>5. CASE TickReject(d, Active(d))
  BY <1>5 DEF TickReject
<1>6. CASE \E result \in {"resolved", "rejected"} : TickFinish(d, Active(d), result)
  BY <1>6 DEF TickFinish
<1>7. CASE TickConnectLost(d, Active(d))
  BY <1>7 DEF TickConnectLost
<1>8. CASE TickClose(d, Active(d))
  BY <1>8 DEF TickClose
<1>9. CASE TickFree(d, Active(d))
  BY <1>9 DEF TickFree
<1>10. CASE TickOutOfSync(d, Active(d))
  BY <1>10 DEF TickOutOfSync
<1> QED
  BY <1>1, <1>2, <1>3, <1>4, <1>5, <1>6, <1>7, <1>8, <1>9, <1>10 DEF Serves, RunTick

(* The library call of the active action is made or continued, or is over.  *)
LibraryCall(d) ==
  Active(d) \notin has_finished /\ (Active(d) \in started => socket_state[d] # 0)

CallOver(d) == socket_state'[d] = 0 /\ operation'[d] = None

(* It is suspended, or goes on to its next operation.                       *)
GoesOn(d) ==
  /\ LibraryCall(d) /\ Take(d)
  /\ UNCHANGED <<has_finished, outcome>>
  /\ \/ Active(d) \in started' /\ socket_state'[d] # 0 /\ operation'[d] = Active(d)
     \/ Active(d) \notin started' /\ CallOver(d)

(* It settles its promise; a connect whose userdata is lost does not.       *)
Settles(d) ==
  /\ LibraryCall(d) /\ Take(d) /\ CallOver(d)
  /\ Active(d) \in Requests /\ Active(d) \in started'
  /\ \/ outcome'[Active(d)] # "none"
     \/ kind[Active(d)] = "connect" /\ Active(d) \in has_finished' /\ UNCHANGED outcome

(* It is over: a close, a call finished before, or one being answered.      *)
Ends(d) ==
  /\ Retire(d) /\ UNCHANGED outcome
  /\ \/ Active(d) \in Databases /\ CallOver(d)
     \/ /\ UNCHANGED <<started, socket_state, operation>>
        /\ Active(d) \in has_finished'
        /\ \/ Active(d) \in has_finished
           \/ Active(d) \in started /\ socket_state[d] = 0
           \/ callback # "none" /\ d = open_databases[it] /\ current_action[d] = Active(d)

(* What RunTick and the end of a callback do, in these terms.               *)
LEMMA ServeEffect ==
  ASSUME TypeOK, NEW d \in Databases, Serves(d)
  PROVE  (Calm /\ UNCHANGED queue) \/ GoesOn(d) \/ Settles(d) \/ Ends(d)
<1>0. Active(d) \in Actions
  BY RestType DEF Serves
<1> USE <1>0, ConstantsAssumption DEF ConstantsAssumption, Actions
<1> USE DEF Completed, LibraryCall, CallOver, Polled, TypeOK, dbVars, actionVars, netVars
<1>1. CASE CallbackReturn /\ d = open_databases[it] /\ Active(d) = current_action[d]
  BY <1>1 DEF CallbackReturn, Ends
<1>2. CASE \E n \in 1..MaxRounds : TickSuspend(d, Active(d), n)
  BY <1>2 DEF TickSuspend, GoesOn
<1>3. CASE TickWait(d, Active(d))
  BY <1>3 DEF TickWait, Calm
<1>4. CASE TickStage(d, Active(d))
  BY <1>4 DEF TickStage, GoesOn
<1>5. CASE TickReject(d, Active(d))
  BY <1>5 DEF TickReject, KindOf, Settles
<1>6. CASE \E result \in {"resolved", "rejected"} : TickFinish(d, Active(d), result)
  BY <1>6 DEF TickFinish, KindOf, Settles
<1>7. CASE TickConnectLost(d, Active(d))
  BY <1>7 DEF TickConnectLost, KindOf, Settles
<1>8. CASE TickClose(d, Active(d))
  BY <1>8 DEF TickClose, KindOf, Ends
<1>9. CASE TickFree(d, Active(d))
  BY <1>9 DEF TickFree, Ends
<1>10. CASE TickOutOfSync(d, Active(d))
  BY <1>10 DEF TickOutOfSync, Ends
<1> QED
  BY <1>1, <1>2, <1>3, <1>4, <1>5, <1>6, <1>7, <1>8, <1>9, <1>10 DEF Serves, RunTick

(* The kind of a request is chosen once, when it is queued.                 *)
LEMMA KindNext ==
  ASSUME TypeOK, [Next]_vars, NEW r \in Requests
  PROVE  \/ kind'[r] = kind[r]
         \/ kind[r] = "unused" /\ kind'[r] # "unused" /\ Calm
<1> USE DEF actionVars, netVars, TypeOK, Calm
<1>1. ASSUME NEW d \in Databases, NEW a \in Requests,
             NEW k \in {"command", "query"}, Submit(d, a, k)
      PROVE  kind'[r] = kind[r] \/ (kind[r] = "unused" /\ kind'[r] # "unused" /\ Calm)
  BY <1>1 DEF Submit
<1>2. ASSUME NEW a \in Requests, ConnectInsert(a)
      PROVE  kind'[r] = kind[r] \/ (kind[r] = "unused" /\ kind'[r] # "unused" /\ Calm)
  BY <1>2 DEF ConnectInsert
<1>3. CASE UNCHANGED kind
  BY <1>3
<1>4. CASE \/ \E d \in Databases : ConnectBegin(d) \/ Drop(d) \/ SocketReady(d)
           \/ ConnectTypeError \/ ConnectInsertError \/ Collector
  BY <1>3, <1>4 DEF ConnectBegin, Drop, SocketReady, ConnectTypeError,
     ConnectInsertError, Collector, Collect, Finalize
<1>5. CASE \E d \in Databases : RunTick(d)
  BY <1>3, <1>5 DEF RunTick, TickSuspend, TickWait, TickStage, TickReject, TickFinish,
     TickConnectLost, TickClose, TickFree, TickOutOfSync
<1>6. CASE \/ \E d \in Databases : DeleteDatabase(d) \/ SkipDatabase(d)
           \/ CallbackReturn \/ CallbackError
           \/ TickHook \/ TickHookEnd \/ ShutdownHook \/ ShutdownRepeat \/ CloseAll
  BY <1>3, <1>6 DEF DeleteDatabase, SkipDatabase, CallbackReturn, CallbackError,
     TickHook, TickHookEnd, ShutdownHook, ShutdownRepeat, CloseAll
<1>7. CASE UNCHANGED vars
  BY <1>3, <1>7 DEF vars
<1> QED
  BY <1>1, <1>2, <1>4, <1>5, <1>6, <1>7
  DEF Next, LuaCode, ConnectEnd, Hooks, TickHookTick, Terminated

(* What joins a queue is new to it, and to all others.                      *)
LEMMA JoinsFresh ==
  ASSUME TypeOK, LoopOK, NEW d \in Databases, NEW a \in Actions, Joins(d, a)
  PROVE  /\ \A e \in Databases : \A i \in DOMAIN Pending(e) : Pending(e)[i] # a
         /\ a \notin started \cup has_finished
         /\ a \in Databases => a = d /\ a \notin gced /\ a \in gced'
         /\ a \in Requests => kind[a] = "unused" /\ outcome[a] = "none" /\ kind'[a] # "unused"
         /\ Calm
<1>0. QueuedOnce /\ UnusedUntouched /\ GcedIsFinalized
  BY DEF LoopOK, ServiceOK, LifetimeOK
<1>1. CASE a \in Requests /\ kind[a] = "unused"
  <2>1. a \notin Databases
    BY <1>1, ConstantsAssumption DEF ConstantsAssumption
  <2>2. Calm /\ kind'[a] # "unused"
    BY <1>1, <2>1 DEF Joins, Submit, ConnectInsert, TypeOK, Calm, netVars
  <2> QED
    BY <1>0, <1>1, <2>1, <2>2 DEF QueuedOnce, UnusedUntouched
<1>2. CASE a = d /\ Finalize(d) /\ ~ HasCleanedUpAlready /\ gced' = gced \cup {d}
  <2>1. d \notin gced /\ d \notin Requests
    BY <1>0, <1>2, ConstantsAssumption DEF Finalize, GcedIsFinalized, ConstantsAssumption
  <2>2. Calm
    BY <1>2 DEF Finalize, Calm, actionVars, netVars
  <2> QED
    BY <1>0, <1>2, <2>1, <2>2 DEF QueuedOnce, UnusedUntouched
<1> QED
  BY <1>1, <1>2 DEF Joins

(* An action joins one queue only.                                          *)
LEMMA JoinsOne ==
  ASSUME TypeOK, NEW d \in Databases, NEW e \in Databases, NEW a \in Actions,
         Joins(d, a), Joins(e, a)
  PROVE  d = e
<1> USE ConstantsAssumption DEF ConstantsAssumption
<1>1. CASE a \in Databases
  BY <1>1 DEF Joins
<1>2. CASE a \in Requests
  <2>1. ASSUME NEW k \in {"command", "query"}, Submit(d, a, k),
               NEW j \in {"command", "query"}, Submit(e, a, j), d # e
        PROVE  FALSE
    <3>1. queue' = [queue EXCEPT ![d] = Append(queue[d], a)]
      BY <2>1 DEF Submit, InsertAction
    <3>2. queue' = [queue EXCEPT ![e] = Append(queue[e], a)]
      BY <2>1 DEF Submit, InsertAction
    <3>3. queue[d] \in Seq(Actions) /\ queue[d] = Append(queue[d], a)
      BY <2>1, <3>1, <3>2 DEF TypeOK
    <3> QED
      BY <3>3, AppendProperties
  <2>2. ASSUME NEW k \in {"command", "query"}, ConnectInsert(a),
               Submit(d, a, k) \/ Submit(e, a, k)
        PROVE  FALSE
    BY <1>2, <2>2 DEF Submit, ConnectInsert, TypeOK
  <2> QED
    BY <1>2, <2>1, <2>2 DEF Joins
<1> QED
  BY <1>1, <1>2 DEF Actions

(* The action a database works on waits nowhere else.                       *)
LEMMA ActiveOnce ==
  ASSUME TypeOK, LoopOK, NEW d \in Databases, Busy(d)
  PROVE  /\ Active(d) \in Actions
         /\ IF Active(d) \in Databases THEN Active(d) = d /\ d \in gced
            ELSE kind[Active(d)] # "unused"
         /\ \A e \in Databases : \A i \in DOMAIN Pending(e) :
              Pending(e)[i] = Active(d) => e = d /\ i = 1
BY RestType, PendingFacts DEF LoopOK, ServiceOK, QueuedOnce

-----------------------------------------------------------------------------
(* The invariant of the service, conjunct by conjunct                       *)

(* No action is ever queued twice.                                          *)
LEMMA QueuedOnceNext ==
  ASSUME TypeOK, LoopOK, [Next]_vars
  PROVE  QueuedOnce'
<1>0. PassOK /\ QueuedOnce
  BY DEF LoopOK, ServiceOK, LifetimeOK
<1>1. ASSUME NEW d \in Databases, NEW i \in DOMAIN Pending(d)'
      PROVE  Pending(d)'[i] \in Actions
  BY <1>0, PendingNext, ElementOfSeq
<1>2. ASSUME NEW d \in Databases, NEW i \in DOMAIN Pending(d)'
      PROVE  IF Pending(d)'[i] \in Databases
             THEN Pending(d)'[i] = d /\ d \in gced'
             ELSE kind'[Pending(d)'[i]] # "unused"
  <2> DEFINE a == Pending(d)'[i]
  <2>1. a \in Actions
    BY <1>1
  <2>2. CASE Joins(d, a)
    BY <2>1, <2>2, JoinsFresh DEF Actions
  <2>3. ASSUME NEW j \in DOMAIN Pending(d), Pending(d)[j] = a
        PROVE  IF a \in Databases THEN a = d /\ d \in gced' ELSE kind'[a] # "unused"
    <3>1. IF a \in Databases THEN a = d /\ d \in gced ELSE kind[a] # "unused"
      BY <1>0, <2>3 DEF QueuedOnce
    <3> HIDE DEF a
    <3> QED
      BY <2>1, <3>1, GcedStep, KindNext DEF Actions
  <2> QED
    BY <1>0, <2>2, <2>3, PendingShift
<1>3. ASSUME NEW d \in Databases, NEW i \in DOMAIN Pending(d)',
             NEW e \in Databases, NEW j \in DOMAIN Pending(e)',
             Pending(e)'[j] = Pending(d)'[i]
      PROVE  e = d /\ j = i
  <2> DEFINE a == Pending(d)'[i]
  <2>1. a \in Actions
    BY <1>1
  <2>2. PICK k \in {0, 1} : \A n \in DOMAIN Pending(d)' :
          \/ n + k \in DOMAIN Pending(d) /\ Pending(d)'[n] = Pending(d)[n + k]
          \/ Joins(d, Pending(d)'[n]) /\ n = Len(Pending(d)')
    BY <1>0, PendingShift
  <2>3. PICK l \in {0, 1} : \A n \in DOMAIN Pending(e)' :
          \/ n + l \in DOMAIN Pending(e) /\ Pending(e)'[n] = Pending(e)[n + l]
          \/ Joins(e, Pending(e)'[n]) /\ n = Len(Pending(e)')
    BY <1>0, PendingShift
  <2>4. CASE Joins(d, a)
    <3>1. \A f \in Databases : \A n \in DOMAIN Pending(f) : Pending(f)[n] # a
      BY <2>1, <2>4, JoinsFresh
    <3>2. Joins(e, a) /\ j = Len(Pending(e)') /\ i = Len(Pending(d)')
      BY <1>3, <2>2, <2>3, <3>1
    <3> QED
      BY <2>1, <2>4, <3>2, JoinsOne
  <2>5. CASE ~ Joins(d, a)
    <3>1. i + k \in DOMAIN Pending(d) /\ Pending(d)[i + k] = a
      BY <2>2, <2>5
    <3>2. ~ Joins(e, a)
      BY <2>1, <3>1, JoinsFresh
    <3>3. j + l \in DOMAIN Pending(e) /\ Pending(e)[j + l] = a
      BY <1>3, <2>3, <3>2
    <3>4. e = d
      BY <1>0, <3>1, <3>3 DEF QueuedOnce
    <3>5. j + k \in DOMAIN Pending(d) /\ Pending(d)[j + k] = a
      BY <1>3, <2>2, <2>5, <3>4
    <3>6. j + k = i + k
      BY <1>0, <3>1, <3>5 DEF QueuedOnce
    <3>7. i \in Nat /\ j \in Nat
      BY <1>0, <3>4, PendingNext
    <3> QED
      BY <3>4, <3>6, <3>7
  <2> QED
    BY <2>4, <2>5
<1> QED
  BY <1>2, <1>3 DEF QueuedOnce

(* What has not been queued, or waits behind the active action, is left     *)
(* alone by the step that works on that one.                                *)
LEMMA UnusedNext ==
  ASSUME TypeOK, LoopOK, [Next]_vars
  PROVE  UnusedUntouched'
<1>0. PassOK /\ QueuedOnce /\ UnusedUntouched
  BY DEF LoopOK, ServiceOK, LifetimeOK
<1> USE ConstantsAssumption DEF ConstantsAssumption, Actions
<1>1. ASSUME NEW x \in Actions, \A d \in Databases : Busy(d) => Active(d) # x
      PROVE  /\ x \in started' <=> x \in started
             /\ x \in has_finished' <=> x \in has_finished
             /\ x \in Requests => outcome'[x] = outcome[x]
  <2>1. CASE Calm
    BY <2>1 DEF Calm
  <2>2. ASSUME NEW d \in Databases, Serves(d)
        PROVE  /\ x \in started' <=> x \in started
               /\ x \in has_finished' <=> x \in has_finished
               /\ x \in Requests => outcome'[x] = outcome[x]
    <3>1. x # Active(d)
      BY <1>1, <2>2 DEF Serves
    <3> QED
      BY <2>2, <3>1, ServeTouches
  <2> QED
    BY <1>0, <2>1, <2>2, LoopStep
<1>2. ASSUME NEW d \in Databases \ gced' PROVE d \notin started' \cup has_finished'
  <2>1. d \notin gced
    BY GcedStep
  <2>2. \A e \in Databases : Busy(e) => Active(e) # d
    BY <2>1, ActiveOnce
  <2> QED
    BY <1>0, <1>1, <2>1, <2>2 DEF UnusedUntouched
<1>3. ASSUME NEW r \in Requests, kind'[r] = "unused"
      PROVE  r \notin started' \cup has_finished' /\ outcome'[r] = "none"
  <2>1. kind[r] = "unused" /\ r \notin Databases
    BY <1>3, KindNext
  <2>2. \A e \in Databases : Busy(e) => Active(e) # r
    BY <2>1, ActiveOnce
  <2> QED
    BY <1>0, <1>1, <2>1, <2>2 DEF UnusedUntouched
<1>4. ASSUME NEW d \in Databases, NEW a \in Actions, Joins(d, a) PROVE a \notin started'
  BY <1>4, JoinsFresh DEF Calm
<1>5. ASSUME NEW d \in Databases, NEW j \in 2..Len(Pending(d)) PROVE Pending(d)[j] \notin started'
  <2>1. j \in DOMAIN Pending(d) /\ Pending(d)[j] \in Actions /\ j # 1
    BY PendingFacts, ElementOfSeq
  <2>2. \A e \in Databases : Busy(e) => Active(e) # Pending(d)[j]
    BY <2>1, ActiveOnce
  <2>3. Pending(d)[j] \notin started
    BY <1>0 DEF UnusedUntouched
  <2> QED
    BY <1>1, <2>1, <2>2, <2>3
<1>6. ASSUME NEW d \in Databases, NEW i \in 2..Len(Pending(d)')
      PROVE  Pending(d)'[i] \notin started'
  <2>1. i \in DOMAIN Pending(d)' /\ Pending(d)'[i] \in Actions
    BY <1>0, PendingNext, ElementOfSeq
  <2>2. CASE Joins(d, Pending(d)'[i])
    BY <1>4, <2>1, <2>2
  <2>3. ASSUME NEW k \in {0, 1}, i + k \in DOMAIN Pending(d),
               Pending(d)'[i] = Pending(d)[i + k]
        PROVE  Pending(d)'[i] \notin started'
    <3>1. i + k \in 2..Len(Pending(d))
      BY <2>3, PendingFacts
    <3> QED
      BY <1>5, <2>3, <3>1
  <2> QED
    BY <1>0, <2>1, <2>2, <2>3, PendingShift
<1>7. ASSUME NEW d \in Databases, current_action'[d] = None, Busy(d)'
      PROVE  Active(d)' \notin started'
  <2>1. /\ 1 \in DOMAIN Pending(d)'
        /\ Pending(d)'[1] = Active(d)' /\ Active(d)' \in Actions
    <3>1. queue'[d] \in Seq(Actions) /\ queue'[d] # <<>>
          /\ Pending(d)' = queue'[d] /\ Active(d)' = Head(queue'[d])
      BY <1>0, <1>7, TypeNext DEF Busy, Pending, Active, TypeOK
    <3> QED
      BY <3>1, LenProperties, EmptySeq, HeadTailProperties
  <2>2. CASE Joins(d, Active(d)')
    BY <1>4, <2>1, <2>2
  <2>3. PICK k \in {0, 1} :
          \/ 1 + k \in DOMAIN Pending(d) /\ Pending(d)'[1] = Pending(d)[1 + k]
          \/ Joins(d, Pending(d)'[1])
    BY <1>0, <2>1, PendingShift
  <2>4. CASE 2 \in DOMAIN Pending(d) /\ Active(d)' = Pending(d)[2]
    <3>1. 2 \in 2..Len(Pending(d))
      BY <2>4, PendingFacts
    <3> QED
      BY <1>5, <2>4, <3>1
  <2>5. CASE 1 \in DOMAIN Pending(d) /\ Active(d)' = Pending(d)[1]
    <3>1. Busy(d) /\ Active(d)' = Active(d)
      BY <2>5, PendingFacts, EmptySeq
    <3>2. \A i \in DOMAIN Tail(Pending(d)) : Tail(Pending(d))[i] # Active(d)
      <4>1. Pending(d) \in Seq(Actions) /\ Pending(d) # <<>>
        BY <3>1, PendingFacts
      <4>2. /\ DOMAIN Tail(Pending(d)) = 1..(Len(Pending(d)) - 1)
            /\ \A i \in 1..(Len(Pending(d)) - 1) : Tail(Pending(d))[i] = Pending(d)[i + 1]
        BY <4>1, HeadTailProperties, LenProperties
      <4>3. \A i \in 1..(Len(Pending(d)) - 1) :
              i + 1 \in DOMAIN Pending(d) /\ i + 1 # 1
        BY PendingFacts
      <4> QED
        BY <3>1, <4>2, <4>3, ActiveOnce
    <3>3. ~ Serves(d) \/ (Calm /\ UNCHANGED queue)
      <4>1. Active(d) # None
        BY <3>1, RestType
      <4> QED
        BY <1>7, <2>1, <3>1, <3>2, <4>1, ServeShape
    <3>4. current_action[d] = None
      <4>1. ASSUME NEW e \in Databases, Serves(e) PROVE current_action'[d] = current_action[d]
        BY <3>3, <4>1, ServeTouches DEF Calm
      <4> QED
        BY <1>0, <1>7, <4>1, LoopStep DEF Calm
    <3>5. Active(d) \notin started
      BY <1>0, <3>1, <3>4 DEF UnusedUntouched
    <3>6. ASSUME NEW e \in Databases, Serves(e) PROVE Active(d) \notin started'
      <4>1. CASE e = d
        BY <3>3, <3>5, <3>6, <4>1 DEF Calm
      <4>2. CASE e # d
        <5>1. Active(e) # Active(d)
          BY <2>5, <3>1, <3>6, <4>2, ActiveOnce, PendingFacts DEF Serves
        <5> QED
          BY <3>1, <3>5, <3>6, <5>1, ServeTouches, ActiveOnce
      <4> QED
        BY <4>1, <4>2
    <3> QED
      BY <1>0, <3>1, <3>5, <3>6, LoopStep DEF Calm
  <2> QED
    BY <2>1, <2>2, <2>3, <2>4, <2>5
<1> QED
  BY <1>2, <1>3, <1>6, <1>7 DEF UnusedUntouched

(* A suspended library call is that of the action RunTick will continue.    *)
LEMMA OneOperationNext ==
  ASSUME TypeOK, LoopOK, [Next]_vars
  PROVE  OneOperation'
<1>0. PassOK /\ OneOperation
  BY DEF LoopOK, ServiceOK, LifetimeOK
<1> USE ConstantsAssumption DEF ConstantsAssumption
<1> SUFFICES ASSUME NEW d \in Databases
             PROVE  /\ operation'[d] # None <=> socket_state'[d] # 0
                    /\ operation'[d] # None => /\ operation'[d] = current_action'[d]
                                               /\ operation'[d] \in started' \ has_finished'
  BY DEF OneOperation
<1>1. /\ operation[d] # None <=> socket_state[d] # 0
      /\ operation[d] # None => /\ operation[d] = current_action[d]
                                /\ operation[d] \in started \ has_finished
  BY <1>0 DEF OneOperation
<1>2. CASE Calm
  BY <1>1, <1>2 DEF Calm
<1>3. ASSUME NEW e \in Databases \ {d}, Serves(e), operation'[d] # None
      PROVE  operation[d] \in started' \ has_finished'
  <2>1. operation[d] # None /\ operation[d] = current_action[d]
    BY <1>1, <1>3, ServeTouches
  <2>2. operation[d] \in Actions /\ 1 \in DOMAIN Pending(d) /\ Pending(d)[1] = operation[d]
    BY <2>1, PendingFacts DEF TypeOK
  <2>3. operation[d] # Active(e)
    BY <1>3, <2>2, ActiveOnce DEF Serves
  <2> QED
    BY <1>1, <1>3, <2>1, <2>2, <2>3, ServeTouches
<1>4. ASSUME NEW e \in Databases \ {d}, Serves(e)
      PROVE  /\ operation'[d] = operation[d] /\ socket_state'[d] = socket_state[d]
             /\ current_action'[d] = current_action[d]
  BY <1>4, ServeTouches
<1>5. CASE Serves(d)
  <2>1. Active(d) \in Actions
    BY <1>5, RestType DEF Serves
  <2>2. CASE GoesOn(d)
    <3>1. current_action'[d] = Active(d)
      BY <1>5, <2>2, TakePending DEF GoesOn, Serves
    <3> QED
      BY <2>1, <2>2, <3>1 DEF GoesOn, LibraryCall, CallOver, Actions
  <2>3. CASE Settles(d)
    BY <2>3 DEF Settles, CallOver
  <2>4. CASE Ends(d)
    <3>1. CASE CallOver(d)
      BY <3>1 DEF CallOver
    <3>2. CASE UNCHANGED <<started, socket_state, operation>>
               /\ (\/ Active(d) \in has_finished
                   \/ Active(d) \in started /\ socket_state[d] = 0
                   \/ callback # "none" /\ d = open_databases[it])
      <4>1. operation[d] # None => operation[d] = Active(d)
        BY <1>1 DEF Active
      <4>2. operation[d] = None
        BY <1>0, <1>1, <3>2, <4>1 DEF PassOK
      <4> QED
        BY <1>1, <3>2, <4>2
    <3> QED
      BY <2>4, <3>1, <3>2 DEF Ends
  <2> QED
    BY <1>2, <1>5, <2>2, <2>3, <2>4, ServeEffect
<1> QED
  BY <1>0, <1>1, <1>2, <1>3, <1>4, <1>5, LoopStep

(* A promise is not settled while its action waits or may still go on.      *)
LEMMA SettledIsCurrentNext ==
  ASSUME TypeOK, LoopOK, [Next]_vars
  PROVE  SettledIsCurrent'
<1>0. PassOK /\ SettledIsCurrent
  BY DEF LoopOK, ServiceOK, LifetimeOK
<1> SUFFICES ASSUME NEW d \in Databases, NEW r \in Requests, r \in ToSet(Pending(d)'),
                    outcome'[r] # "none"
             PROVE  current_action'[d] = r /\ r \in started' /\ socket_state'[d] = 0
  BY DEF SettledIsCurrent
<1>1. PICK i \in DOMAIN Pending(d)' : Pending(d)'[i] = r
  BY DEF ToSet
<1>2. ~ Joins(d, r)
  BY JoinsFresh DEF Calm, Actions
<1>3. PICK j \in DOMAIN Pending(d) : Pending(d)[j] = r
  BY <1>0, <1>1, <1>2, PendingShift
<1>4. outcome[r] # "none" => current_action[d] = r /\ r \in started /\ socket_state[d] = 0
  BY <1>0, <1>3 DEF SettledIsCurrent, ToSet
<1>5. CASE Calm
  BY <1>4, <1>5 DEF Calm
<1>6. ASSUME NEW e \in Databases \ {d}, Serves(e)
      PROVE  current_action'[d] = r /\ r \in started' /\ socket_state'[d] = 0
  <2>1. r \in Actions /\ r # Active(e)
    BY <1>3, <1>6, ActiveOnce DEF Serves, Actions
  <2> QED
    BY <1>4, <1>6, <2>1, ServeTouches
<1>7. CASE Serves(d)
  <2>1. CASE r # Active(d)
    <3>1. outcome[r] # "none"
      BY <1>7, <2>1, ServeTouches DEF Actions
    <3> QED
      BY <1>4, <2>1, <3>1, ConstantsAssumption DEF Active, ConstantsAssumption, Actions
  <2>2. CASE r = Active(d)
    <3>1. CASE GoesOn(d)
      BY <1>4, <2>2, <3>1 DEF GoesOn, LibraryCall
    <3>2. CASE Settles(d)
      BY <1>7, <2>2, <3>2, TakePending DEF Settles, CallOver, Serves
    <3>3. CASE Ends(d)
      <4>1. Pending(d)' = Tail(Pending(d)) /\ Pending(d) \in Seq(Actions) /\ Pending(d) # <<>>
        BY <1>7, <3>3, RetirePending, PendingFacts DEF Ends, Serves
      <4>2. i \in 1..(Len(Pending(d)) - 1) /\ Pending(d)[i + 1] = r /\ i + 1 \in DOMAIN Pending(d)
        BY <1>1, <4>1, HeadTailProperties, LenProperties
      <4> QED
        BY <1>7, <2>2, <4>2, ActiveOnce DEF Serves
    <3> QED
      BY <1>5, <1>7, <3>1, <3>2, <3>3, ServeEffect
  <2> QED
    BY <2>1, <2>2
<1> QED
  BY <1>0, <1>5, <1>6, <1>7, LoopStep

(* A callback that runs was started by this step, or goes on undisturbed.   *)
LEMMA CallbackStep ==
  ASSUME TypeOK, PassOK, [Next]_vars, callback' # "none"
  PROVE  \/ /\ callback # "none" /\ Calm
            /\ open_databases'[it'] = open_databases[it]
         \/ \E d \in Databases :
              /\ Serves(d) /\ Settles(d) /\ outcome'[Active(d)] # "none"
              /\ d = open_databases'[it']
<1> USE DEF dbVars, actionVars, netVars, luaVars, hookVars
<1>1. CASE callback # "none" /\ Calm /\ it' = it /\ open_databases' = open_databases
  BY <1>1
<1>2. ASSUME NEW d \in Databases, ConnectBegin(d)
      PROVE  callback # "none" /\ Calm /\ open_databases'[it'] = open_databases[it]
  BY <1>2, AppendProperties DEF ConnectBegin, PassOK, TypeOK, Calm
<1>3. CASE \/ \E d \in Databases : Drop(d) \/ Finalize(d) \/ SocketReady(d)
           \/ \E d \in Databases, a \in Requests, k \in {"command", "query"} : Submit(d, a, k)
           \/ \E S \in SUBSET Databases : Collect(S)
           \/ ConnectEnd
  BY <1>1, <1>3 DEF Drop, Finalize, SocketReady, Submit, Collect, ConnectEnd,
     ConnectTypeError, ConnectInsert, ConnectInsertError, Calm
<1>4. ASSUME NEW d \in Databases, Visiting(d), Busy(d), RunTick(d)
      PROVE  \/ TickReject(d, Active(d))
             \/ \E result \in {"resolved", "rejected"} : TickFinish(d, Active(d), result)
  BY <1>4 DEF Visiting, RunTick, TickSuspend, TickWait, TickStage, TickConnectLost,
     TickClose, TickFree, TickOutOfSync, Abort
<1>5. ASSUME NEW d \in Databases, Visiting(d), Busy(d), RunTick(d)
      PROVE  /\ Serves(d) /\ Settles(d) /\ outcome'[Active(d)] # "none"
             /\ d = open_databases'[it']
  <2>0. Active(d) \in Actions
    BY <1>5, RestType
  <2> USE ConstantsAssumption, <2>0 DEF ConstantsAssumption, Actions, Settles, LibraryCall,
      CallOver, Polled, Completed, KindOf, TypeOK
  <2>1. CASE TickReject(d, Active(d))
    BY <1>5, <2>1, SMTT(30) DEF TickReject, Serves, Visiting
  <2>2. CASE \E result \in {"resolved", "rejected"} : TickFinish(d, Active(d), result)
    BY <1>5, <2>2, SMTT(30) DEF TickFinish, Serves, Visiting
  <2> QED
    BY <1>4, <1>5, <2>1, <2>2
<1>6. CASE \E d \in Databases : Visiting(d) /\ (DeleteDatabase(d) \/ SkipDatabase(d))
  BY <1>6 DEF Visiting, DeleteDatabase, SkipDatabase
<1>7. CASE CallbackReturn \/ CallbackError
  BY <1>7 DEF CallbackReturn, CallbackError, Abort
<1>8. CASE TickHook \/ TickHookEnd \/ ShutdownHook \/ ShutdownRepeat \/ CloseAll
  BY <1>8 DEF TickHook, TickHookEnd, ShutdownHook, ShutdownRepeat, CloseAll, PassOver,
     PassOK
<1>9. CASE UNCHANGED vars
  BY <1>1, <1>9 DEF vars, Calm
<1> QED
  BY <1>2, <1>3, <1>5, <1>6, <1>7, <1>8, <1>9
  DEF Next, LuaCode, Collector, Hooks, TickHookTick, Terminated

(* A promise that is settled stays settled.                                 *)
LEMMA OutcomeStays ==
  ASSUME TypeOK, LoopOK, [Next]_vars, NEW r \in Requests, outcome[r] # "none"
  PROVE  outcome'[r] # "none"
<1>1. PassOK
  BY DEF LoopOK, LifetimeOK
<1>2. ASSUME NEW d \in Databases, Serves(d) PROVE outcome'[r] # "none"
  <2>1. CASE r # Active(d)
    BY <1>2, <2>1, ServeTouches DEF Actions
  <2>2. CASE r = Active(d)
    BY <1>2, <2>2, ServeEffect DEF Calm, GoesOn, Settles, Ends
  <2> QED
    BY <2>1, <2>2
<1> QED
  BY <1>1, <1>2, LoopStep DEF Calm

(* An owed call that is about to be freed has been answered.                *)
LEMMA SettledBeforeFreeNext ==
  ASSUME TypeOK, LoopOK, [Next]_vars
  PROVE  SettledBeforeFree'
<1>0. PassOK /\ UnusedUntouched /\ SettledBeforeFree
  BY DEF LoopOK, ServiceOK, LifetimeOK
<1> USE ConstantsAssumption DEF ConstantsAssumption
<1>1. ASSUME NEW r \in Requests, r \in has_finished', kind'[r] \in {"command", "query"}
      PROVE  outcome'[r] # "none"
  <2>1. CASE Calm
    <3>1. r \in has_finished
      BY <1>1, <2>1 DEF Calm
    <3>2. kind[r] # "unused"
      BY <1>0, <3>1 DEF UnusedUntouched
    <3>3. kind'[r] = kind[r]
      BY <3>2, KindNext
    <3> QED
      BY <1>0, <1>1, <3>1, <3>3, OutcomeStays DEF SettledBeforeFree
  <2>2. ASSUME NEW d \in Databases, Serves(d) PROVE outcome'[r] # "none"
    <3>1. kind'[r] = kind[r]
      BY <2>2, ServeTouches
    <3>2. CASE r \in has_finished
      BY <1>0, <1>1, <3>1, <3>2, OutcomeStays DEF SettledBeforeFree
    <3>3. CASE r \notin has_finished
      <4>1. r = Active(d)
        BY <1>1, <2>2, <3>3, ServeTouches DEF Actions
      <4>2. CASE Settles(d)
        BY <1>1, <3>1, <4>1, <4>2 DEF Settles
      <4>3. CASE Ends(d)
        <5>1. \/ r \in started /\ socket_state[d] = 0
              \/ callback # "none" /\ d = open_databases[it] /\ current_action[d] = r
          BY <3>3, <4>1, <4>3 DEF Ends
        <5>2. CASE r \in started /\ socket_state[d] = 0
          <6>1. current_action[d] = r
            BY <1>0, <2>2, <4>1, <5>2 DEF UnusedUntouched, Active, Serves
          <6>2. outcome[r] # "none"
            BY <1>0, <3>3, <5>2, <6>1 DEF SettledBeforeFree
          <6> QED
            BY <6>2, OutcomeStays
        <5>3. CASE callback # "none" /\ d = open_databases[it] /\ current_action[d] = r
          <6>1. outcome[r] # "none"
            BY <1>0, <5>3 DEF SettledBeforeFree
          <6> QED
            BY <6>1, OutcomeStays
        <5> QED
          BY <5>1, <5>2, <5>3
      <4>4. ~ GoesOn(d) /\ ~ Calm
        BY <1>1, <3>3 DEF GoesOn, Calm
      <4> QED
        BY <2>2, <4>2, <4>3, <4>4, ServeEffect
    <3> QED
      BY <3>2, <3>3
  <2> QED
    BY <1>0, <2>1, <2>2, LoopStep
<1>2. ASSUME NEW d \in Databases, socket_state'[d] = 0,
             current_action'[d] \in (Requests \cap started') \ has_finished'
      PROVE  outcome'[current_action'[d]] # "none"
  <2>1. ASSUME current_action'[d] = current_action[d], socket_state'[d] = socket_state[d],
               current_action[d] \in started \ has_finished
        PROVE  outcome'[current_action'[d]] # "none"
    BY <1>0, <1>2, <2>1, OutcomeStays DEF SettledBeforeFree
  <2>2. CASE Calm
    BY <1>2, <2>1, <2>2 DEF Calm
  <2>3. ASSUME NEW e \in Databases \ {d}, Serves(e) PROVE outcome'[current_action'[d]] # "none"
    <3>1. /\ current_action'[d] = current_action[d] /\ socket_state'[d] = socket_state[d]
          /\ current_action[d] \in Actions /\ current_action[d] # None
      BY <1>2, <2>3, ServeTouches DEF Actions
    <3>2. current_action[d] # Active(e)
      BY <2>3, <3>1, ActiveOnce, PendingFacts DEF Serves
    <3>3. current_action[d] \in started \ has_finished
      BY <1>2, <2>3, <3>1, <3>2, ServeTouches
    <3> QED
      BY <2>1, <3>1, <3>3
  <2>4. CASE Serves(d)
    <3>1. CASE GoesOn(d) \/ Settles(d)
      <4>1. current_action'[d] = Active(d)
        BY <2>4, <3>1, TakePending DEF GoesOn, Settles, Serves
      <4> QED
        BY <1>2, <3>1, <4>1 DEF GoesOn, Settles
    <3>2. CASE Ends(d)
      <4>1. current_action'[d] = None
        BY <2>4, <3>2, RetirePending DEF Ends, Serves
      <4> QED
        BY <1>2, <4>1 DEF Actions
    <3> QED
      BY <2>2, <2>4, <3>1, <3>2, ServeEffect
  <2> QED
    BY <1>0, <2>2, <2>3, <2>4, LoopStep
<1>3. ASSUME callback' # "none"
      PROVE  /\ current_action'[open_databases'[it']] \in Requests
             /\ outcome'[current_action'[open_databases'[it']]] # "none"
  <2>1. CASE callback # "none" /\ Calm /\ open_databases'[it'] = open_databases[it]
    BY <1>0, <2>1, OutcomeStays DEF SettledBeforeFree, Calm
  <2>2. ASSUME NEW d \in Databases, Serves(d), Settles(d), outcome'[Active(d)] # "none",
               d = open_databases'[it']
        PROVE  /\ current_action'[open_databases'[it']] \in Requests
               /\ outcome'[current_action'[open_databases'[it']]] # "none"
    <3>1. current_action'[d] = Active(d)
      BY <2>2, TakePending DEF Settles, Serves
    <3> QED
      BY <2>2, <3>1 DEF Settles
  <2> QED
    BY <1>0, <1>3, <2>1, <2>2, CallbackStep
<1> QED
  BY <1>1, <1>2, <1>3 DEF SettledBeforeFree

-----------------------------------------------------------------------------
(* Handles and the deque of databases                                       *)

(* A handle is freed by the CloseAction of its database, or with all.       *)
LEMMA ClosedStep ==
  ASSUME TypeOK, LoopOK, [Next]_vars, NEW d \in closed', d \notin closed
  PROVE  \/ d \in gced /\ Serves(d) /\ Ends(d) /\ Active(d) = d
         \/ CloseAll /\ d \in ToSet(open_databases)
<1> USE DEF dbVars, actionVars, netVars, luaVars, hookVars
<1>1. CASE UNCHANGED closed
  BY <1>1
<1>2. CASE LuaCode \/ ConnectEnd \/ Collector \/ \E e \in Databases : SocketReady(e)
  BY <1>1, <1>2 DEF LuaCode, ConnectBegin, Drop, Submit, ConnectEnd, ConnectTypeError,
     ConnectInsert, ConnectInsertError, Collector, Collect, Finalize, SocketReady
<1>3. ASSUME NEW e \in Databases, Visiting(e), Busy(e), RunTick(e)
      PROVE  d \in gced /\ Serves(d) /\ Ends(d) /\ Active(d) = d
  <2>1. TickClose(e, Active(e)) /\ d = e
    BY <1>3 DEF RunTick, TickSuspend, TickWait, TickStage, TickReject, TickFinish,
       TickConnectLost, TickClose, TickFree, TickOutOfSync
  <2>2. Active(d) \in Databases
    <3>1. Active(d) \in Actions /\ KindOf(Active(d)) = "close"
      BY <1>3, <2>1, RestType DEF TickClose
    <3> QED
      BY <3>1 DEF KindOf, Actions, TypeOK
  <2>3. Active(d) = d /\ d \in gced
    BY <1>3, <2>1, <2>2, ActiveOnce
  <2>4. Serves(d) /\ Ends(d)
    BY <1>3, <2>1, <2>2 DEF Serves, Ends, TickClose, Completed, CallOver, TypeOK
  <2> QED
    BY <2>3, <2>4
<1>4. CASE \/ \E e \in Databases : DeleteDatabase(e) \/ SkipDatabase(e)
           \/ CallbackReturn \/ CallbackError
           \/ TickHook \/ TickHookEnd \/ ShutdownHook \/ ShutdownRepeat
  BY <1>1, <1>4 DEF DeleteDatabase, SkipDatabase, CallbackReturn, CallbackError,
     TickHook, TickHookEnd, ShutdownHook, ShutdownRepeat
<1>5. CASE CloseAll
  BY <1>5 DEF CloseAll
<1>6. CASE UNCHANGED vars
  BY <1>1, <1>6 DEF vars
<1> QED
  BY <1>2, <1>3, <1>4, <1>5, <1>6 DEF Next, Hooks, TickHookTick, Terminated

(* Only the end of the ShutDown hook disarms the finalizers.                *)
LEMMA CleanedUpStep ==
  ASSUME [Next]_vars, HasCleanedUpAlready'
  PROVE  HasCleanedUpAlready \/ CloseAll
<1> USE DEF dbVars, actionVars, netVars, luaVars, hookVars
<1>1. CASE UNCHANGED HasCleanedUpAlready
  BY <1>1
<1>2. CASE LuaCode \/ ConnectEnd \/ Collector \/ \E d \in Databases : SocketReady(d)
  BY <1>1, <1>2 DEF LuaCode, ConnectBegin, Drop, Submit, ConnectEnd, ConnectTypeError,
     ConnectInsert, ConnectInsertError, Collector, Collect, Finalize, SocketReady
<1>3. CASE \E d \in Databases : RunTick(d)
  BY <1>1, <1>3 DEF RunTick, TickSuspend, TickWait, TickStage, TickReject, TickFinish,
     TickConnectLost, TickClose, TickFree, TickOutOfSync, Advance, Abort
<1>4. CASE \/ \E d \in Databases : DeleteDatabase(d) \/ SkipDatabase(d)
           \/ CallbackReturn \/ CallbackError
           \/ TickHook \/ TickHookEnd \/ ShutdownHook \/ ShutdownRepeat
  BY <1>1, <1>4 DEF DeleteDatabase, SkipDatabase, CallbackReturn, CallbackError, Advance,
     Abort, TickHook, TickHookEnd, ShutdownHook, ShutdownRepeat
<1>5. CASE UNCHANGED vars
  BY <1>1, <1>5 DEF vars
<1> QED
  BY <1>2, <1>3, <1>4, <1>5 DEF Next, Hooks, TickHookTick, Terminated

(* A constructor runs for the userdata it has just created.                 *)
LEMMA CallStep ==
  ASSUME TypeOK, [Next]_vars, call' # None
  PROVE  call' = call \/ (call' \in Databases /\ userdata'[call'] = "live")
<1> USE DEF luaVars
<1>1. CASE UNCHANGED call
  BY <1>1
<1>2. ASSUME NEW d \in Databases, ConnectBegin(d)
      PROVE  call' \in Databases /\ userdata'[call'] = "live"
  BY <1>2 DEF ConnectBegin, TypeOK
<1>3. CASE ConnectEnd
  BY <1>3 DEF ConnectEnd, ConnectTypeError, ConnectInsert, ConnectInsertError
<1>4. CASE \/ \E d \in Databases : Drop(d) \/ SocketReady(d)
           \/ \E d \in Databases, a \in Requests, k \in {"command", "query"} : Submit(d, a, k)
           \/ Collector
  BY <1>1, <1>4 DEF Drop, SocketReady, Submit, Collector, Collect, Finalize
<1>5. CASE \E d \in Databases : RunTick(d)
  BY <1>1, <1>5 DEF RunTick, TickSuspend, TickWait, TickStage, TickReject, TickFinish,
     TickConnectLost, TickClose, TickFree, TickOutOfSync
<1>6. CASE \/ \E d \in Databases : DeleteDatabase(d) \/ SkipDatabase(d)
           \/ CallbackReturn \/ CallbackError
           \/ TickHook \/ TickHookEnd \/ ShutdownHook \/ ShutdownRepeat \/ CloseAll
  BY <1>1, <1>6 DEF DeleteDatabase, SkipDatabase, CallbackReturn, CallbackError,
     TickHook, TickHookEnd, ShutdownHook, ShutdownRepeat, CloseAll
<1>7. CASE UNCHANGED vars
  BY <1>1, <1>7 DEF vars
<1> QED
  BY <1>2, <1>3, <1>4, <1>5, <1>6, <1>7 DEF Next, LuaCode, Hooks, TickHookTick, Terminated

(* A freed handle belongs to a database no call can reach any more.         *)
LEMMA ClosedForGoodNext ==
  ASSUME TypeOK, LoopOK, [Next]_vars
  PROVE  ClosedForGood'
<1>0. PassOK /\ ClosedForGood
  BY DEF LoopOK, ServiceOK, LifetimeOK
<1>1. ASSUME NEW d \in closed' PROVE d \in gced' \/ HasCleanedUpAlready'
  <2>1. CASE CloseAll /\ d \in ToSet(open_databases)
    <3>1. open_databases # <<>>
      BY <2>1 DEF ToSet
    <3> QED
      BY <2>1, <3>1 DEF CloseAll
  <2>2. gced \subseteq gced'
    BY GcedStep
  <2> QED
    BY <1>0, <2>1, <2>2, ClosedStep, CleanedUpStays DEF ClosedForGood
<1>2. HasCleanedUpAlready' => mode' = "down"
  BY <1>0, CleanedUpStep, DownStays DEF ClosedForGood, CloseAll, StartPass
<1>3. ASSUME call' # None PROVE userdata'[call'] # "none"
  <2>1. CASE call' = call
    <3>1. call \in Databases /\ userdata[call] # "none"
      BY <1>0, <1>3, <2>1 DEF ClosedForGood, TypeOK
    <3> QED
      BY <2>1, <3>1, UserdataStep
  <2> QED
    BY <1>3, <2>1, CallStep
<1> QED
  BY <1>1, <1>2, <1>3 DEF ClosedForGood

(* Only a visit that finds it idle, or the end of ShutDown, deletes a       *)
(* database.                                                                *)
LEMMA OpenKeeps ==
  ASSUME TypeOK, [Next]_vars, NEW d \in ToSet(open_databases)
  PROVE  \/ d \in ToSet(open_databases')
         \/ ~ Busy(d) /\ UNCHANGED <<current_action, queue>>
         \/ CloseAll
<1> USE DEF dbVars, actionVars, netVars, luaVars, hookVars
<1>1. CASE UNCHANGED open_databases
  BY <1>1
<1>2. ASSUME NEW e \in Databases, ConnectBegin(e) PROVE d \in ToSet(open_databases')
  <2>1. open_databases \in Seq(Databases) /\ open_databases' = Append(open_databases, e)
    BY <1>2 DEF ConnectBegin, TypeOK
  <2>2. PICK i \in 1..Len(open_databases) : open_databases[i] = d
    BY <2>1, LenProperties DEF ToSet
  <2>3. i \in DOMAIN open_databases' /\ open_databases'[i] = d
    BY <2>1, <2>2, AppendProperties
  <2> QED
    BY <2>3 DEF ToSet
<1>3. CASE \/ \E e \in Databases : Drop(e) \/ SocketReady(e) \/ RunTick(e)
           \/ \E e \in Databases, a \in Requests, k \in {"command", "query"} : Submit(e, a, k)
           \/ Collector \/ ConnectEnd
  BY <1>1, <1>3 DEF Drop, SocketReady, Submit, Collector, Collect, Finalize, ConnectEnd,
     ConnectTypeError, ConnectInsert, ConnectInsertError, RunTick, TickSuspend, TickWait,
     TickStage, TickReject, TickFinish, TickConnectLost, TickClose, TickFree, TickOutOfSync
<1>4. ASSUME NEW e \in Databases, Visiting(e), ~ Busy(e), DeleteDatabase(e)
      PROVE  \/ d \in ToSet(open_databases')
             \/ ~ Busy(d) /\ UNCHANGED <<current_action, queue>>
  <2>1. /\ open_databases \in Seq(Databases) /\ it \in 1..Len(open_databases)
        /\ e = open_databases[it]
        /\ open_databases' = RemoveAt(open_databases, it)
        /\ UNCHANGED <<current_action, queue>>
    BY <1>4 DEF Visiting, DeleteDatabase, TypeOK
  <2> QED
    BY <1>4, <2>1, RemoveAtKeeps
<1>5. CASE \/ \E e \in Databases : SkipDatabase(e)
           \/ CallbackReturn \/ CallbackError
           \/ TickHook \/ TickHookEnd \/ ShutdownHook \/ ShutdownRepeat
  BY <1>1, <1>5 DEF SkipDatabase, CallbackReturn, CallbackError,
     TickHook, TickHookEnd, ShutdownHook, ShutdownRepeat
<1>6. CASE UNCHANGED vars
  BY <1>1, <1>6 DEF vars
<1> QED
  BY <1>2, <1>3, <1>4, <1>5, <1>6 DEF Next, LuaCode, Hooks, TickHookTick, Terminated

(* A call can only be made on a database that is open, with its handle.     *)
LEMMA JoinsOpen ==
  ASSUME TypeOK, LoopOK, NEW d \in Databases, NEW a \in Actions, Joins(d, a)
  PROVE  d \notin closed /\ d \in ToSet(open_databases)
<1>0. /\ PassOK /\ ReachableIsLive /\ GcedIsFinalized /\ NoDanglingFinalizer
      /\ ClosedForGood
  BY DEF LoopOK, ServiceOK, LifetimeOK
<1>1. userdata[d] \in {"live", "cleared"} /\ ~ HasCleanedUpAlready
  <2>1. ASSUME NEW k \in {"command", "query"}, Submit(d, a, k)
        PROVE  userdata[d] \in {"live", "cleared"} /\ ~ HasCleanedUpAlready
    BY <1>0, <2>1 DEF Submit, LuaRuns, PassOK, ReachableIsLive, ClosedForGood
  <2>2. CASE call = d /\ ConnectInsert(a)
    <3>1. d # None
      BY ConstantsAssumption DEF ConstantsAssumption, Actions
    <3> QED
      BY <1>0, <2>2, <3>1 DEF ConnectInsert, PassOK, ClosedForGood, TypeOK
  <2>3. CASE Finalize(d) /\ ~ HasCleanedUpAlready
    BY <2>3 DEF Finalize
  <2> QED
    BY <2>1, <2>2, <2>3 DEF Joins
<1>2. d \notin gced
  BY <1>0, <1>1 DEF GcedIsFinalized
<1> QED
  BY <1>0, <1>1, <1>2 DEF ClosedForGood, NoDanglingFinalizer

(* When the ShutDown hook closes the databases, none has work left.         *)
LEMMA DrainedAtEnd ==
  ASSUME TypeOK, LoopOK, mode = "shutdown", PassOver, ~ unready,
         NEW d \in ToSet(open_databases)
  PROVE  /\ d \in Databases /\ ~ Busy(d) /\ d \notin gced /\ d \notin closed
         /\ Pending(d) = <<>>
<1>1. PICK i \in 1..Len(open_databases) : open_databases[i] = d
  BY LenProperties DEF ToSet, TypeOK
<1>2. i < it /\ d \in Databases
  BY <1>1, LenProperties, ElementOfSeq DEF PassOver, TypeOK
<1>3. ~ Busy(d) /\ d \notin gced
  BY <1>1, <1>2 DEF LoopOK, ServiceOK, PassDrained, PassOver
<1>4. d \notin closed
  BY <1>3 DEF LoopOK, ServiceOK, ClosedForGood
<1> QED
  BY <1>2, <1>3, <1>4, PendingFacts

(* Pending work keeps its database and its handle.                          *)
LEMMA OpenHandleNext ==
  ASSUME TypeOK, LoopOK, [Next]_vars
  PROVE  PendingOnOpenHandle'
<1>0. PassOK /\ PendingOnOpenHandle
  BY DEF LoopOK, ServiceOK, LifetimeOK
<1> SUFFICES ASSUME NEW d \in Databases, Pending(d)' # <<>>
             PROVE  d \notin closed' /\ d \in ToSet(open_databases')
  BY DEF PendingOnOpenHandle
<1>1. d \notin closed /\ d \in ToSet(open_databases)
  <2>1. CASE Pending(d) # <<>>
    BY <1>0, <2>1 DEF PendingOnOpenHandle
  <2>2. CASE Pending(d) = <<>>
    <3>1. ~ Retired(d)
      BY <2>2, PendingFacts DEF Retired
    <3> QED
      BY <1>0, <2>2, <3>1, PendingStep, JoinsOpen
  <2> QED
    BY <2>1, <2>2
<1>2. ASSUME ~ Busy(d), UNCHANGED <<current_action, queue>> PROVE FALSE
  BY <1>2, PendingFacts DEF Pending
<1>3. ~ CloseAll
  <2> SUFFICES ASSUME CloseAll PROVE FALSE
    OBVIOUS
  <2>1. ~ Busy(d)
    BY <1>1, DrainedAtEnd DEF CloseAll
  <2> QED
    BY <1>2, <2>1 DEF CloseAll
<1>4. ~ (d \in gced /\ Serves(d) /\ Ends(d) /\ Active(d) = d)
  <2> SUFFICES ASSUME Serves(d), Ends(d), Active(d) = d PROVE FALSE
    OBVIOUS
  <2>1. Pending(d)' = Tail(Pending(d)) /\ Busy(d)
    BY RetirePending DEF Serves, Ends
  <2>2. CASE current_action[d] = d
    <3>1. queue[d] = <<>> /\ d # None
      BY <2>2, ConstantsAssumption
      DEF LoopOK, LifetimeOK, CloseEndsQueue, ConstantsAssumption, Actions
    <3>2. queue'[d] = <<>> /\ current_action'[d] = None
      BY <2>1, <2>2, <3>1, RetirePending DEF Ends, Retire, Rest, TypeOK
    <3> QED
      BY <3>2 DEF Pending
  <2>3. CASE current_action[d] # d
    <3>1. current_action[d] = None /\ queue[d] # <<>> /\ Head(queue[d]) = d
      BY <2>1, <2>3 DEF Active, Busy
    <3>2. queue[d] \in Seq(Actions) /\ Len(queue[d]) = 1
      <4>1. /\ queue[d] \in Seq(Actions) /\ 1 \in 1..Len(queue[d]) /\ queue[d][1] = d
        BY <3>1, EmptySeq DEF TypeOK
      <4> QED
        BY <4>1 DEF LoopOK, LifetimeOK, CloseEndsQueue
    <3>3. Tail(queue[d]) \in Seq(Actions) /\ Len(Tail(queue[d])) = 0
      BY <3>1, <3>2, HeadTailProperties
    <3> QED
      BY <2>1, <3>1, <3>3, EmptySeq DEF Pending
  <2> QED
    BY <2>2, <2>3
<1> QED
  BY <1>1, <1>2, <1>3, <1>4, OpenKeeps, ClosedStep

(* Erasing an element of the deque leaves those before it in their places.  *)
LEMMA RemoveAtBefore ==
  ASSUME NEW S, NEW s \in Seq(S), NEW i \in 1..Len(s), NEW j \in 1..(i - 1)
  PROVE  j \in 1..Len(s) /\ RemoveAt(s, i)[j] = s[j]
<1> DEFINE front == SubSeq(s, 1, i - 1)
           back  == SubSeq(s, i + 1, Len(s))
<1>1. Len(s) \in Nat
  BY LenProperties
<1>2. front \in Seq(S) /\ Len(front) = i - 1 /\ \A k \in 1..(i - 1) : front[k] = s[k]
  BY <1>1, SubSeqProperties, ElementOfSeq
<1>3. back \in Seq(S) /\ Len(back) \in Nat
  BY <1>1, SubSeqProperties, ElementOfSeq, LenProperties
<1> HIDE DEF front, back
<1>4. j \in 1..(Len(front) + Len(back)) /\ j <= Len(front)
  BY <1>1, <1>2, <1>3
<1>5. (front \o back)[j] = front[j]
  BY <1>2, <1>3, <1>4, ConcatProperties
<1>6. RemoveAt(s, i) = front \o back
  BY DEF RemoveAt, front, back
<1>7. j \in 1..Len(s)
  BY <1>1
<1> QED
  BY <1>2, <1>5, <1>6, <1>7

(* Nothing refills a database the ShutDown pass has gone past idle.         *)
LEMMA PassDrainedNext ==
  ASSUME TypeOK, LoopOK, [Next]_vars
  PROVE  PassDrained'
<1>0. PassOK /\ PassDrained
  BY DEF LoopOK, ServiceOK, LifetimeOK
<1> SUFFICES ASSUME mode' = "shutdown", ~ unready', callback' = "none",
                    NEW i \in 1..Len(open_databases'), i < it'
             PROVE  ~ Busy(open_databases[i])' /\ open_databases'[i] \notin gced'
  BY DEF PassDrained
<1> USE DEF dbVars, actionVars, netVars, luaVars, hookVars
<1> DEFINE Quiet == mode = "shutdown" /\ ~ unready /\ callback = "none"
                    /\ UNCHANGED <<current_action, queue, gced>>
<1>1. ASSUME Quiet, i \in 1..Len(open_databases), open_databases'[i] = open_databases[i], i < it
      PROVE  ~ Busy(open_databases[i])' /\ open_databases'[i] \notin gced'
  BY <1>0, <1>1 DEF PassDrained, Busy
<1>2. CASE LuaCode \/ ConnectEnd \/ Collector
  BY <1>0, <1>2 DEF LuaCode, ConnectBegin, Drop, Submit, LuaRuns, ConnectEnd, ConnectTypeError,
     ConnectInsert, ConnectInsertError, Collector, Collect, Finalize, CollectorRuns, PassOK
<1>3. CASE (\E d \in Databases : SocketReady(d)) \/ UNCHANGED vars
  BY <1>1, <1>3 DEF SocketReady, vars
<1>4. ASSUME NEW d \in Databases, Visiting(d), RunTick(d) PROVE FALSE
  BY <1>4 DEF Visiting, RunTick, TickSuspend, TickWait, TickStage, TickReject, TickFinish,
     TickConnectLost, TickClose, TickFree, TickOutOfSync, Advance, Abort
<1>5. ~ CallbackReturn /\ ~ CallbackError
  BY DEF CallbackReturn, CallbackError, Advance, Abort
<1>6. ASSUME NEW d \in Databases, Visiting(d), ~ Busy(d), SkipDatabase(d)
      PROVE  ~ Busy(open_databases[i])' /\ open_databases'[i] \notin gced'
  <2>1. Quiet /\ it' = it + 1 /\ open_databases' = open_databases
        /\ d = open_databases[it] /\ d \notin gced
    BY <1>6 DEF SkipDatabase, Visiting
  <2>2. CASE i = it
    BY <1>6, <2>1, <2>2 DEF Busy
  <2>3. CASE i # it
    <3>1. i < it /\ i \in 1..Len(open_databases)
      BY <2>1, <2>3 DEF TypeOK
    <3> QED
      BY <1>1, <2>1, <3>1
  <2> QED
    BY <2>2, <2>3
<1>7. ASSUME NEW d \in Databases, Visiting(d), ~ Busy(d), DeleteDatabase(d)
      PROVE  ~ Busy(open_databases[i])' /\ open_databases'[i] \notin gced'
  <2>1. /\ Quiet /\ it' = it /\ open_databases' = RemoveAt(open_databases, it)
        /\ open_databases \in Seq(Databases) /\ it \in 1..Len(open_databases)
    BY <1>7 DEF DeleteDatabase, Visiting, TypeOK
  <2>2. i \in 1..(it - 1)
    BY <2>1
  <2>3. i \in 1..Len(open_databases) /\ open_databases'[i] = open_databases[i]
    BY <2>1, <2>2, RemoveAtBefore
  <2> QED
    BY <1>1, <2>1, <2>3
<1>8. ~ (TickHook \/ TickHookEnd \/ ShutdownHook \/ ShutdownRepeat \/ CloseAll)
  BY DEF TickHook, TickHookEnd, ShutdownHook, ShutdownRepeat, CloseAll, StartPass
<1> QED
  BY <1>2, <1>3, <1>4, <1>5, <1>6, <1>7, <1>8
  DEF Next, Hooks, TickHookTick, Terminated

-----------------------------------------------------------------------------
(* The theorems                                                             *)

(* Before the first mysql.connect the invariant of the service holds.       *)
LEMMA ServiceInit == Init => ServiceOK
<1> SUFFICES ASSUME Init PROVE ServiceOK
  OBVIOUS
<1>1. ASSUME NEW d \in Databases
      PROVE  Pending(d) = <<>> /\ DOMAIN Pending(d) = {} /\ Len(Pending(d)) = 0 /\ ~ Busy(d)
  BY DEF Init, Pending, Busy
<1>2. QueuedOnce /\ UnusedUntouched /\ PendingOnOpenHandle
  BY <1>1 DEF Init, QueuedOnce, UnusedUntouched, PendingOnOpenHandle
<1>3. OneOperation /\ ClosedForGood /\ PassDrained
  BY DEF Init, OneOperation, ClosedForGood, PassDrained
<1>4. SettledIsCurrent /\ SettledBeforeFree
  BY ConstantsAssumption
  DEF Init, SettledIsCurrent, SettledBeforeFree, ConstantsAssumption, Actions
<1> QED
  BY <1>2, <1>3, <1>4 DEF ServiceOK

(* The inductive invariant of the event loop: the lifetime of databases and *)
(* the service they give, together.                                         *)
THEOREM LoopCorrect == Spec => [](TypeOK /\ LoopOK)
<1>1. Init => TypeOK /\ LoopOK
  BY TypeInit, LifetimeInit, ServiceInit DEF TypeInv, LoopOK
<1>2. TypeOK /\ LoopOK /\ [Next]_vars => (TypeOK /\ LoopOK)'
  <2> SUFFICES ASSUME TypeOK, LoopOK, [Next]_vars PROVE (TypeOK /\ LoopOK)'
    OBVIOUS
  <2>1. LifetimeOK /\ PassOK
    BY DEF LoopOK, LifetimeOK
  <2>2. TypeOK' /\ PassOK'
    BY <2>1, TypeNext, PassNext
  <2>3. LifetimeOK'
    BY <2>1, <2>2, ReachableNext, GcedNext, CloseEndsQueueNext, PinsHoldNext, NoDanglingNext
    DEF LifetimeOK
  <2>4. ServiceOK'
    BY QueuedOnceNext, UnusedNext, OneOperationNext, SettledIsCurrentNext,
       SettledBeforeFreeNext, ClosedForGoodNext, OpenHandleNext, PassDrainedNext
    DEF ServiceOK
  <2> QED
    BY <2>2, <2>3, <2>4 DEF LoopOK
<1> QED
  BY <1>1, <1>2, PTL DEF Spec

(* The library is asked for one operation at a time on each handle, and the *)
(* suspended one is that of the action RunTick will continue.               *)
THEOREM OneAtATime == Spec => []OneOperation
<1>1. LoopOK => OneOperation
  BY DEF LoopOK, ServiceOK
<1> QED
  BY <1>1, LoopCorrect, PTL

(* No action is left without its handle or its database object.             *)
THEOREM HandleOpen == Spec => []PendingOnOpenHandle
<1>1. LoopOK => PendingOnOpenHandle
  BY DEF LoopOK, ServiceOK
<1> QED
  BY <1>1, LoopCorrect, PTL

(* The ShutDown hook closes no database that has work left.                 *)
THEOREM Drained == Spec => []ShutdownDrained
<1>1. TypeOK /\ LoopOK => ShutdownDrained
  BY DrainedAtEnd DEF ShutdownDrained
<1> QED
  BY <1>1, LoopCorrect, PTL

(* An action is begun when all that were queued before it have been freed.  *)
THEOREM InOrder == Spec => BegunInOrder
<1>1. TypeOK /\ LoopOK /\ [Next]_vars =>
        [\A d \in Databases : \A a \in started' \ started :
           a \in ToSet(Pending(d)) => a = Head(Pending(d)) /\ operation[d] = None]_vars
  <2> SUFFICES ASSUME TypeOK, LoopOK, [Next]_vars,
                      NEW d \in Databases, NEW a \in started' \ started,
                      a \in ToSet(Pending(d))
               PROVE  a = Head(Pending(d)) /\ operation[d] = None
    OBVIOUS
  <2>1. PassOK /\ OneOperation
    BY DEF LoopOK, LifetimeOK, ServiceOK
  <2>2. PICK e \in Databases : Serves(e)
    BY <2>1, LoopStep DEF Calm
  <2>3. a = Active(e)
    BY <2>2, ServeTouches, TypeNext, <2>1 DEF TypeOK
  <2>4. e = d
    BY <2>2, <2>3, ActiveOnce DEF Serves, ToSet
  <2>5. a = Head(Pending(d))
    BY <2>2, <2>3, <2>4, PendingFacts DEF Serves
  <2>6. operation[d] = None
    BY <2>1, <2>3, <2>4 DEF OneOperation, Active
  <2> QED
    BY <2>5, <2>6
<1> QED
  BY <1>1, LoopCorrect, PTL DEF Spec, BegunInOrder

-----------------------------------------------------------------------------
(* Every step of the event loop is a step of the service, or a stutter      *)

(* A step of the service queues a call, works on one, or is not seen.       *)
LEMMA ServiceCases ==
  ASSUME TypeOK, PassOK, [Next]_vars
  PROVE  \/ UNCHANGED <<current_action, queue, outcome, kind, gced>>
         \/ \E d \in Databases : Serves(d) \/ Finalize(d)
         \/ \E d \in Databases, a \in Requests, k \in {"command", "query"} : Submit(d, a, k)
         \/ \E a \in Requests : ConnectInsert(a)
<1> USE DEF dbVars, actionVars, netVars, luaVars, hookVars
<1>1. CASE \/ \E d \in Databases : ConnectBegin(d) \/ Drop(d) \/ SocketReady(d)
           \/ \E S \in SUBSET Databases : Collect(S)
           \/ ConnectTypeError \/ ConnectInsertError
  BY <1>1 DEF ConnectBegin, Drop, SocketReady, Collect, ConnectTypeError, ConnectInsertError
<1>2. CASE \/ \E d \in Databases : DeleteDatabase(d) \/ SkipDatabase(d)
           \/ CallbackError
           \/ TickHook \/ TickHookEnd \/ ShutdownHook \/ ShutdownRepeat \/ CloseAll
  BY <1>2 DEF DeleteDatabase, SkipDatabase, CallbackError,
     TickHook, TickHookEnd, ShutdownHook, ShutdownRepeat, CloseAll
<1>3. ASSUME NEW d \in Databases, Visiting(d), Busy(d), RunTick(d) PROVE Serves(d)
  BY <1>3 DEF Serves
<1>4. CASE CallbackReturn
  BY <1>4 DEF CallbackReturn, PassOK, TypeOK, Serves, Busy, Active
<1>5. CASE UNCHANGED vars
  BY <1>5 DEF vars
<1> QED
  BY <1>1, <1>2, <1>3, <1>4, <1>5
  DEF Next, LuaCode, ConnectEnd, Collector, Hooks, TickHookTick, Terminated

(* A call made from Lua, a connect and a CloseAction are accepted.          *)
LEMMA AcceptStep ==
  ASSUME TypeOK, LoopOK, [Next]_vars, NEW d \in Databases, NEW a \in Actions, Joins(d, a),
         \A e \in Databases : Pending(e)' = IF e = d THEN Append(Pending(d), a) ELSE Pending(e),
         \/ a \in Requests /\ gced' = gced /\ \E k : kind' = [kind EXCEPT ![a] = k]
         \/ kind' = kind
  PROVE  Service!Accept(d, a)
<1> USE ConstantsAssumption DEF ConstantsAssumption, Actions
<1>1. /\ Calm /\ (a \in Databases => a = d /\ a \notin gced /\ a \in gced')
      /\ a \in Requests => kind[a] = "unused" /\ kind'[a] # "unused"
  BY JoinsFresh
<1> DEFINE acc == {r \in Requests : kind[r] # "unused"} \cup gced
           own == {r \in Requests : kind[r] \in {"command", "query"}}
           pen == [e \in Databases |-> Pending(e)]
           ans == [x \in Actions |-> IF x \in Databases THEN "none" ELSE outcome[x]]
<1>2. a \notin acc
  BY <1>1 DEF TypeOK
<1>3. acc' = acc \cup {a} /\ own' \in {own, own \cup {a}}
  <2>1. CASE a \in Requests
    <3>1. PICK k : kind' = [kind EXCEPT ![a] = k] /\ gced' = gced
      BY <1>1, <2>1 DEF Joins
    <3>2. k # "unused" /\ kind[a] = "unused" /\ kind \in [Requests -> {"unused", "connect", "command", "query"}]
      BY <1>1, <2>1, <3>1 DEF TypeOK
    <3> QED
      BY <2>1, <3>1, <3>2
  <2>2. CASE a \in Databases
    <3>1. kind' = kind /\ gced' = gced \cup {a}
      BY <2>2 DEF Joins
    <3> QED
      BY <3>1
  <2> QED
    BY <2>1, <2>2
<1>4. pen' = [pen EXCEPT ![d] = Append(pen[d], a)]
  OBVIOUS
<1>5. ans' = ans
  BY <1>1 DEF Calm
<1> QED
  BY <1>2, <1>3, <1>4, <1>5 DEF Service!Accept

(* Settling a promise answers the oldest call; freeing an action ends it.   *)
LEMMA ServeStep ==
  ASSUME TypeOK, LoopOK, [Next]_vars, NEW d \in Databases, Serves(d)
  PROVE  \/ UNCHANGED Service!vars
         \/ \E result \in {"resolved", "rejected"} : Service!Answer(d, result)
         \/ Service!Retire(d)
<1> USE ConstantsAssumption DEF ConstantsAssumption, Actions
<1> DEFINE a   == Active(d)
           acc == {r \in Requests : kind[r] # "unused"} \cup gced
           own == {r \in Requests : kind[r] \in {"command", "query"}}
           pen == [e \in Databases |-> Pending(e)]
           ans == [x \in Actions |-> IF x \in Databases THEN "none" ELSE outcome[x]]
<1>1. acc' = acc /\ own' = own
  BY ServeTouches
<1>2. \A e \in Databases \ {d} : Pending(e)' = Pending(e)
  <2> SUFFICES ASSUME NEW e \in Databases \ {d} PROVE Pending(e)' = Pending(e)
    OBVIOUS
  <2>0. queue \in [Databases -> Seq(Actions)]
    BY DEF TypeOK, Actions
  <2>1. queue'[e] = queue[e]
    <3>1. UNCHANGED queue \/ queue' = [queue EXCEPT ![d] = Rest(d)]
      BY ServeShape DEF Take, Retire
    <3> QED
      BY <2>0, <3>1
  <2> QED
    BY <2>1, ServeTouches DEF Pending
<1>3. pen[d] # <<>> /\ Head(pen[d]) = a /\ a \in Actions /\ pen[d] \in Seq(Actions)
  BY PendingFacts, RestType DEF Serves
<1>4. /\ PassOK /\ SettledIsCurrent /\ SettledBeforeFree /\ UnusedUntouched
      /\ outcome' \in [Requests -> {"none", "resolved", "rejected"}]
  <2>1. PassOK
    BY DEF LoopOK, LifetimeOK
  <2>2. TypeOK'
    BY <2>1, TypeNext
  <2> QED
    BY <2>1, <2>2 DEF LoopOK, ServiceOK, TypeOK
<1> HIDE DEF a
<1>5. CASE Pending(d)' = Pending(d) /\ UNCHANGED outcome
  <2>1. pen' = pen /\ ans' = ans
    BY <1>2, <1>5
  <2> QED
    BY <1>1, <2>1 DEF Service!vars
<1>6. CASE Settles(d) /\ outcome' # outcome
  <2>1. Pending(d)' = Pending(d) /\ a \in Requests /\ outcome'[a] # "none"
    BY <1>6, TakePending DEF Settles, Serves, a
  <2>2. outcome[a] = "none"
    <3>1. a \in ToSet(Pending(d))
      BY PendingFacts DEF Serves, ToSet, a
    <3> QED
      BY <1>4, <1>6, <2>1, <3>1 DEF SettledIsCurrent, Settles, LibraryCall, a
  <2>3. \A x \in Requests \ {a} : outcome'[x] = outcome[x]
    BY ServeTouches DEF a
  <2>4. pen' = pen
    BY <1>2, <2>1
  <2>5. ans[a] = "none" /\ ans' = [ans EXCEPT ![a] = outcome'[a]]
    BY <2>1, <2>2, <2>3
  <2>6. outcome'[a] \in {"resolved", "rejected"}
    BY <1>4, <2>1
  <2> QED
    BY <1>1, <1>3, <2>4, <2>5, <2>6 DEF Service!Answer
<1>7. CASE Ends(d)
  <2>1. Pending(d)' = Tail(Pending(d)) /\ UNCHANGED outcome
    BY <1>7, RetirePending DEF Ends, Serves
  <2>2. pen' = [pen EXCEPT ![d] = Tail(pen[d])] /\ ans' = ans
    BY <1>2, <2>1
  <2>3. ASSUME a \in own PROVE ans[a] # "none"
    <3>1. a \in Requests /\ a \notin Databases /\ kind[a] \in {"command", "query"}
      BY <2>3
    <3>2. CASE a \in has_finished
      BY <1>4, <3>1, <3>2 DEF SettledBeforeFree
    <3>3. CASE a \notin has_finished /\ a \in started /\ socket_state[d] = 0
      <4>1. current_action[d] = a
        BY <1>4, <3>3 DEF UnusedUntouched, Active, Serves, a
      <4> QED
        BY <1>4, <3>1, <3>3, <4>1 DEF SettledBeforeFree
    <3>4. CASE callback # "none" /\ d = open_databases[it] /\ current_action[d] = a
      BY <1>4, <3>1, <3>4 DEF SettledBeforeFree
    <3> QED
      BY <1>7, <3>1, <3>2, <3>3, <3>4 DEF Ends, a
  <2> QED
    BY <1>1, <1>3, <2>2, <2>3 DEF Service!Retire
<1>8. CASE (Calm /\ UNCHANGED queue) \/ GoesOn(d) \/ (Settles(d) /\ outcome' = outcome)
  <2>1. Pending(d)' = Pending(d)
    <3>1. CASE Calm /\ UNCHANGED queue
      BY <3>1 DEF Calm, Pending
    <3>2. CASE Take(d)
      BY <3>2, TakePending DEF Serves
    <3> QED
      BY <1>8, <3>1, <3>2 DEF GoesOn, Settles
  <2> QED
    BY <1>5, <1>8, <2>1 DEF Calm, GoesOn
<1> QED
  BY <1>6, <1>7, <1>8, ServeEffect

(* The refinement, step by step.                                            *)
LEMMA ServiceNext ==
  ASSUME TypeOK, LoopOK, [Next]_vars
  PROVE  [Service!Next]_(Service!vars)
<1>0. PassOK
  BY DEF LoopOK, LifetimeOK
<1> USE ConstantsAssumption DEF ConstantsAssumption, Actions
<1>1. CASE UNCHANGED <<current_action, queue, outcome, kind, gced>>
  BY <1>1 DEF Service!vars, Pending
<1>2. ASSUME NEW d \in Databases, Serves(d) PROVE [Service!Next]_(Service!vars)
  BY <1>2, ServeStep DEF Service!Next
<1>3. ASSUME NEW d \in Databases, NEW a \in Actions, Joins(d, a),
             queue' = [queue EXCEPT ![d] = Append(queue[d], a)], UNCHANGED current_action
      PROVE  \A e \in Databases :
               Pending(e)' = IF e = d THEN Append(Pending(d), a) ELSE Pending(e)
  <2> SUFFICES ASSUME NEW e \in Databases
               PROVE  Pending(e)' = IF e = d THEN Append(Pending(d), a) ELSE Pending(e)
    OBVIOUS
  <2>1. CASE e = d
    <3>1. /\ queue'[d] = Append(queue[d], a) /\ queue[d] \in Seq(Actions)
          /\ current_action'[d] = current_action[d]
          /\ current_action[d] \in Actions \cup {None}
      BY <1>3 DEF TypeOK
    <3>2. /\ Pending(d) = Joined(current_action[d], queue[d])
          /\ Pending(d)' = Joined(current_action'[d], queue'[d])
      BY PendingJoined
    <3>3. Joined(current_action[d], Append(queue[d], a)) =
            Append(Joined(current_action[d], queue[d]), a)
      BY <3>1, JoinedAppended
    <3> QED
      BY <2>1, <3>1, <3>2, <3>3
  <2>2. CASE e # d
    <3>1. queue'[e] = queue[e]
      BY <1>3, <2>2 DEF TypeOK
    <3> QED
      BY <1>3, <2>2, <3>1 DEF Pending
  <2> QED
    BY <2>1, <2>2
<1>4. ASSUME NEW d \in Databases, NEW a \in Requests, NEW k \in {"command", "query"},
             Submit(d, a, k)
      PROVE  Service!Accept(d, a)
  <2>1. /\ Joins(d, a) /\ queue' = [queue EXCEPT ![d] = Append(queue[d], a)]
        /\ UNCHANGED <<current_action, gced>> /\ kind' = [kind EXCEPT ![a] = k]
    BY <1>4 DEF Submit, InsertAction, Joins
  <2> QED
    BY <1>3, <2>1, AcceptStep
<1>5. ASSUME NEW a \in Requests, ConnectInsert(a)
      PROVE  call \in Databases /\ Service!Accept(call, a)
  <2>1. call \in Databases
    BY <1>5 DEF ConnectInsert, TypeOK
  <2>2. /\ Joins(call, a) /\ queue' = [queue EXCEPT ![call] = Append(queue[call], a)]
        /\ UNCHANGED <<current_action, gced>> /\ kind' = [kind EXCEPT ![a] = "connect"]
    BY <1>5 DEF ConnectInsert, InsertAction, Joins
  <2> QED
    BY <1>3, <2>1, <2>2, AcceptStep
<1>6. ASSUME NEW d \in Databases, Finalize(d) PROVE [Service!Next]_(Service!vars)
  <2>1. CASE HasCleanedUpAlready
    BY <1>1, <1>6, <2>1 DEF Finalize, actionVars
  <2>2. CASE ~ HasCleanedUpAlready
    <3>1. /\ Joins(d, d) /\ queue' = [queue EXCEPT ![d] = Append(queue[d], d)]
          /\ UNCHANGED <<current_action, kind>>
      BY <1>6, <2>2 DEF Finalize, Joins, actionVars
    <3>2. Service!Accept(d, d)
      BY <1>3, <3>1, AcceptStep
    <3> QED
      BY <3>2 DEF Service!Next
  <2> QED
    BY <2>1, <2>2
<1> QED
  BY <1>0, <1>1, <1>2, <1>4, <1>5, <1>6, ServiceCases DEF Service!Next

(* Each database answers its calls one after the other, in the order they   *)
(* were made, each at most once, and no query or command ends unanswered.   *)
THEOREM ServesInOrder == Spec => ImplementsService
<1>1. Init => Service!Init
  BY ConstantsAssumption
  DEF Init, Service!Init, Pending, ConstantsAssumption, Actions
<1>2. TypeOK /\ LoopOK /\ [Next]_vars => [Service!Next]_(Service!vars)
  BY ServiceNext
<1> QED
  BY <1>1, <1>2, LoopCorrect, PTL DEF Spec, ImplementsService, Service!Spec

=============================================================================
