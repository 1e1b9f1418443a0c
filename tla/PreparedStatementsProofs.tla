---------------------- MODULE PreparedStatementsProofs ----------------------
(***************************************************************************)
(* Any number of statements and executions beside one database: what each  *)
(* of them may still rely on when the others are lost, closed or deleted,  *)
(* and that their queue is a serial service.                               *)
(***************************************************************************)
EXTENDS PreparedStatements, SequenceTheorems, TLAPS

-----------------------------------------------------------------------------
(* The inductive invariant                                                  *)

(* The current action is answered.                                          *)
Settled == current_action \in Requests /\ outcome[current_action] # "none"

(* The action at place i of the queue is not answered.                      *)
Waits(i) == ~ Settled \/ i > 1

(* An action is queued once, when it is made.                               *)
QueuedOnce ==
  /\ \A i, j \in DOMAIN Pending : Pending[i] = Pending[j] => i = j
  /\ \A i \in DOMAIN Pending : Pending[i] \in submitted

(* What has been made tells from the state of the objects.                  *)
MadeOK ==
  /\ \A s \in Statements : <<"prepare", s>> \in submitted <=> stmt[s] # "none"
  /\ \A e \in Executions : <<"execute", e>> \in submitted <=> target[e] # None
  /\ \A o \in Objects : <<"close", o>> \in submitted => userdata[o] = "finalized"
  /\ <<"close", Db>> \in submitted => gced
  /\ gced => userdata[Db] = "finalized"

(* A statement has a userdata from the end of its preparation on; its       *)
(* handle is closed for the finalized ones, or with the database.           *)
UserdataOK ==
  /\ mode # "down" => \A o \in held : userdata[o] = "live"
  /\ \A s \in Statements : userdata[s] # "none" <=> stmt[s] \in {"prepared", "closed"}
  /\ \A s \in Statements : stmt[s] = "closed" => userdata[s] = "finalized" \/ deleted
  /\ \A e \in Executions : target[e] # None => userdata[target[e]] # "none"

PreparesFirst ==
  \A s \in Statements : \A i \in IndexIn(Pending, <<"prepare", s>>) :
    Waits(i) => stmt[s] = "init"

(* A request is answered at the head of the queue, not earlier, and only an *)
(* execution before its end; a callback runs for the current action.        *)
AnsweredOK ==
  /\ \A r \in Requests : outcome[r] # "none" =>
       /\ r \in submitted
       /\ \A i \in IndexIn(Pending, r) : ~ Waits(i)
  /\ has_finished => Settled
  /\ Settled => has_finished \/ \E e \in Executions : current_action = <<"execute", e>>
  /\ callback => Settled /\ mode # "down"

(* A deleted database has nothing to do; it was collected, or the process   *)
(* goes down.                                                               *)
DeletedOK ==
  /\ deleted => Pending = <<>>
  /\ deleted => (gced /\ Db \notin held) \/ (HasCleanedUpAlready /\ mode = "down")
  /\ instance = "closed" => Db \notin held \/ (deleted /\ \A s \in Statements : stmt[s] # "prepared")

IInv ==
  /\ TypeOK
  /\ QueuedOnce /\ MadeOK /\ UserdataOK /\ PreparesFirst /\ AnsweredOK /\ DeletedOK
  /\ ExecutesBeforeClose /\ ListedIsOpen /\ NoDanglingDatabase

-----------------------------------------------------------------------------
(* Actions and the queue of them                                            *)

LEMMA ActionsDiffer ==
  /\ \A s \in Statements : <<"prepare", s>> \in Requests
  /\ \A e \in Executions : <<"execute", e>> \in Requests
  /\ \A o \in Objects : <<"close", o>> \in Actions /\ <<"close", o>> \notin Requests
  /\ \A a \in Actions : a # None /\ (a \in Requests \/ \E o \in Objects : a = <<"close", o>>)
  /\ Requests \subseteq Actions
  /\ Db \in Objects /\ Db \notin Statements /\ Statements \subseteq Objects
  /\ None \notin Statements
BY ConstantsAssumption DEF Requests, Actions, Objects

LEMMA AppendIndex ==
  ASSUME NEW q \in Seq(Actions), NEW a \in Actions
  PROVE  /\ Append(q, a) \in Seq(Actions)
         /\ DOMAIN Append(q, a) = 1..Len(q) + 1 /\ DOMAIN q = 1..Len(q) /\ Len(q) \in Nat
         /\ \A i \in DOMAIN q : Append(q, a)[i] = q[i]
         /\ Append(q, a)[Len(q) + 1] = a
BY AppendProperties, LenProperties

LEMMA TailIndex ==
  ASSUME NEW q \in Seq(Actions), q # <<>>
  PROVE  /\ Tail(q) \in Seq(Actions)
         /\ q[1] = Head(q) /\ 1 \in DOMAIN q /\ Head(q) \in Actions
         /\ \A i \in DOMAIN Tail(q) : i \in Nat /\ i > 0 /\ i + 1 \in DOMAIN q /\ Tail(q)[i] = q[i + 1]
<1>1. /\ Tail(q) \in Seq(Actions) /\ Len(Tail(q)) = Len(q) - 1 /\ Head(q) \in Actions
      /\ \A i \in 1..Len(Tail(q)) : Tail(q)[i] = q[i + 1]
  BY HeadTailProperties
<1>2. DOMAIN q = 1..Len(q) /\ Len(q) \in Nat \ {0} /\ DOMAIN Tail(q) = 1..Len(Tail(q))
  BY <1>1, EmptySeq, LenProperties
<1> QED
  BY <1>1, <1>2

(* Pending is the queue with the current action in front.                   *)
LEMMA PendingFacts ==
  ASSUME TypeOK
  PROVE  /\ Pending \in Seq(Actions)
         /\ Busy <=> Pending # <<>>
         /\ Busy => Active = Head(Pending) /\ Rest \in Seq(Actions)
         /\ current_action # None => Head(Pending) = current_action
<1>1. queue \in Seq(Actions) /\ current_action \in Actions \cup {None}
  BY DEF TypeOK
<1>2. CASE current_action = None
  BY <1>1, <1>2, TailIndex DEF Pending, Busy, Active, Rest
<1>3. CASE current_action # None
  <2>1. /\ <<current_action>> \o queue \in Seq(Actions)
        /\ <<current_action>> \o queue # <<>>
        /\ Head(<<current_action>> \o queue) = current_action
        /\ Tail(<<current_action>> \o queue) = queue
    BY <1>1, <1>3
  <2> QED
    BY <1>1, <1>3, <2>1 DEF Pending, Busy, Active, Rest
<1> QED
  BY <1>2, <1>3

LEMMA PendingInsert ==
  ASSUME TypeOK, NEW a \in Actions, queue' = Append(queue, a), UNCHANGED current_action
  PROVE  Pending' = Append(Pending, a)
<1>1. queue \in Seq(Actions) /\ current_action \in Actions \cup {None}
  BY DEF TypeOK
<1>2. CASE current_action = None
  BY <1>1, <1>2 DEF Pending
<1>3. CASE current_action # None
  <2>1. <<current_action>> \o Append(queue, a) = Append(<<current_action>> \o queue, a)
    BY <1>1, <1>3
  <2> QED
    BY <1>3, <2>1 DEF Pending
<1> QED
  BY <1>2, <1>3

LEMMA PendingRetire ==
  ASSUME TypeOK, Busy, Retire
  PROVE  Pending' = Tail(Pending) /\ current_action' = None /\ ~ has_finished'
<1>1. queue \in Seq(Actions) /\ current_action \in Actions \cup {None}
  BY DEF TypeOK
<1>2. CASE current_action = None
  BY <1>1, <1>2 DEF Pending, Busy, Retire, Rest
<1>3. CASE current_action # None
  <2>1. Tail(<<current_action>> \o queue) = queue
    BY <1>1, <1>3
  <2> QED
    BY <1>3, <2>1 DEF Pending, Retire, Rest
<1> QED
  BY <1>2, <1>3

LEMMA PendingTake ==
  ASSUME TypeOK, Busy, current_action' = Active, queue' = Rest
  PROVE  Pending' = Pending /\ current_action' = Head(Pending)
<1>1. queue \in Seq(Actions) /\ current_action \in Actions \cup {None}
  BY DEF TypeOK
<1>2. CASE current_action = None
  <2>1. queue # <<>> /\ Head(queue) \in Actions /\ queue = <<Head(queue)>> \o Tail(queue)
    BY <1>1, <1>2, HeadTailProperties DEF Busy
  <2> QED
    BY <1>2, <2>1, ActionsDiffer DEF Pending, Active, Rest
<1>3. CASE current_action # None
  BY <1>3, PendingFacts DEF Pending, Active, Rest
<1> QED
  BY <1>2, <1>3

-----------------------------------------------------------------------------
(* Types                                                                    *)

LEMMA InitType == Init => TypeOK
<1> SUFFICES ASSUME Init PROVE TypeOK
  OBVIOUS
<1> USE DEF Init
<1>1. FlagsOK
  BY DEF FlagsOK
<1>2. queue \in Seq(Actions) /\ current_action \in Actions \cup {None}
  OBVIOUS
<1>3. /\ stmt \in [Statements -> {"none", "init", "prepared", "closed"}]
      /\ target \in [Executions -> Statements \cup {None}]
      /\ outcome \in [Requests -> {"none", "resolved", "rejected"}]
      /\ userdata \in [Objects -> {"none", "live", "cleared", "finalized"}]
  OBVIOUS
<1>4. held \subseteq Objects /\ submitted \subseteq Actions /\ stmts \subseteq Statements
  BY ActionsDiffer
<1> QED
  BY <1>1, <1>2, <1>3, <1>4 DEF TypeOK

LEMMA InsertType ==
  ASSUME TypeOK, NEW a \in Actions, InsertAction(a)
  PROVE  /\ queue' \in Seq(Actions) /\ submitted' \subseteq Actions
         /\ queue_reference' \in BOOLEAN
<1>1. queue' = Append(queue, a) /\ submitted' = submitted \cup {a}
  BY DEF InsertAction, Appended
<1>2. queue_reference' \in BOOLEAN
  BY DEF InsertAction, TypeOK, FlagsOK
<1> QED
  BY <1>1, <1>2 DEF TypeOK

LEMMA RetireType ==
  ASSUME TypeOK, Busy, Retire
  PROVE  /\ queue' \in Seq(Actions) /\ current_action' = None
         /\ queue_reference' \in BOOLEAN /\ has_finished' \in BOOLEAN
         /\ bind_failed' \in BOOLEAN
<1>1. /\ queue_reference' \in BOOLEAN /\ has_finished' \in BOOLEAN
      /\ bind_failed' \in BOOLEAN
  BY DEF Retire, TypeOK, FlagsOK
<1> QED
  BY <1>1, PendingFacts DEF Retire

LEMMA RetireStays ==
  ASSUME TypeOK, Busy, Retire, FlagsOK',
         UNCHANGED <<stmts, instance, stmt, target, outcome, submitted, userdata, held, mode>>
  PROVE  TypeOK'
<1>1. queue' \in Seq(Actions) /\ current_action' \in Actions \cup {None}
  BY RetireType
<1> QED
  BY <1>1 DEF TypeOK

LEMMA AnswerType ==
  ASSUME TypeOK, Busy, NEW r \in Requests, NEW result \in {"resolved", "rejected"},
         Answer(r, result)
  PROVE  /\ queue' \in Seq(Actions) /\ current_action' \in Actions
         /\ callback' \in BOOLEAN
         /\ outcome' \in [Requests -> {"none", "resolved", "rejected"}]
<1>1. queue' \in Seq(Actions) /\ current_action' \in Actions
  BY PendingFacts, ActionsDiffer DEF Answer
<1>2. callback' \in BOOLEAN
  BY DEF Answer
<1>3. outcome' = [outcome EXCEPT ![r] = result]
  BY DEF Answer
<1> QED
  BY <1>1, <1>2, <1>3 DEF TypeOK

LEMMA SettleType ==
  ASSUME TypeOK, Busy, NEW r \in Requests, NEW result \in {"resolved", "rejected"},
         Settle(r, result)
  PROVE  /\ queue' \in Seq(Actions) /\ current_action' \in Actions
         /\ has_finished' \in BOOLEAN /\ bind_failed' \in BOOLEAN /\ callback' \in BOOLEAN
         /\ outcome' \in [Requests -> {"none", "resolved", "rejected"}]
<1>1. has_finished' \in BOOLEAN /\ bind_failed' \in BOOLEAN /\ Answer(r, result)
  BY DEF Settle, TypeOK, FlagsOK
<1> QED
  BY <1>1, AnswerType

LEMMA FinishedBusy ==
  ASSUME TypeOK, AnsweredOK, callback \/ has_finished
  PROVE  Settled /\ Busy /\ current_action = Head(Pending) /\ Head(Pending) \in Requests
<1>1. Settled /\ current_action \in Requests
  BY DEF AnsweredOK, Settled
<1>2. current_action # None
  BY <1>1, ActionsDiffer
<1> QED
  BY <1>1, <1>2, PendingFacts DEF Busy

LEMMA NextType ==
  ASSUME IInv, [Next]_vars
  PROVE  TypeOK'
<1> USE DEF dbVars, callVars, luaVars, hookVars
<1>0. TypeOK /\ FlagsOK /\ AnsweredOK
  BY DEF IInv, TypeOK
<1>1. ASSUME NEW s \in Statements, prepare(s) PROVE TypeOK'
  <2>1. InsertAction(<<"prepare", s>>) /\ <<"prepare", s>> \in Actions
    BY <1>1, ActionsDiffer DEF prepare
  <2>2. FlagsOK'
    BY <1>0, <1>1, <2>1, InsertType DEF prepare, FlagsOK
  <2> QED
    BY <1>0, <1>1, <2>1, <2>2, InsertType DEF prepare, TypeOK
<1>2. ASSUME NEW e \in Executions, NEW s \in Callable, execute(e, s) PROVE TypeOK'
  <2>1. InsertAction(<<"execute", e>>) /\ <<"execute", e>> \in Actions /\ s \in Statements
    BY <1>2, ActionsDiffer DEF execute, Callable
  <2>2. FlagsOK'
    BY <1>0, <1>2, <2>1, InsertType DEF execute, FlagsOK
  <2> QED
    BY <1>0, <1>2, <2>1, <2>2, InsertType DEF execute, TypeOK
<1>3. CASE executeError
  <2>1. FlagsOK'
    BY <1>0, <1>3 DEF executeError, FlagsOK
  <2> QED
    BY <1>0, <1>3, <2>1 DEF executeError, TypeOK
<1>4. ASSUME NEW o \in Objects, Drop(o) PROVE TypeOK'
  BY <1>0, <1>4 DEF Drop, TypeOK, FlagsOK
<1>5. ASSUME NEW S \in SUBSET Objects, Collect(S) PROVE TypeOK'
  BY <1>0, <1>5 DEF Collect, TypeOK, FlagsOK
<1>6. ASSUME NEW s \in Statements, FinalizeStatement(s) PROVE TypeOK'
  <2>1. InsertAction(<<"close", s>>) /\ <<"close", s>> \in Actions
    BY <1>6, ActionsDiffer DEF FinalizeStatement
  <2>2. FlagsOK'
    BY <1>0, <1>6, <2>1, InsertType DEF FinalizeStatement, FlagsOK
  <2> QED
    <3>1. queue' \in Seq(Actions) /\ submitted' \subseteq Actions
      BY <1>0, <2>1, InsertType
    <3>2. userdata' \in [Objects -> {"none", "live", "cleared", "finalized"}]
      BY <1>0, <1>6 DEF FinalizeStatement, Finalizable, TypeOK
    <3> QED
      BY <1>0, <1>6, <2>2, <3>1, <3>2 DEF FinalizeStatement, TypeOK
<1>7. ASSUME NEW s \in Statements, FinalizeStatementCleanedUp(s) PROVE TypeOK'
  <2>1. FlagsOK'
    BY <1>0, <1>7 DEF FinalizeStatementCleanedUp, FlagsOK
  <2>2. userdata' \in [Objects -> {"none", "live", "cleared", "finalized"}]
    BY <1>0, <1>7 DEF FinalizeStatementCleanedUp, Finalizable, TypeOK
  <2> QED
    BY <1>0, <1>7, <2>1, <2>2 DEF FinalizeStatementCleanedUp, TypeOK
<1>8. ASSUME NEW s \in Statements, FinalizeStatementError(s) PROVE TypeOK'
  <2>1. FlagsOK'
    BY <1>0, <1>8 DEF FinalizeStatementError, FlagsOK
  <2>2. mode' \in {"running", "shutdown", "down"}
    BY <1>0, <1>8 DEF FinalizeStatementError, TypeOK
  <2> QED
    BY <1>0, <1>8, <2>1, <2>2 DEF FinalizeStatementError, Finalizable, TypeOK
<1>9. CASE FinalizeDatabase
  <2>1. FlagsOK'
    BY <1>0, <1>9 DEF FinalizeDatabase, FlagsOK
  <2>2. queue' \in Seq(Actions) /\ submitted' \subseteq Actions
    <3>1. /\ <<"close", Db>> \in Actions /\ queue \in Seq(Actions) /\ submitted \subseteq Actions
          /\ \/ UNCHANGED <<queue, submitted>>
             \/ /\ queue' = Append(queue, <<"close", Db>>)
                /\ submitted' = submitted \cup {<<"close", Db>>}
      BY <1>0, <1>9, ActionsDiffer DEF FinalizeDatabase, TypeOK
    <3> QED
      BY <3>1, AppendIndex
  <2> QED
    BY <1>0, <1>9, <2>1, <2>2 DEF FinalizeDatabase, Finalizable, TypeOK
<1>10. CASE TickSuspend
  <2>1. queue' \in Seq(Actions) /\ current_action' \in Actions
    BY <1>0, <1>10, PendingFacts, TailIndex DEF TickSuspend, Busy
  <2>2. FlagsOK'
    BY <1>0, <1>10 DEF TickSuspend, FlagsOK
  <2> QED
    BY <1>0, <1>10, <2>1, <2>2 DEF TickSuspend, TypeOK
<1>11. ASSUME NEW s \in Statements, FinishPrepare(s) PROVE TypeOK'
  <2>1. Settle(<<"prepare", s>>, "resolved") /\ Busy /\ <<"prepare", s>> \in Requests
    BY <1>11, ActionsDiffer DEF FinishPrepare, Completed
  <2>2. FlagsOK'
    BY <1>0, <1>11, <2>1, SettleType DEF FinishPrepare, FlagsOK
  <2>3. stmts' \subseteq Statements /\ held' \subseteq Objects
    BY <1>0, <1>11, ActionsDiffer DEF FinishPrepare, Listed, TypeOK
  <2> QED
    BY <1>0, <1>11, <2>1, <2>2, <2>3, SettleType DEF FinishPrepare, TypeOK
<1>12. ASSUME NEW s \in Statements, FinishPrepareError(s) PROVE TypeOK'
  <2>1. Settle(<<"prepare", s>>, "rejected") /\ Busy /\ <<"prepare", s>> \in Requests
    BY <1>12, ActionsDiffer DEF FinishPrepareError, Completed
  <2>2. FlagsOK'
    BY <1>0, <1>12, <2>1, SettleType DEF FinishPrepareError, FlagsOK
  <2> QED
    BY <1>0, <1>12, <2>1, <2>2, SettleType DEF FinishPrepareError, TypeOK
<1>13. ASSUME NEW e \in Executions, FinishExecute(e) \/ RejectExecute(e) \/ EndExecute(e)
       PROVE  TypeOK'
  <2>1. Busy /\ <<"execute", e>> \in Requests
    BY <1>13, ActionsDiffer DEF FinishExecute, RejectExecute, EndExecute, Completed
  <2>2. CASE FinishExecute(e)
    <3>1. Settle(<<"execute", e>>, "resolved")
      BY <2>2 DEF FinishExecute
    <3>2. FlagsOK'
      BY <1>0, <2>1, <2>2, <3>1, SettleType DEF FinishExecute, FlagsOK
    <3> QED
      BY <1>0, <2>1, <2>2, <3>1, <3>2, SettleType DEF FinishExecute, TypeOK
  <2>3. CASE RejectExecute(e)
    <3>1. Answer(<<"execute", e>>, "rejected") /\ bind_failed' \in BOOLEAN
      BY <2>3 DEF RejectExecute
    <3>2. FlagsOK'
      BY <1>0, <2>1, <2>3, <3>1, AnswerType DEF RejectExecute, FlagsOK
    <3> QED
      BY <1>0, <2>1, <2>3, <3>1, <3>2, AnswerType DEF RejectExecute, TypeOK
  <2>4. CASE EndExecute(e)
    <3>1. Retire
      BY <2>4 DEF EndExecute
    <3>2. FlagsOK'
      BY <1>0, <2>1, <2>4, <3>1, RetireType DEF EndExecute, FlagsOK
    <3> QED
      BY <1>0, <2>1, <2>4, <3>1, <3>2, RetireType DEF EndExecute, TypeOK
  <2> QED
    BY <1>13, <2>2, <2>3, <2>4
<1>14. ASSUME NEW s \in Statements, FinishClose(s) PROVE TypeOK'
  <2>1. Retire /\ Busy
    BY <1>14 DEF FinishClose, Completed
  <2>2. FlagsOK'
    BY <1>0, <1>14, <2>1, RetireType DEF FinishClose, FlagsOK
  <2> QED
    BY <1>0, <1>14, <2>1, <2>2, RetireType DEF FinishClose, Unlisted, TypeOK
<1>15. CASE FinishCloseDatabase
  <2>1. Retire /\ Busy
    BY <1>15 DEF FinishCloseDatabase, Completed
  <2>2. FlagsOK'
    BY <1>0, <1>15, <2>1, RetireType DEF FinishCloseDatabase, FlagsOK
  <2> QED
    BY <1>0, <1>15, <2>1, <2>2, RetireType DEF FinishCloseDatabase, TypeOK
<1>16. CASE CallbackReturn
  <2>1. Retire /\ Busy
    BY <1>0, <1>16, FinishedBusy DEF CallbackReturn
  <2>2. FlagsOK'
    BY <1>0, <1>16, <2>1, RetireType DEF CallbackReturn, FlagsOK
  <2> QED
    BY <1>0, <1>16, <2>1, <2>2, RetireStays DEF CallbackReturn
<1>17. CASE CallbackReturnFetch \/ CallbackError
  <2>1. FlagsOK'
    BY <1>0, <1>17 DEF CallbackReturnFetch, CallbackError, FlagsOK
  <2> QED
    BY <1>0, <1>17, <2>1 DEF CallbackReturnFetch, CallbackError, TypeOK
<1>18. CASE TickFree
  <2>1. Retire /\ Busy
    BY <1>0, <1>18, FinishedBusy DEF TickFree
  <2>2. FlagsOK'
    BY <1>0, <1>18, <2>1, RetireType DEF TickFree, FlagsOK
  <2> QED
    BY <1>0, <1>18, <2>1, <2>2, RetireStays DEF TickFree
<1>19. CASE DeleteDatabase \/ ShutdownHook \/ TickPoll \/ UNCHANGED vars
  <2>1. FlagsOK'
    <3>1. CASE DeleteDatabase \/ ShutdownHook
      BY <1>0, <3>1 DEF DeleteDatabase, ShutdownHook, FlagsOK
    <3>2. CASE TickPoll \/ UNCHANGED vars
      BY <1>0, <3>2 DEF TickPoll, FlagsOK, vars
    <3> QED
      BY <1>19, <3>1, <3>2
  <2> QED
    BY <1>0, <1>19, <2>1 DEF DeleteDatabase, ShutdownHook, TickPoll, TypeOK, vars
<1>20. CASE CloseAll
  <2>1. FlagsOK'
    BY <1>0, <1>20 DEF CloseAll, Disarmed, FlagsOK
  <2> QED
    BY <1>0, <1>20, <2>1 DEF CloseAll, TypeOK
<1> QED
  BY <1>1, <1>2, <1>3, <1>4, <1>5, <1>6, <1>7, <1>8, <1>9, <1>10,
     <1>11, <1>12, <1>13, <1>14, <1>15, <1>16, <1>17, <1>18, <1>19, <1>20
  DEF Next, LuaCode, Finalizers, Hooks, Stopped

-----------------------------------------------------------------------------
(* The four things a step may do to the queue                               *)

Joins(a) ==
  /\ a \in Actions /\ a \notin submitted
  /\ Pending' = Append(Pending, a)
  /\ submitted' = submitted \cup {a}
  /\ UNCHANGED <<current_action, has_finished, outcome>>

Leaves ==
  /\ Pending # <<>> /\ Pending' = Tail(Pending)
  /\ Head(Pending) \in Requests => Settled
  /\ current_action' = None /\ ~ has_finished' /\ UNCHANGED <<submitted, outcome>>

Answers(r, result) ==
  /\ Pending # <<>> /\ r = Head(Pending) /\ r \in Requests /\ ~ Settled
  /\ Pending' = Pending /\ current_action' = r
  /\ has_finished' \/ \E e \in Executions : r = <<"execute", e>>
  /\ outcome' = [outcome EXCEPT ![r] = result]
  /\ UNCHANGED submitted

Stays ==
  /\ Pending' = Pending /\ UNCHANGED <<has_finished, outcome, submitted>>
  /\ UNCHANGED current_action \/ (~ Settled /\ ~ Settled')

(* The action that is worked on.                                            *)
LEMMA HeadFacts ==
  ASSUME TypeOK, QueuedOnce, DeletedOK, NEW a \in Actions, Completed(a)
  PROVE  /\ Busy /\ Pending # <<>> /\ a = Head(Pending) /\ a = Pending[1] /\ 1 \in DOMAIN Pending
         /\ a \in submitted /\ ~ has_finished /\ ~ deleted
         /\ ~ dangling /\ ~ callback /\ mode # "down"
<1>1. Busy /\ a = Active /\ ~ has_finished /\ Ticked
  BY DEF Completed
<1>2. Pending # <<>> /\ a = Head(Pending) /\ Pending \in Seq(Actions)
  BY <1>1, PendingFacts
<1>3. a = Pending[1] /\ 1 \in DOMAIN Pending
  BY <1>2, TailIndex
<1> QED
  BY <1>1, <1>2, <1>3 DEF QueuedOnce, DeletedOK, Ticked

(* It is answered only if it is an execution that was.                      *)
LEMMA HeadWaits ==
  ASSUME AnsweredOK, NEW a \in Actions, Completed(a),
         (\A e \in Executions : a # <<"execute", e>>) \/ outcome[a] = "none"
  PROVE  ~ Settled /\ Waits(1)
<1>1. ~ has_finished /\ (current_action # None => a = current_action)
  BY DEF Completed, Active
<1>2. Settled => current_action # None
  BY ActionsDiffer DEF Settled
<1> QED
  BY <1>1, <1>2 DEF AnsweredOK, Settled, Waits

LEMMA InsertJoins ==
  ASSUME TypeOK, NEW a \in Actions, a \notin submitted, InsertAction(a),
         UNCHANGED <<current_action, has_finished, outcome>>
  PROVE  Joins(a)
BY PendingInsert DEF InsertAction, Appended, Joins

LEMMA AnswerAnswers ==
  ASSUME TypeOK, QueuedOnce, DeletedOK, AnsweredOK, NEW r \in Requests, NEW result,
         Completed(r), Answer(r, result), UNCHANGED submitted,
         (\A e \in Executions : r # <<"execute", e>>) \/ outcome[r] = "none",
         has_finished' \/ \E e \in Executions : r = <<"execute", e>>
  PROVE  Answers(r, result)
<1>1. r \in Actions
  BY ActionsDiffer
<1>2. Busy /\ Pending # <<>> /\ r = Head(Pending) /\ ~ Settled /\ r = Active
  BY <1>1, HeadFacts, HeadWaits DEF Completed
<1>3. Pending' = Pending
  BY <1>2, PendingTake DEF Answer
<1> QED
  BY <1>2, <1>3 DEF Answer, Answers

LEMMA QueueStep ==
  ASSUME IInv, [Next]_vars
  PROVE  \/ \E a \in Actions : Joins(a)
         \/ Leaves
         \/ \E r \in Requests, result \in {"resolved", "rejected"} : Answers(r, result)
         \/ Stays
<1> USE DEF dbVars, callVars, luaVars, hookVars
<1>0. /\ TypeOK /\ AnsweredOK /\ QueuedOnce /\ DeletedOK /\ MadeOK /\ UserdataOK
  BY DEF IInv
<1>1. ASSUME NEW s \in Statements, prepare(s) PROVE Joins(<<"prepare", s>>)
  <2>1. <<"prepare", s>> \in Actions /\ <<"prepare", s>> \notin submitted
    BY <1>0, <1>1, ActionsDiffer DEF prepare, MadeOK
  <2> QED
    BY <1>0, <1>1, <2>1, InsertJoins DEF prepare
<1>2. ASSUME NEW e \in Executions, NEW s \in Callable, execute(e, s) PROVE Joins(<<"execute", e>>)
  <2>1. <<"execute", e>> \in Actions /\ <<"execute", e>> \notin submitted
    BY <1>0, <1>2, ActionsDiffer DEF execute, MadeOK
  <2> QED
    BY <1>0, <1>2, <2>1, InsertJoins DEF execute
<1>3. ASSUME NEW s \in Statements, FinalizeStatement(s) PROVE Joins(<<"close", s>>)
  <2>1. <<"close", s>> \in Actions /\ <<"close", s>> \notin submitted
    BY <1>0, <1>3, ActionsDiffer DEF FinalizeStatement, Finalizable, MadeOK
  <2> QED
    BY <1>0, <1>3, <2>1, InsertJoins DEF FinalizeStatement
<1>4. CASE FinalizeDatabase
  <2>1. CASE HasCleanedUpAlready
    BY <1>4, <2>1 DEF FinalizeDatabase, Stays, Pending
  <2>2. CASE ~ HasCleanedUpAlready
    <3>1. <<"close", Db>> \in Actions /\ <<"close", Db>> \notin submitted
      BY <1>0, <1>4, ActionsDiffer DEF FinalizeDatabase, Finalizable, MadeOK
    <3>2. Joins(<<"close", Db>>)
      BY <1>0, <1>4, <2>2, <3>1, PendingInsert DEF FinalizeDatabase, Joins
    <3> QED
      BY <3>1, <3>2
  <2> QED
    BY <2>1, <2>2
<1>5. CASE \/ executeError
           \/ \E o \in Objects : Drop(o)
           \/ \E S \in SUBSET Objects : Collect(S)
           \/ \E s \in Statements : FinalizeStatementCleanedUp(s) \/ FinalizeStatementError(s)
           \/ CallbackReturnFetch \/ CallbackError \/ TickPoll
           \/ DeleteDatabase \/ CloseAll \/ ShutdownHook \/ UNCHANGED vars
  BY <1>5 DEF executeError, Drop, Collect, FinalizeStatementCleanedUp,
     FinalizeStatementError, CallbackReturnFetch, CallbackError, TickPoll, DeleteDatabase,
     CloseAll, ShutdownHook, vars, Stays, Pending
<1>6. CASE TickSuspend
  <2>1. ~ Settled /\ Busy
    BY <1>6, ActionsDiffer DEF TickSuspend, Settled, Busy
  <2>2. Pending' = Pending /\ current_action' = Head(Pending)
    BY <1>0, <1>6, <2>1, PendingTake DEF TickSuspend
  <2>3. Head(Pending) \in Requests => outcome[Head(Pending)] = "none"
    <3>1. 1 \in IndexIn(Pending, Head(Pending)) /\ Waits(1)
      BY <1>0, <2>1, PendingFacts, TailIndex DEF IndexIn, Waits
    <3> QED
      BY <1>0, <3>1 DEF AnsweredOK
  <2> QED
    BY <1>6, <2>1, <2>2, <2>3 DEF TickSuspend, Stays, Settled
<1>7. ASSUME NEW s \in Statements, FinishPrepare(s) PROVE Answers(<<"prepare", s>>, "resolved")
  <2>1. <<"prepare", s>> \in Requests /\ \A e \in Executions : <<"prepare", s>> # <<"execute", e>>
    BY ActionsDiffer
  <2> QED
    BY <1>0, <1>7, <2>1, AnswerAnswers DEF FinishPrepare, Settle
<1>8. ASSUME NEW s \in Statements, FinishPrepareError(s) PROVE Answers(<<"prepare", s>>, "rejected")
  <2>1. <<"prepare", s>> \in Requests /\ \A e \in Executions : <<"prepare", s>> # <<"execute", e>>
    BY ActionsDiffer
  <2> QED
    BY <1>0, <1>8, <2>1, AnswerAnswers DEF FinishPrepareError, Settle
<1>9. ASSUME NEW e \in Executions
      PROVE  /\ FinishExecute(e) => Answers(<<"execute", e>>, "resolved")
             /\ RejectExecute(e) => Answers(<<"execute", e>>, "rejected")
             /\ EndExecute(e) => Leaves
  <2>1. <<"execute", e>> \in Requests /\ <<"execute", e>> \in Actions
    BY ActionsDiffer
  <2>2. FinishExecute(e) => Answers(<<"execute", e>>, "resolved")
    BY <1>0, <2>1, AnswerAnswers DEF FinishExecute, Settle
  <2>3. RejectExecute(e) => Answers(<<"execute", e>>, "rejected")
    BY <1>0, <2>1, AnswerAnswers DEF RejectExecute
  <2>4. ASSUME EndExecute(e) PROVE Leaves
    <3>1. /\ Busy /\ Pending # <<>> /\ <<"execute", e>> = Head(Pending)
          /\ <<"execute", e>> = Pending[1] /\ 1 \in DOMAIN Pending
      BY <1>0, <2>1, <2>4, HeadFacts DEF EndExecute
    <3>2. Settled
      BY <1>0, <2>1, <2>4, <3>1 DEF EndExecute, AnsweredOK, IndexIn, Waits
    <3> QED
      BY <1>0, <2>4, <3>1, <3>2, PendingRetire DEF EndExecute, Leaves
  <2> QED
    BY <2>2, <2>3, <2>4
<1>10. ASSUME NEW s \in Statements, FinishClose(s) PROVE Leaves
  <2>1. <<"close", s>> \in Actions /\ <<"close", s>> \notin Requests
    BY ActionsDiffer
  <2>2. Busy /\ Pending # <<>> /\ <<"close", s>> = Head(Pending)
    BY <1>0, <1>10, <2>1, HeadFacts DEF FinishClose
  <2> QED
    BY <1>0, <1>10, <2>1, <2>2, PendingRetire DEF FinishClose, Leaves
<1>11. CASE FinishCloseDatabase
  <2>1. <<"close", Db>> \in Actions /\ <<"close", Db>> \notin Requests
    BY ActionsDiffer
  <2>2. Busy /\ Pending # <<>> /\ <<"close", Db>> = Head(Pending)
    BY <1>0, <1>11, <2>1, HeadFacts DEF FinishCloseDatabase
  <2> QED
    BY <1>0, <1>11, <2>1, <2>2, PendingRetire DEF FinishCloseDatabase, Leaves
<1>12. CASE CallbackReturn \/ TickFree
  <2>1. Settled /\ Busy /\ Pending # <<>>
    BY <1>0, <1>12, FinishedBusy, PendingFacts DEF CallbackReturn, TickFree
  <2> QED
    BY <1>0, <1>12, <2>1, PendingRetire DEF CallbackReturn, TickFree, Leaves
<1>13. /\ \A s \in Statements : /\ <<"prepare", s>> \in Requests /\ <<"prepare", s>> \in Actions
                                  /\ <<"close", s>> \in Actions
       /\ \A e \in Executions : <<"execute", e>> \in Requests /\ <<"execute", e>> \in Actions
  BY ActionsDiffer
<1>14. CASE LuaCode
  <2>1. CASE \E s \in Statements : prepare(s)
    BY <1>1, <1>13, <2>1
  <2>2. CASE \E e \in Executions, s \in Callable : execute(e, s)
    BY <1>2, <1>13, <2>2 DEF Callable
  <2> QED
    BY <1>5, <1>14, <2>1, <2>2 DEF LuaCode
<1>15. CASE Finalizers
  BY <1>3, <1>4, <1>5, <1>13, <1>15 DEF Finalizers
<1>16. CASE Hooks
  <2>1. CASE \E s \in Statements : FinishPrepare(s) \/ FinishPrepareError(s)
    BY <1>7, <1>8, <1>13, <2>1
  <2>2. CASE \E e \in Executions : FinishExecute(e) \/ RejectExecute(e) \/ EndExecute(e)
    BY <1>9, <1>13, <2>2
  <2>3. CASE \E s \in Statements : FinishClose(s)
    BY <1>10, <2>3
  <2> QED
    BY <1>5, <1>11, <1>12, <1>16, <2>1, <2>2, <2>3 DEF Hooks
<1> QED
  BY <1>5, <1>6, <1>14, <1>15, <1>16 DEF Next, Stopped

-----------------------------------------------------------------------------
(* The queue alone: once each, answered at the head                         *)

LEMMA NextOnce ==
  ASSUME IInv, [Next]_vars
  PROVE  QueuedOnce'
<1>0. TypeOK /\ QueuedOnce /\ Pending \in Seq(Actions)
  BY PendingFacts DEF IInv
<1>1. ASSUME NEW a \in Actions, Joins(a) PROVE QueuedOnce'
  <2>1. /\ DOMAIN Pending' = 1..Len(Pending) + 1 /\ DOMAIN Pending = 1..Len(Pending)
        /\ \A i \in DOMAIN Pending : Pending'[i] = Pending[i]
        /\ Pending'[Len(Pending) + 1] = a /\ Len(Pending) \in Nat
    BY <1>0, <1>1, AppendIndex DEF Joins
  <2>2. submitted' = submitted \cup {a} /\ a \notin submitted
    BY <1>1 DEF Joins
  <2> QED
    BY <1>0, <2>1, <2>2 DEF QueuedOnce
<1>2. CASE Leaves
  <2>1. \A i \in DOMAIN Pending' : i \in Nat /\ i + 1 \in DOMAIN Pending /\ Pending'[i] = Pending[i + 1]
    BY <1>0, <1>2, TailIndex DEF Leaves
  <2>2. UNCHANGED submitted
    BY <1>2 DEF Leaves
  <2> QED
    BY <1>0, <2>1, <2>2 DEF QueuedOnce
<1>3. CASE Pending' = Pending /\ UNCHANGED submitted
  BY <1>0, <1>3 DEF QueuedOnce
<1> QED
  BY <1>1, <1>2, <1>3, QueueStep DEF Answers, Stays

LEMMA NextOutcome ==
  ASSUME IInv, [Next]_vars
  PROVE  /\ \A r \in Requests : outcome'[r] # "none" =>
              /\ r \in submitted'
              /\ \A i \in IndexIn(Pending', r) : ~ Waits(i)'
         /\ has_finished' => Settled'
         /\ Settled' => has_finished' \/ \E e \in Executions : current_action' = <<"execute", e>>
<1> DEFINE Goal == /\ \A r \in Requests : outcome'[r] # "none" =>
                        /\ r \in submitted'
                        /\ \A i \in IndexIn(Pending', r) : ~ Waits(i)'
                   /\ has_finished' => Settled'
                   /\ Settled' => has_finished' \/
                        \E e \in Executions : current_action' = <<"execute", e>>
<1>0. TypeOK /\ QueuedOnce /\ AnsweredOK /\ Pending \in Seq(Actions)
  BY PendingFacts DEF IInv
<1> USE DEF IndexIn, Waits
<1>1. ASSUME NEW a \in Actions, Joins(a) PROVE Goal
  <2>1. /\ DOMAIN Pending' = 1..Len(Pending) + 1 /\ DOMAIN Pending = 1..Len(Pending)
        /\ \A i \in DOMAIN Pending : Pending'[i] = Pending[i]
        /\ Pending'[Len(Pending) + 1] = a /\ Len(Pending) \in Nat
    BY <1>0, <1>1, AppendIndex DEF Joins
  <2> QED
    BY <1>0, <1>1, <2>1 DEF AnsweredOK, Joins, Settled
<1>2. CASE Leaves
  <2>1. \A i \in DOMAIN Pending' : i \in Nat /\ i > 0 /\ i + 1 \in DOMAIN Pending /\ Pending'[i] = Pending[i + 1]
    BY <1>0, <1>2, TailIndex DEF Leaves
  <2> QED
    BY <1>0, <1>2, <2>1, ActionsDiffer DEF AnsweredOK, Leaves, Settled
<1>3. ASSUME NEW r \in Requests, NEW result \in {"resolved", "rejected"}, Answers(r, result)
      PROVE  Goal
  <2>1. r = Pending[1] /\ 1 \in DOMAIN Pending /\ r \in submitted
    BY <1>0, <1>3, TailIndex DEF Answers, QueuedOnce
  <2>2. /\ outcome'[r] # "none" /\ \A x \in Requests \ {r} : outcome'[x] = outcome[x]
    BY <1>0, <1>3 DEF Answers, TypeOK
  <2> QED
    BY <1>0, <1>3, <2>1, <2>2 DEF Answers, AnsweredOK, QueuedOnce, Settled
<1>4. CASE Stays
  <2>1. CASE UNCHANGED current_action
    BY <1>0, <1>4, <2>1 DEF Stays, AnsweredOK, Settled
  <2>2. CASE ~ Settled /\ ~ Settled'
    BY <1>0, <1>4, <2>2 DEF Stays, AnsweredOK
  <2> QED
    BY <1>4, <2>1, <2>2 DEF Stays
<1> QED
  BY <1>1, <1>2, <1>3, <1>4, QueueStep

LEMMA NextAnswered ==
  ASSUME IInv, [Next]_vars
  PROVE  AnsweredOK'
<1> USE DEF dbVars, callVars, luaVars, hookVars
<1>0. AnsweredOK /\ TypeOK /\ QueuedOnce /\ DeletedOK
  BY DEF IInv
<1>1. callback' => Settled' /\ mode' # "down"
  <2>1. CASE LuaCode \/ \E S \in SUBSET Objects : Collect(S)
    BY <1>0, <2>1 DEF LuaCode, prepare, execute, executeError, Drop, Collect, AnsweredOK,
       Settled
  <2>2. CASE Finalizers
    BY <1>0, <2>2 DEF Finalizers, FinalizeStatement, FinalizeStatementCleanedUp,
       FinalizeStatementError, FinalizeDatabase, AnsweredOK, Settled
  <2>3. ASSUME NEW s \in Statements, FinishPrepare(s) \/ FinishPrepareError(s)
        PROVE  Settled' /\ mode' # "down"
    <3>1. PICK result \in {"resolved", "rejected"} : Settle(<<"prepare", s>>, result)
      BY <2>3 DEF FinishPrepare, FinishPrepareError
    <3>2. mode' # "down"
      BY <2>3 DEF FinishPrepare, FinishPrepareError, Completed, Ticked
    <3> QED
      BY <1>0, <3>1, <3>2, ActionsDiffer DEF Settle, Answer, Settled, TypeOK
  <2>4. ASSUME NEW e \in Executions, FinishExecute(e) \/ RejectExecute(e)
        PROVE  Settled' /\ mode' # "down"
    <3>1. PICK result \in {"resolved", "rejected"} : Answer(<<"execute", e>>, result)
      BY <2>4 DEF FinishExecute, RejectExecute, Settle
    <3>2. mode' # "down"
      BY <2>4 DEF FinishExecute, RejectExecute, Completed, Ticked
    <3> QED
      BY <1>0, <3>1, <3>2, ActionsDiffer DEF Answer, Settled, TypeOK
  <2>5. CASE \/ \E s \in Statements : FinishClose(s)
             \/ \E e \in Executions : EndExecute(e)
             \/ FinishCloseDatabase
             \/ CallbackReturn \/ CallbackReturnFetch \/ CallbackError
             \/ TickFree \/ TickPoll \/ DeleteDatabase \/ CloseAll
    BY <2>5 DEF FinishClose, EndExecute, FinishCloseDatabase, CallbackReturn,
       CallbackReturnFetch, CallbackError, TickFree, TickPoll, DeleteDatabase, CloseAll,
       Completed, Ticked, vars
  <2>6. CASE TickSuspend \/ ShutdownHook \/ UNCHANGED vars
    BY <1>0, <2>6 DEF TickSuspend, Ticked, ShutdownHook, vars, AnsweredOK, Settled
  <2> QED
    BY <2>1, <2>2, <2>3, <2>4, <2>5, <2>6 DEF Next, Hooks, Stopped
<1> QED
  BY <1>1, NextOutcome DEF AnsweredOK

-----------------------------------------------------------------------------
(* The objects: what was made of them, and what becomes of them             *)

objectVars == <<stmt, stmts, userdata, held, target, submitted, gced, deleted, instance>>

(* The steps that only answer, retire or raise.                             *)
LEMMA ObjectsStay ==
  ASSUME \/ executeError \/ TickSuspend \/ ShutdownHook \/ UNCHANGED vars
         \/ \E s \in Statements : FinishPrepareError(s)
         \/ \E e \in Executions : FinishExecute(e) \/ RejectExecute(e) \/ EndExecute(e)
         \/ CallbackReturn \/ CallbackReturnFetch \/ CallbackError
         \/ TickFree \/ TickPoll
  PROVE  UNCHANGED objectVars
BY DEF executeError, TickSuspend, ShutdownHook, vars, FinishPrepareError, FinishExecute,
   RejectExecute, EndExecute, CallbackReturn, CallbackReturnFetch, CallbackError,
   TickFree, TickPoll, objectVars, dbVars, callVars, luaVars, hookVars

(* What the two endings of the head of the queue find.                      *)
LEMMA PrepareFinds ==
  ASSUME IInv, NEW s \in Statements, FinishPrepare(s)
  PROVE  /\ stmt[s] = "init" /\ userdata[s] = "none" /\ ~ deleted /\ mode # "down"
         /\ IndexIn(Pending, <<"prepare", s>>) = {1}
<1> DEFINE a == <<"prepare", s>>
<1>0. TypeOK /\ QueuedOnce /\ DeletedOK /\ PreparesFirst /\ UserdataOK /\ AnsweredOK
  BY DEF IInv
<1>1. a \in Actions /\ Completed(a) /\ \A e \in Executions : a # <<"execute", e>>
  BY ActionsDiffer DEF FinishPrepare
<1>2. a = Pending[1] /\ 1 \in DOMAIN Pending /\ Waits(1) /\ ~ deleted /\ mode # "down"
  BY <1>0, <1>1, HeadFacts, HeadWaits
<1>3. IndexIn(Pending, a) = {1}
  BY <1>0, <1>2 DEF QueuedOnce, IndexIn
<1>4. stmt[s] = "init"
  BY <1>0, <1>2, <1>3 DEF PreparesFirst
<1> QED
  BY <1>0, <1>2, <1>3, <1>4 DEF UserdataOK, TypeOK

LEMMA CloseFinds ==
  ASSUME IInv, NEW s \in Statements, FinishClose(s)
  PROVE  /\ userdata[s] = "finalized" /\ stmt[s] = "prepared" /\ s \in stmts /\ ~ deleted
         /\ IndexIn(Pending, <<"close", s>>) = {1}
         /\ Busy /\ Pending' = Tail(Pending) /\ Pending # <<>>
<1> DEFINE a == <<"close", s>>
<1>0. TypeOK /\ QueuedOnce /\ DeletedOK /\ MadeOK /\ ListedIsOpen
  BY DEF IInv
<1>1. a \in Actions /\ Completed(a) /\ Retire /\ s \in Objects
  BY ActionsDiffer DEF FinishClose
<1>2. /\ a = Pending[1] /\ 1 \in DOMAIN Pending /\ ~ deleted /\ a \in submitted
      /\ Busy /\ Pending # <<>>
  BY <1>0, <1>1, HeadFacts
<1>3. IndexIn(Pending, a) = {1}
  BY <1>0, <1>2 DEF QueuedOnce, IndexIn
<1>4. s \in stmts
  BY <1>0, <1>3 DEF ListedIsOpen
<1> QED
  BY <1>0, <1>1, <1>2, <1>3, <1>4, PendingRetire DEF MadeOK, ListedIsOpen

LEMMA CloseDatabaseFinds ==
  ASSUME IInv, FinishCloseDatabase
  PROVE  /\ gced /\ ~ deleted /\ mode # "down"
         /\ Busy /\ Pending' = Tail(Pending) /\ Pending # <<>>
<1>0. TypeOK /\ QueuedOnce /\ DeletedOK /\ MadeOK
  BY DEF IInv
<1>1. <<"close", Db>> \in Actions /\ Completed(<<"close", Db>>) /\ Retire
  BY ActionsDiffer DEF FinishCloseDatabase
<1> QED
  BY <1>0, <1>1, HeadFacts, PendingRetire DEF MadeOK

(* A call of Lua code finds its database there.                             *)
LEMMA CallFinds ==
  ASSUME IInv, LuaRuns
  PROVE  /\ mode # "down"
         /\ Db \in held => ~ deleted /\ ~ PushRaises
<1> USE DEF IInv, LuaRuns
<1>1. mode # "down"
  BY DEF AnsweredOK
<1> QED
  BY <1>1 DEF UserdataOK, DeletedOK, PushRaises

LEMMA NextMade ==
  ASSUME IInv, [Next]_vars
  PROVE  MadeOK'
<1> USE ActionsDiffer DEF dbVars, callVars, luaVars, hookVars, MadeOK
<1>0. MadeOK /\ TypeOK /\ UserdataOK
  BY DEF IInv
<1>1. ASSUME NEW s \in Statements, prepare(s) PROVE MadeOK'
  <2>1. /\ stmt' = [stmt EXCEPT ![s] = "init"] /\ submitted' = submitted \cup {<<"prepare", s>>}
        /\ UNCHANGED <<target, userdata, gced>>
    BY <1>1 DEF prepare, InsertAction
  <2>2. stmt'[s] = "init" /\ \A x \in Statements \ {s} : stmt'[x] = stmt[x]
    BY <1>0, <2>1 DEF TypeOK
  <2> QED
    BY <1>0, <2>1, <2>2
<1>2. ASSUME NEW e \in Executions, NEW s \in Callable, execute(e, s) PROVE MadeOK'
  <2>1. /\ target' = [target EXCEPT ![e] = s] /\ submitted' = submitted \cup {<<"execute", e>>}
        /\ UNCHANGED <<stmt, userdata, gced>> /\ s # None
    BY <1>2 DEF execute, InsertAction, Callable
  <2>2. target'[e] # None /\ \A x \in Executions \ {e} : target'[x] = target[x]
    BY <1>0, <2>1 DEF TypeOK
  <2> QED
    BY <1>0, <2>1, <2>2
<1>3. ASSUME NEW s \in Statements, FinalizeStatement(s) PROVE MadeOK'
  <2>1. /\ userdata' = [userdata EXCEPT ![s] = "finalized"] /\ submitted' = submitted \cup {<<"close", s>>}
        /\ UNCHANGED <<stmt, target, gced>>
    BY <1>3 DEF FinalizeStatement, Finalizable, InsertAction
  <2>2. \A o \in Objects : userdata'[o] = IF o = s THEN "finalized" ELSE userdata[o]
    BY <1>0, <2>1 DEF TypeOK
  <2> QED
    BY <1>0, <2>1, <2>2
<1>4. CASE FinalizeDatabase
  <2>1. /\ userdata' = [userdata EXCEPT ![Db] = "finalized"]
        /\ \/ submitted' = submitted \cup {<<"close", Db>>} /\ gced'
           \/ UNCHANGED <<submitted, gced>>
        /\ UNCHANGED <<stmt, target>>
    BY <1>4 DEF FinalizeDatabase, Finalizable
  <2>2. \A o \in Objects : userdata'[o] = IF o = Db THEN "finalized" ELSE userdata[o]
    BY <1>0, <2>1 DEF TypeOK
  <2> QED
    BY <1>0, <2>1, <2>2
<1>5. ASSUME NEW s \in Statements, FinalizeStatementCleanedUp(s) \/ FinalizeStatementError(s)
      PROVE  MadeOK'
  <2>1. userdata' = [userdata EXCEPT ![s] = "finalized"] /\ UNCHANGED <<stmt, target, gced, submitted>>
    BY <1>5 DEF FinalizeStatementCleanedUp, FinalizeStatementError, Finalizable
  <2>2. \A o \in Objects : userdata'[o] = IF o = s THEN "finalized" ELSE userdata[o]
    BY <1>0, <2>1 DEF TypeOK
  <2> QED
    BY <1>0, <2>1, <2>2
<1>6. ASSUME NEW S \in SUBSET Objects, Collect(S) PROVE MadeOK'
  <2>1. /\ UNCHANGED <<stmt, target, gced, submitted>>
        /\ \A o \in Objects : userdata[o] = "finalized" => userdata'[o] = "finalized"
    BY <1>6 DEF Collect
  <2> QED
    BY <1>0, <2>1
<1>7. ASSUME NEW s \in Statements, FinishPrepare(s) PROVE MadeOK'
  <2>1. userdata[s] = "none" /\ stmt[s] = "init"
    BY <1>7, PrepareFinds
  <2>2. /\ stmt' = [stmt EXCEPT ![s] = "prepared"] /\ userdata' = [userdata EXCEPT ![s] = "live"]
        /\ UNCHANGED <<target, gced, submitted>>
    BY <1>7 DEF FinishPrepare
  <2>3. /\ \A x \in Statements : stmt'[x] = "none" <=> stmt[x] = "none"
        /\ \A o \in Objects : userdata[o] = "finalized" => userdata'[o] = "finalized"
    BY <1>0, <2>1, <2>2 DEF TypeOK
  <2> QED
    BY <1>0, <2>2, <2>3
<1>8. ASSUME NEW s \in Statements, FinishClose(s) PROVE MadeOK'
  <2>1. stmt' = [stmt EXCEPT ![s] = "closed"] /\ UNCHANGED <<target, gced, submitted, userdata>>
    BY <1>8 DEF FinishClose
  <2>2. \A x \in Statements : stmt'[x] = "none" <=> stmt[x] = "none"
    BY <1>0, <1>8, <2>1, CloseFinds DEF TypeOK
  <2> QED
    BY <1>0, <2>1, <2>2
<1>9. CASE CloseAll
  <2>1. UNCHANGED <<target, gced, submitted, userdata>>
    BY <1>9 DEF CloseAll
  <2>2. \A x \in Statements : stmt'[x] = "none" <=> stmt[x] = "none"
    BY <1>0, <1>9 DEF CloseAll, IInv, ListedIsOpen
  <2> QED
    BY <1>0, <2>1, <2>2
<1>10. CASE \/ \E o \in Objects : Drop(o)
            \/ FinishCloseDatabase \/ DeleteDatabase
  BY <1>0, <1>10 DEF Drop, FinishCloseDatabase, DeleteDatabase
<1>11. CASE UNCHANGED objectVars
  BY <1>0, <1>11 DEF objectVars
<1> QED
  BY <1>1, <1>2, <1>3, <1>4, <1>5, <1>6, <1>7, <1>8, <1>9, <1>10, <1>11, ObjectsStay
  DEF Next, LuaCode, Finalizers, Hooks, Stopped

(* What a finalizer does to the userdata.                                   *)
LEMMA FinalizedOne ==
  ASSUME TypeOK, UserdataOK, NEW o \in Objects, Finalizable(o)
  PROVE  /\ \A x \in Objects : userdata'[x] = IF x = o THEN "finalized" ELSE userdata[x]
         /\ userdata[o] \notin {"none", "finalized"}
         /\ mode # "down" => o \notin held
<1>1. userdata' = [userdata EXCEPT ![o] = "finalized"]
  BY DEF Finalizable
<1> QED
  BY <1>1 DEF TypeOK, UserdataOK, Finalizable

LEMMA NextUserdata ==
  ASSUME IInv, [Next]_vars
  PROVE  UserdataOK'
<1> USE ActionsDiffer DEF dbVars, callVars, luaVars, hookVars, UserdataOK
<1>0. UserdataOK /\ TypeOK /\ held \subseteq Objects
  BY DEF IInv, TypeOK
<1>1. ASSUME NEW s \in Statements, prepare(s) PROVE UserdataOK'
  <2>1. /\ stmt' = [stmt EXCEPT ![s] = "init"] /\ stmt[s] = "none"
        /\ UNCHANGED <<target, userdata, held, mode, deleted>>
    BY <1>1 DEF prepare
  <2>2. stmt'[s] = "init" /\ \A x \in Statements \ {s} : stmt'[x] = stmt[x]
    BY <1>0, <2>1 DEF TypeOK
  <2> QED
    BY <1>0, <2>1, <2>2
<1>2. ASSUME NEW e \in Executions, NEW s \in Callable, execute(e, s) PROVE UserdataOK'
  <2>1. /\ target' = [target EXCEPT ![e] = s] /\ s \in held
        /\ UNCHANGED <<stmt, userdata, held, mode, deleted>>
    BY <1>2 DEF execute, Callable
  <2>2. target'[e] = s /\ \A x \in Executions \ {e} : target'[x] = target[x]
    BY <1>0, <2>1 DEF TypeOK
  <2>3. userdata[s] = "live"
    BY <1>0, <1>2, <2>1, CallFinds DEF execute
  <2> QED
    BY <1>0, <2>1, <2>2, <2>3
<1>3. ASSUME NEW o \in Objects, Drop(o) PROVE UserdataOK'
  BY <1>0, <1>3 DEF Drop
<1>4. ASSUME NEW S \in SUBSET Objects, Collect(S) PROVE UserdataOK'
  <2>1. /\ UNCHANGED <<stmt, target, held, mode, deleted>>
        /\ \A o \in Objects : userdata'[o] = IF o \in S THEN "cleared" ELSE userdata[o]
        /\ \A o \in S : userdata[o] = "live" /\ o \notin held
    BY <1>4 DEF Collect
  <2>2. \A e \in Executions : target[e] # None => target[e] \in Objects
    BY <1>0 DEF TypeOK
  <2> QED
    BY <1>0, <2>1, <2>2
<1>5. ASSUME NEW o \in Objects, Finalizable(o), UNCHANGED <<stmt, target, held, deleted>>,
             mode' # "down" => mode # "down"
      PROVE  UserdataOK'
  <2>1. \A e \in Executions : target[e] # None => target[e] \in Objects
    BY <1>0 DEF TypeOK
  <2> QED
    BY <1>0, <1>5, <2>1, FinalizedOne
<1>6. CASE Finalizers
  <2>1. ASSUME NEW s \in Statements,
               \/ FinalizeStatement(s) \/ FinalizeStatementCleanedUp(s)
               \/ FinalizeStatementError(s)
        PROVE  UserdataOK'
    <3>1. /\ Finalizable(s) /\ UNCHANGED <<stmt, target, held, deleted>>
          /\ mode' # "down" => mode # "down"
      BY <2>1 DEF FinalizeStatement, FinalizeStatementCleanedUp, FinalizeStatementError
    <3> QED
      BY <1>5, <3>1
  <2>2. CASE FinalizeDatabase
    <3>1. Finalizable(Db) /\ UNCHANGED <<stmt, target, held, deleted, mode>>
      BY <2>2 DEF FinalizeDatabase
    <3> QED
      BY <1>5, <3>1
  <2> QED
    BY <1>6, <2>1, <2>2 DEF Finalizers
<1>7. ASSUME NEW s \in Statements, FinishPrepare(s) PROVE UserdataOK'
  <2>1. userdata[s] = "none" /\ stmt[s] = "init"
    BY <1>7, PrepareFinds
  <2>2. /\ stmt' = [stmt EXCEPT ![s] = "prepared"] /\ userdata' = [userdata EXCEPT ![s] = "live"]
        /\ held' = held \cup {s}
        /\ UNCHANGED <<target, mode, deleted>>
    BY <1>7 DEF FinishPrepare
  <2>3. /\ \A x \in Statements : stmt'[x] = IF x = s THEN "prepared" ELSE stmt[x]
        /\ \A o \in Objects : userdata'[o] = IF o = s THEN "live" ELSE userdata[o]
    BY <1>0, <2>2 DEF TypeOK
  <2>4. \A e \in Executions : target[e] # None => target[e] \in Objects
    BY <1>0 DEF TypeOK
  <2> QED
    BY <1>0, <2>1, <2>2, <2>3, <2>4
<1>8. ASSUME NEW s \in Statements, FinishClose(s) PROVE UserdataOK'
  <2>1. stmt' = [stmt EXCEPT ![s] = "closed"] /\ UNCHANGED <<target, held, userdata, mode, deleted>>
    BY <1>8 DEF FinishClose
  <2>2. userdata[s] = "finalized" /\ \A x \in Statements : stmt'[x] = IF x = s THEN "closed" ELSE stmt[x]
    BY <1>0, <1>8, <2>1, CloseFinds DEF TypeOK
  <2> QED
    BY <1>0, <2>1, <2>2
<1>9. CASE CloseAll
  <2>1. UNCHANGED <<target, held, userdata>> /\ deleted' /\ mode' = "down"
    BY <1>9 DEF CloseAll
  <2>2. \A x \in Statements : stmt'[x] = stmt[x] \/ (stmt[x] = "prepared" /\ stmt'[x] = "closed")
    BY <1>0, <1>9 DEF CloseAll, IInv, ListedIsOpen
  <2> QED
    BY <1>0, <2>1, <2>2
<1>10. CASE FinishCloseDatabase \/ DeleteDatabase
  BY <1>0, <1>10 DEF FinishCloseDatabase, DeleteDatabase
<1>11. CASE UNCHANGED objectVars /\ (mode' # "down" => mode # "down")
  BY <1>0, <1>11 DEF objectVars
<1>12. ASSUME \/ executeError \/ TickSuspend \/ ShutdownHook \/ UNCHANGED vars
              \/ \E s \in Statements : FinishPrepareError(s)
              \/ \E e \in Executions : FinishExecute(e) \/ RejectExecute(e) \/ EndExecute(e)
              \/ CallbackReturn \/ CallbackReturnFetch \/ CallbackError
              \/ TickFree \/ TickPoll
       PROVE  mode' # "down" => mode # "down"
  BY <1>12 DEF executeError, TickSuspend, ShutdownHook, vars, FinishPrepareError,
     FinishExecute, RejectExecute, EndExecute, CallbackReturn, CallbackReturnFetch,
     CallbackError, TickFree, TickPoll
<1> QED
  BY <1>1, <1>2, <1>3, <1>4, <1>6, <1>7, <1>8, <1>9, <1>10, <1>11, <1>12, ObjectsStay
  DEF Next, LuaCode, Hooks, Stopped

LEMMA NextDeleted ==
  ASSUME IInv, [Next]_vars
  PROVE  DeletedOK'
<1> USE DEF dbVars, callVars, luaVars, hookVars, DeletedOK
<1>0. DeletedOK /\ TypeOK /\ UserdataOK /\ MadeOK /\ ListedIsOpen
  BY DEF IInv
<1>1. ASSUME NEW s \in Statements, prepare(s) PROVE DeletedOK'
  <2>1. ~ deleted /\ Db \in held /\ instance # "closed"
    BY <1>0, <1>1, CallFinds DEF prepare
  <2> QED
    BY <1>1, <2>1 DEF prepare
<1>2. ASSUME NEW e \in Executions, NEW s \in Callable, execute(e, s) PROVE DeletedOK'
  BY <1>0, <1>2 DEF execute
<1>3. ASSUME NEW o \in Objects, Drop(o) PROVE DeletedOK'
  BY <1>0, <1>3 DEF Drop, Pending
<1>4. ASSUME NEW S \in SUBSET Objects, Collect(S) PROVE DeletedOK'
  BY <1>0, <1>4 DEF Collect, Pending
<1>5. ASSUME NEW s \in Statements, FinalizeStatement(s) PROVE DeletedOK'
  BY <1>0, <1>5 DEF FinalizeStatement
<1>6. ASSUME NEW s \in Statements, FinalizeStatementCleanedUp(s) \/ FinalizeStatementError(s)
      PROVE  DeletedOK'
  <2>1. UNCHANGED <<dbVars, stmt, held, HasCleanedUpAlready>> /\ (mode = "down" => mode' = "down")
    BY <1>0, <1>6 DEF FinalizeStatementCleanedUp, FinalizeStatementError
  <2> QED
    BY <1>0, <2>1 DEF Pending
<1>7. CASE FinalizeDatabase
  <2>1. UNCHANGED <<deleted, instance, stmt, held, hookVars>> /\ (gced => gced')
    BY <1>7 DEF FinalizeDatabase
  <2>2. deleted => HasCleanedUpAlready
    BY <1>0, <1>7 DEF FinalizeDatabase, Finalizable, MadeOK
  <2>3. HasCleanedUpAlready => Pending' = Pending
    BY <1>7 DEF FinalizeDatabase, Pending
  <2> QED
    BY <1>0, <2>1, <2>2, <2>3
<1>8. ASSUME NEW s \in Statements, FinishPrepare(s) PROVE DeletedOK'
  <2>1. /\ held' = held \cup {s} /\ s # Db
        /\ UNCHANGED <<deleted, instance>>
    BY <1>8, ActionsDiffer DEF FinishPrepare
  <2>2. ~ deleted
    BY <1>8, PrepareFinds
  <2> QED
    BY <1>0, <2>1, <2>2
<1>9. ASSUME NEW s \in Statements, FinishClose(s) PROVE DeletedOK'
  BY <1>0, <1>9, CloseFinds DEF FinishClose
<1>10. CASE FinishCloseDatabase
  <2>1. gced /\ ~ deleted /\ mode # "down"
    BY <1>10, CloseDatabaseFinds
  <2>2. Db \notin held
    BY <1>0, <2>1 DEF MadeOK, UserdataOK
  <2> QED
    BY <1>10, <2>1, <2>2 DEF FinishCloseDatabase
<1>11. CASE DeleteDatabase
  <2>1. gced /\ mode # "down" /\ Pending = <<>> /\ UNCHANGED Pending
    BY <1>0, <1>11, PendingFacts DEF DeleteDatabase, Ticked, Pending
  <2>2. Db \notin held
    BY <1>0, <2>1 DEF MadeOK, UserdataOK
  <2> QED
    BY <1>0, <1>11, <2>1, <2>2 DEF DeleteDatabase
<1>12. CASE CloseAll
  <2>1. Pending = <<>> /\ UNCHANGED Pending
    BY <1>0, <1>12, PendingFacts DEF CloseAll, Pending
  <2>2. UNCHANGED <<gced, held>> /\ mode' = "down" /\ deleted' /\ mode = "shutdown"
    BY <1>12 DEF CloseAll
  <2>3. CASE deleted
    <3>1. gced /\ Db \notin held
      BY <1>0, <2>2, <2>3
    <3> QED
      BY <2>1, <2>2, <3>1
  <2>4. CASE ~ deleted
    <3>1. HasCleanedUpAlready'
      BY <1>12, <2>4 DEF CloseAll, Disarmed
    <3>2. \A s \in Statements : stmt'[s] # "prepared"
      BY <1>0, <1>12, <2>4 DEF CloseAll, ListedIsOpen
    <3> QED
      BY <2>1, <2>2, <3>1, <3>2
  <2> QED
    BY <2>3, <2>4
<1>13. ASSUME UNCHANGED objectVars, UNCHANGED HasCleanedUpAlready, mode = "down" => mode' = "down",
              deleted => Pending' = <<>>
       PROVE  DeletedOK'
  BY <1>0, <1>13 DEF objectVars
<1>14. ASSUME \/ executeError \/ TickSuspend \/ ShutdownHook \/ UNCHANGED vars
              \/ \E s \in Statements : FinishPrepareError(s)
              \/ \E e \in Executions : FinishExecute(e) \/ RejectExecute(e) \/ EndExecute(e)
              \/ CallbackReturn \/ CallbackReturnFetch \/ CallbackError
              \/ TickFree \/ TickPoll
       PROVE  DeletedOK'
  <2>1. UNCHANGED HasCleanedUpAlready /\ (mode = "down" => mode' = "down")
    BY <1>14 DEF executeError, TickSuspend, ShutdownHook, vars, FinishPrepareError,
       FinishExecute, RejectExecute, EndExecute, CallbackReturn, CallbackReturnFetch,
       CallbackError, TickFree, TickPoll
  <2>2. \/ UNCHANGED Pending
        \/ TickSuspend /\ queue # <<>> /\ current_action = None
        \/ \E s \in Statements : FinishPrepareError(s)
        \/ \E e \in Executions : FinishExecute(e) \/ RejectExecute(e) \/ EndExecute(e)
        \/ CallbackReturn \/ TickFree
    BY <1>14 DEF executeError, ShutdownHook, vars, CallbackReturnFetch, CallbackError,
       TickPoll, TickSuspend, Pending
  <2>3. deleted => UNCHANGED Pending
    <3>1. ASSUME Busy PROVE ~ deleted
      BY <1>0, <3>1, PendingFacts
    <3>2. AnsweredOK
      BY DEF IInv
    <3> QED
      BY <1>0, <2>2, <3>1, <3>2, FinishedBusy DEF TickSuspend, FinishPrepareError,
         FinishExecute, RejectExecute, EndExecute, CallbackReturn, TickFree, Completed, Busy
  <2> QED
    BY <1>0, <1>13, <1>14, <2>1, <2>3, ObjectsStay
<1> QED
  BY <1>1, <1>2, <1>3, <1>4, <1>5, <1>6, <1>7, <1>8, <1>9, <1>10, <1>11, <1>12, <1>14
  DEF Next, LuaCode, Finalizers, Hooks, Stopped

(* The pointer of a statement is used after delete, or its calls raise,     *)
(* only without the userdata of the database.                               *)
LEMMA NextDangling ==
  ASSUME IInv, [Next]_vars
  PROVE  NoDanglingDatabase'
<1> USE DEF dbVars, callVars, luaVars, hookVars
<1>0. DeletedOK /\ UserdataOK /\ MadeOK /\ NoDanglingDatabase /\ DeletedOK'
  BY NextDeleted DEF IInv
<1>1. Db \in held' => Db \in held
  BY ActionsDiffer DEF Next, LuaCode, prepare, execute, executeError, Drop, Collect,
     Finalizers, FinalizeStatement, FinalizeStatementCleanedUp, FinalizeStatementError,
     FinalizeDatabase, TickSuspend, Hooks, FinishPrepare, FinishPrepareError,
     FinishExecute, RejectExecute, EndExecute, FinishClose, FinishCloseDatabase,
     CallbackReturn, CallbackReturnFetch, CallbackError, TickFree, TickPoll,
     DeleteDatabase, CloseAll, ShutdownHook, Stopped, vars
<1>2. CASE UNCHANGED <<dangling, refused>>
  BY <1>0, <1>1, <1>2 DEF NoDanglingDatabase, DeletedOK
<1>3. CASE executeError
  <2>1. mode # "down" /\ (Db \in held => ~ deleted /\ ~ PushRaises)
    BY <1>3, CallFinds DEF executeError
  <2> QED
    BY <1>0, <1>1, <1>3, <2>1 DEF executeError, NoDanglingDatabase, DeletedOK
<1>4. ASSUME NEW s \in Statements, FinalizeStatementError(s) PROVE NoDanglingDatabase'
  <2>1. dangling' = deleted /\ ~ HasCleanedUpAlready /\ UNCHANGED refused
    BY <1>4 DEF FinalizeStatementError
  <2>2. Db \in held => ~ deleted
    BY <1>0, <2>1 DEF DeletedOK
  <2> QED
    BY <1>0, <1>1, <2>1, <2>2 DEF NoDanglingDatabase, DeletedOK
<1> QED
  BY <1>2, <1>3, <1>4 DEF Next, LuaCode, prepare, execute, Drop, Collect, Finalizers,
     FinalizeStatement, FinalizeStatementCleanedUp, FinalizeDatabase, TickSuspend, Hooks,
     FinishPrepare, FinishPrepareError, FinishExecute, RejectExecute, EndExecute,
     FinishClose, FinishCloseDatabase, CallbackReturn, CallbackReturnFetch, CallbackError,
     TickFree, TickPoll, DeleteDatabase, CloseAll, ShutdownHook, Stopped, vars

-----------------------------------------------------------------------------
(* Objects and the queue                                                    *)

(* Who makes an action.                                                     *)
LEMMA JoinsBy ==
  ASSUME [Next]_vars, NEW a \in Actions, Joins(a)
  PROVE  \/ \E s \in Statements : a = <<"prepare", s>> /\ prepare(s)
         \/ \E e \in Executions, s \in Callable : a = <<"execute", e>> /\ execute(e, s)
         \/ \E s \in Statements : a = <<"close", s>> /\ FinalizeStatement(s)
         \/ a = <<"close", Db>> /\ FinalizeDatabase
<1> USE DEF dbVars, callVars, luaVars, hookVars
<1>1. a \in submitted' /\ a \notin submitted
  BY DEF Joins
<1>2. CASE LuaCode
  BY <1>1, <1>2 DEF LuaCode, prepare, execute, executeError, Drop, InsertAction
<1>3. CASE Finalizers
  BY <1>1, <1>3 DEF Finalizers, FinalizeStatement, FinalizeStatementCleanedUp,
     FinalizeStatementError, FinalizeDatabase, InsertAction
<1>4. CASE Hooks
  BY <1>1, <1>4 DEF Hooks, FinishPrepare, FinishPrepareError, FinishExecute,
     RejectExecute, EndExecute, FinishClose, FinishCloseDatabase, CallbackReturn,
     CallbackReturnFetch, CallbackError, TickFree, TickPoll, DeleteDatabase, CloseAll,
     vars
<1> QED
  BY <1>1, <1>2, <1>3, <1>4 DEF Next, Collect, TickSuspend, ShutdownHook, Stopped, vars

(* The queue moves up by d places; what waited, waits, and what is new is   *)
(* behind it.                                                               *)
LEMMA PlaceStep ==
  ASSUME IInv, [Next]_vars
  PROVE  \E d \in {0, 1} : \A a \in Actions : \A i \in IndexIn(Pending', a) :
           /\ i \in Nat
           /\ \/ i + d \in IndexIn(Pending, a) /\ (Waits(i)' => Waits(i + d))
              \/ Joins(a) /\ d = 0 /\ \A k \in DOMAIN Pending : k < i
<1> USE DEF IndexIn, Waits
<1>0. TypeOK /\ Pending \in Seq(Actions) /\ DOMAIN Pending = 1..Len(Pending) /\ Len(Pending) \in Nat
  BY PendingFacts, LenProperties DEF IInv
<1>1. ASSUME NEW a \in Actions, Joins(a)
      PROVE  \A b \in Actions : \A i \in IndexIn(Pending', b) :
               /\ i \in Nat
               /\ \/ i + 0 \in IndexIn(Pending, b) /\ (Waits(i)' => Waits(i + 0))
                  \/ Joins(b) /\ \A k \in DOMAIN Pending : k < i
  <2>1. /\ DOMAIN Pending' = 1..Len(Pending) + 1
        /\ \A i \in DOMAIN Pending : Pending'[i] = Pending[i]
        /\ Pending'[Len(Pending) + 1] = a
    BY <1>0, <1>1, AppendIndex DEF Joins
  <2>2. Settled' <=> Settled
    BY <1>1 DEF Joins, Settled
  <2> QED
    BY <1>0, <1>1, <2>1, <2>2
<1>2. CASE Leaves
  <2>1. \A i \in DOMAIN Pending' : i \in Nat /\ i > 0 /\ i + 1 \in DOMAIN Pending /\ Pending'[i] = Pending[i + 1]
    BY <1>0, <1>2, TailIndex DEF Leaves
  <2>2. \A a \in Actions : \A i \in IndexIn(Pending', a) :
          i \in Nat /\ i + 1 \in IndexIn(Pending, a) /\ Waits(i + 1)
    BY <2>1
  <2> QED
    BY <2>2
<1>3. CASE Pending' = Pending /\ (~ Settled' => ~ Settled)
  <2>1. \A a \in Actions : \A i \in IndexIn(Pending', a) :
          i \in Nat /\ i + 0 \in IndexIn(Pending, a) /\ (Waits(i)' => Waits(i + 0))
    BY <1>0, <1>3
  <2> QED
    BY <2>1
<1>4. Stays => Pending' = Pending /\ (~ Settled' => ~ Settled)
  BY DEF Stays, Settled
<1> QED
  BY <1>1, <1>2, <1>3, <1>4, QueueStep DEF Answers

(* An execution that is queued keeps its statement, and that its handle.    *)
LEMMA TargetKept ==
  ASSUME IInv, [Next]_vars, NEW e \in Executions, NEW k \in IndexIn(Pending, <<"execute", e>>)
  PROVE  /\ target'[e] = target[e] /\ target[e] \in Statements
         /\ stmt'[target[e]] = "prepared"
<1> USE DEF dbVars, callVars, luaVars, hookVars
<1>0. TypeOK /\ QueuedOnce /\ MadeOK /\ DeletedOK /\ ExecutesBeforeClose
  BY DEF IInv
<1>1. target[e] \in Statements /\ Pending # <<>> /\ k \in Nat /\ k > 0
  <2>1. <<"execute", e>> \in submitted /\ Pending # <<>> /\ k \in DOMAIN Pending
    BY <1>0 DEF IndexIn, QueuedOnce
  <2>2. DOMAIN Pending = 1..Len(Pending)
    BY <1>0, PendingFacts, LenProperties
  <2> QED
    BY <1>0, <2>1, <2>2 DEF MadeOK, TypeOK
<1>2. target'[e] = target[e]
  <2>1. ASSUME NEW x \in Executions, NEW s \in Callable, execute(x, s) PROVE target'[e] = target[e]
    BY <1>0, <1>1, <2>1, ActionsDiffer DEF execute, TypeOK
  <2> QED
    BY <2>1 DEF Next, LuaCode, prepare, executeError, Drop, Collect, Finalizers,
       FinalizeStatement, FinalizeStatementCleanedUp, FinalizeStatementError,
       FinalizeDatabase, TickSuspend, Hooks, FinishPrepare, FinishPrepareError,
       FinishExecute, RejectExecute, EndExecute, FinishClose, FinishCloseDatabase,
       CallbackReturn, CallbackReturnFetch, CallbackError, TickFree, TickPoll,
       DeleteDatabase, CloseAll, ShutdownHook, Stopped, vars
<1>3. stmt'[target[e]] = "prepared"
  <2>0. stmt[target[e]] = "prepared"
    BY <1>0 DEF ExecutesBeforeClose
  <2>1. ASSUME NEW s \in Statements, prepare(s) PROVE stmt'[target[e]] = "prepared"
    BY <1>0, <1>1, <2>0, <2>1 DEF prepare, TypeOK
  <2>2. ASSUME NEW s \in Statements, FinishPrepare(s) PROVE stmt'[target[e]] = "prepared"
    BY <1>0, <1>1, <2>0, <2>2 DEF FinishPrepare, TypeOK
  <2>3. ASSUME NEW s \in Statements, FinishClose(s) PROVE stmt'[target[e]] = "prepared"
    <3>1. s # target[e]
      <4>1. IndexIn(Pending, <<"close", s>>) = {1}
        BY <2>3, CloseFinds
      <4>2. \A j \in IndexIn(Pending, <<"close", target[e]>>) : k < j
        BY <1>0 DEF ExecutesBeforeClose
      <4> QED
        BY <1>1, <4>1, <4>2
    <3> QED
      BY <1>0, <1>1, <2>0, <2>3, <3>1 DEF FinishClose, TypeOK
  <2>4. ~ CloseAll
    BY <1>0, <1>1, PendingFacts DEF CloseAll
  <2> QED
    BY <2>0, <2>1, <2>2, <2>3, <2>4 DEF Next, LuaCode, execute, executeError, Drop,
       Collect, Finalizers, FinalizeStatement, FinalizeStatementCleanedUp,
       FinalizeStatementError, FinalizeDatabase, TickSuspend, Hooks, FinishPrepareError,
       FinishExecute, RejectExecute, EndExecute, FinishCloseDatabase, CallbackReturn,
       CallbackReturnFetch, CallbackError, TickFree, TickPoll, DeleteDatabase,
       ShutdownHook, Stopped, vars
<1> QED
  BY <1>1, <1>2, <1>3

LEMMA NextPrepares ==
  ASSUME IInv, [Next]_vars
  PROVE  PreparesFirst'
<1> USE DEF dbVars, callVars, luaVars, hookVars
<1>0. TypeOK /\ MadeOK /\ UserdataOK /\ PreparesFirst /\ DeletedOK
  BY DEF IInv
<1> SUFFICES ASSUME NEW s \in Statements, NEW i \in IndexIn(Pending', <<"prepare", s>>), Waits(i)'
             PROVE  stmt'[s] = "init"
  BY DEF PreparesFirst
<1>1. <<"prepare", s>> \in Actions
  BY ActionsDiffer
<1>2. CASE Joins(<<"prepare", s>>)
  <2>1. prepare(s)
    BY <1>1, <1>2, JoinsBy
  <2> QED
    BY <1>0, <2>1 DEF prepare, TypeOK
<1>3. ASSUME NEW k \in IndexIn(Pending, <<"prepare", s>>), Waits(k)
      PROVE  stmt'[s] = "init"
  <2>0. stmt[s] = "init" /\ Pending # <<>>
    BY <1>0, <1>3 DEF PreparesFirst, IndexIn
  <2>1. ASSUME NEW x \in Statements, prepare(x) PROVE stmt'[s] = "init"
    BY <1>0, <2>0, <2>1 DEF prepare, TypeOK
  <2>2. ASSUME NEW x \in Statements, FinishPrepare(x) PROVE stmt'[s] = "init"
    <3>1. CASE x = s
      <4>1. IndexIn(Pending, <<"prepare", s>>) = {1} /\ Pending' = Pending /\ Settled'
        <5>1. /\ Completed(<<"prepare", s>>) /\ Settle(<<"prepare", s>>, "resolved")
          BY <2>2, <3>1 DEF FinishPrepare
        <5>2. Busy /\ <<"prepare", s>> = Active
          BY <5>1 DEF Completed
        <5>3. Pending' = Pending
          BY <1>0, <5>1, <5>2, PendingTake DEF Settle, Answer
        <5>4. Settled'
          BY <1>0, <5>1, ActionsDiffer DEF Settle, Answer, Settled, TypeOK
        <5> QED
          BY <2>2, <3>1, <5>3, <5>4, PrepareFinds
      <4> QED
        BY <4>1 DEF Waits
    <3>2. CASE x # s
      BY <1>0, <2>0, <2>2, <3>2 DEF FinishPrepare, TypeOK
    <3> QED
      BY <3>1, <3>2
  <2>3. ASSUME NEW x \in Statements, FinishClose(x) PROVE stmt'[s] = "init"
    BY <1>0, <2>0, <2>3, CloseFinds DEF FinishClose, TypeOK
  <2>4. ~ CloseAll
    BY <1>0, <2>0, PendingFacts DEF CloseAll
  <2> QED
    BY <2>0, <2>1, <2>2, <2>3, <2>4 DEF Next, LuaCode, execute, executeError, Drop,
       Collect, Finalizers, FinalizeStatement, FinalizeStatementCleanedUp,
       FinalizeStatementError, FinalizeDatabase, TickSuspend, Hooks, FinishPrepareError,
       FinishExecute, RejectExecute, EndExecute, FinishCloseDatabase, CallbackReturn,
       CallbackReturnFetch, CallbackError, TickFree, TickPoll, DeleteDatabase,
       ShutdownHook, Stopped, vars
<1> QED
  BY <1>1, <1>2, <1>3, PlaceStep

LEMMA NextExecutes ==
  ASSUME IInv, [Next]_vars
  PROVE  ExecutesBeforeClose'
<1>0. /\ TypeOK /\ QueuedOnce /\ MadeOK /\ UserdataOK /\ DeletedOK /\ ExecutesBeforeClose
      /\ ListedIsOpen
  BY DEF IInv
<1> SUFFICES ASSUME NEW e \in Executions, NEW i \in IndexIn(Pending', <<"execute", e>>)
             PROVE  /\ stmt'[target'[e]] = "prepared"
                    /\ \A j \in IndexIn(Pending', <<"close", target'[e]>>) : i < j
  BY DEF ExecutesBeforeClose
<1> DEFINE a == <<"execute", e>>
<1>1. a \in Actions
  BY ActionsDiffer
<1>2. PICK d \in {0, 1} : \A b \in Actions : \A j \in IndexIn(Pending', b) :
        /\ j \in Nat
        /\ \/ j + d \in IndexIn(Pending, b)
           \/ Joins(b) /\ d = 0 /\ \A k \in DOMAIN Pending : k < j
  BY PlaceStep
<1>3. CASE i + d \in IndexIn(Pending, a)
  <2>1. /\ target'[e] = target[e] /\ target[e] \in Statements
        /\ stmt'[target[e]] = "prepared"
    BY <1>3, TargetKept
  <2>2. ASSUME NEW j \in IndexIn(Pending', <<"close", target[e]>>)
        PROVE  i < j
    <3>1. <<"close", target[e]>> \in Actions
      BY <2>1, ActionsDiffer
    <3>2. i \in Nat /\ j \in Nat
      BY <1>1, <1>2, <2>2, <3>1
    <3>3. CASE j + d \in IndexIn(Pending, <<"close", target[e]>>)
      <4>1. i + d < j + d
        BY <1>0, <1>3, <3>3 DEF ExecutesBeforeClose
      <4> QED
        BY <3>2, <4>1
    <3>4. CASE d = 0 /\ \A k \in DOMAIN Pending : k < j
      BY <1>3, <3>2, <3>4 DEF IndexIn
    <3> QED
      BY <1>2, <2>2, <3>1, <3>3, <3>4
  <2> QED
    BY <1>3, <2>1, <2>2
<1>4. CASE Joins(a) /\ \A k \in DOMAIN Pending : k < i
  <2>1. PICK s \in Callable : execute(e, s)
    BY <1>1, <1>4, JoinsBy
  <2>2. target'[e] = s /\ UNCHANGED stmt /\ s \in held /\ s \in Statements /\ ~ deleted
    BY <1>0, <2>1 DEF execute, Callable, TypeOK
  <2>3. userdata[s] = "live" /\ stmt[s] = "prepared"
    <3>1. userdata[s] = "live"
      BY <1>0, <2>1, <2>2, CallFinds DEF execute, UserdataOK
    <3> QED
      BY <1>0, <2>2, <3>1 DEF UserdataOK
  <2>4. IndexIn(Pending', <<"close", s>>) = {}
    <3>1. <<"close", s>> \in Actions /\ s \in Objects
      BY <2>2, ActionsDiffer
    <3>2. <<"close", s>> \notin submitted
      BY <1>0, <2>3, <3>1 DEF MadeOK
    <3>3. IndexIn(Pending, <<"close", s>>) = {}
      BY <1>0, <3>2 DEF QueuedOnce, IndexIn
    <3>4. ~ Joins(<<"close", s>>)
      BY <1>4 DEF Joins
    <3> QED
      BY <1>2, <3>1, <3>3, <3>4
  <2> QED
    BY <2>2, <2>3, <2>4
<1> QED
  BY <1>1, <1>2, <1>3, <1>4

LEMMA NextListed ==
  ASSUME IInv, [Next]_vars
  PROVE  ListedIsOpen'
<1> USE DEF dbVars, callVars, luaVars, hookVars
<1>0. TypeOK /\ QueuedOnce /\ MadeOK /\ UserdataOK /\ DeletedOK /\ ListedIsOpen
  BY DEF IInv
<1>1. ~ deleted' => stmts' = {s \in Statements : stmt'[s] = "prepared"}
  <2>1. ASSUME NEW s \in Statements, prepare(s)
        PROVE  ~ deleted' => stmts' = {x \in Statements : stmt'[x] = "prepared"}
    BY <1>0, <2>1 DEF prepare, TypeOK, ListedIsOpen
  <2>2. ASSUME NEW s \in Statements, FinishPrepare(s)
        PROVE  ~ deleted' => stmts' = {x \in Statements : stmt'[x] = "prepared"}
    BY <1>0, <2>2 DEF FinishPrepare, Listed, TypeOK, ListedIsOpen
  <2>3. ASSUME NEW s \in Statements, FinishClose(s)
        PROVE  ~ deleted' => stmts' = {x \in Statements : stmt'[x] = "prepared"}
    BY <1>0, <2>3 DEF FinishClose, Unlisted, TypeOK, ListedIsOpen
  <2>4. CASE CloseAll
    BY <2>4 DEF CloseAll
  <2>5. CASE UNCHANGED <<stmts, stmt>> /\ (~ deleted' => ~ deleted)
    BY <1>0, <2>5 DEF ListedIsOpen
  <2>6. CASE Finalizers
    BY <2>5, <2>6 DEF Finalizers, FinalizeStatement, FinalizeStatementCleanedUp,
       FinalizeStatementError, FinalizeDatabase
  <2>7. CASE \/ \E e \in Executions, s \in Callable : execute(e, s)
             \/ executeError \/ \E o \in Objects : Drop(o)
             \/ \E S \in SUBSET Objects : Collect(S)
    BY <2>5, <2>7 DEF execute, executeError, Drop, Collect
  <2>8. CASE \/ \E s \in Statements : FinishPrepareError(s)
             \/ \E e \in Executions : FinishExecute(e) \/ RejectExecute(e) \/ EndExecute(e)
    BY <2>5, <2>8 DEF FinishPrepareError, FinishExecute, RejectExecute, EndExecute
  <2>10. CASE \/ FinishCloseDatabase
              \/ CallbackReturn \/ CallbackReturnFetch \/ CallbackError
    BY <2>5, <2>10 DEF FinishCloseDatabase, CallbackReturn, CallbackReturnFetch,
       CallbackError
  <2>11. CASE TickFree \/ TickPoll \/ DeleteDatabase
    BY <2>5, <2>11 DEF TickFree, TickPoll, DeleteDatabase, vars
  <2>9. CASE TickSuspend \/ ShutdownHook \/ UNCHANGED vars
    BY <2>5, <2>9 DEF TickSuspend, ShutdownHook, vars
  <2> QED
    BY <2>1, <2>2, <2>3, <2>4, <2>6, <2>7, <2>8, <2>9, <2>10, <2>11
       DEF Next, LuaCode, Hooks, Stopped
<1>2. ASSUME NEW s \in Statements, NEW i \in IndexIn(Pending', <<"close", s>>)
      PROVE  s \in stmts'
  <2>1. <<"close", s>> \in Actions /\ s \in Objects
    BY ActionsDiffer
  <2>2. CASE Joins(<<"close", s>>)
    <3>1. FinalizeStatement(s)
      BY <2>1, <2>2, JoinsBy, ActionsDiffer
    <3>2. ~ deleted /\ UNCHANGED stmts /\ userdata[s] \notin {"none", "finalized"}
      BY <1>0, <2>1, <3>1, FinalizedOne DEF FinalizeStatement
    <3> QED
      BY <1>0, <3>2 DEF UserdataOK, ListedIsOpen
  <2>3. ASSUME NEW k \in IndexIn(Pending, <<"close", s>>)
        PROVE  s \in stmts'
    <3>0. s \in stmts /\ Pending # <<>>
      BY <1>0, <2>3 DEF ListedIsOpen, IndexIn
    <3>1. ASSUME NEW x \in Statements, FinishClose(x) PROVE s \in stmts'
      <4>1. s # x
        <5>1. SUFFICES ASSUME s = x PROVE FALSE
          OBVIOUS
        <5>2. /\ IndexIn(Pending, <<"close", s>>) = {1} /\ Pending' = Tail(Pending) /\ Pending # <<>>
          BY <3>1, <5>1, CloseFinds
        <5>3. i \in Nat /\ i > 0 /\ i + 1 \in IndexIn(Pending, <<"close", s>>)
          BY <1>0, <1>2, <5>2, PendingFacts, TailIndex DEF IndexIn
        <5> QED
          BY <5>2, <5>3
      <4> QED
        BY <3>0, <3>1, <4>1 DEF FinishClose, Unlisted
    <3>2. ASSUME NEW x \in Statements, FinishPrepare(x) PROVE s \in stmts'
      BY <3>0, <3>2 DEF FinishPrepare, Listed
    <3>3. ~ CloseAll
      BY <1>0, <3>0, PendingFacts DEF CloseAll
    <3> QED
      BY <3>0, <3>1, <3>2, <3>3 DEF Next, LuaCode, prepare, execute, executeError, Drop,
         Collect, Finalizers, FinalizeStatement, FinalizeStatementCleanedUp,
         FinalizeStatementError, FinalizeDatabase, TickSuspend, Hooks, FinishPrepareError,
         FinishExecute, RejectExecute, EndExecute, FinishCloseDatabase, CallbackReturn,
         CallbackReturnFetch, CallbackError, TickFree, TickPoll, DeleteDatabase,
         ShutdownHook, Stopped, vars
  <2> QED
    BY <1>2, <2>1, <2>2, <2>3, PlaceStep
<1> QED
  BY <1>1, <1>2 DEF ListedIsOpen

-----------------------------------------------------------------------------
(* The invariant, and what follows from it                                  *)

LEMMA InitIInv == Init => IInv
<1> SUFFICES ASSUME Init PROVE IInv
  OBVIOUS
<1>1. TypeOK
  BY InitType
<1>2. Pending = <<>> /\ \A a : IndexIn(Pending, a) = {}
  BY DEF Init, Pending, IndexIn
<1> USE <1>2, ActionsDiffer DEF Init
<1>3. QueuedOnce /\ PreparesFirst /\ ExecutesBeforeClose
  BY DEF QueuedOnce, PreparesFirst, ExecutesBeforeClose
<1>4. MadeOK /\ UserdataOK
  BY DEF MadeOK, UserdataOK
<1>5. AnsweredOK /\ DeletedOK
  BY DEF AnsweredOK, DeletedOK, Settled
<1>6. ListedIsOpen /\ NoDanglingDatabase
  BY DEF ListedIsOpen, NoDanglingDatabase
<1> QED
  BY <1>1, <1>3, <1>4, <1>5, <1>6 DEF IInv

LEMMA IInvHolds == Spec => []IInv
<1>1. Init => IInv
  BY InitIInv
<1>2. IInv /\ [Next]_vars => IInv'
  BY NextType, NextOnce, NextMade, NextUserdata, NextPrepares, NextAnswered, NextDeleted,
     NextExecutes, NextListed, NextDangling DEF IInv
<1> QED
  BY <1>1, <1>2, PTL DEF Spec

(* The types of database, statements, actions and userdata.                 *)
THEOREM TypeCorrect == Spec => []TypeOK
<1>1. IInv => TypeOK
  BY DEF IInv
<1> QED
  BY <1>1, IInvHolds, PTL

(* A queued execution finds its statement prepared, whenever the statement  *)
(* is lost and whatever else is queued: its closing comes later.            *)
THEOREM ExecutesFirst == Spec => []ExecutesBeforeClose
<1>1. IInv => ExecutesBeforeClose
  BY DEF IInv
<1> QED
  BY <1>1, IInvHolds, PTL

(* db->stmts is the set of open handles until the database is deleted, and  *)
(* every queued closing finds its statement there.                          *)
THEOREM Listing == Spec => []ListedIsOpen
<1>1. IInv => ListedIsOpen
  BY DEF IInv
<1> QED
  BY <1>1, IInvHolds, PTL

(* A program that keeps its database never uses a deleted one through a     *)
(* statement, and no statement of it outlives the connection.               *)
THEOREM NothingDangles == Spec => []NoDanglingDatabase
<1>1. IInv => NoDanglingDatabase
  BY DEF IInv
<1> QED
  BY <1>1, IInvHolds, PTL

-----------------------------------------------------------------------------
(* The queue of a database with statements is a serial service              *)

LEMMA ServeStep ==
  ASSUME IInv, [Next]_vars
  PROVE  [Service!Next]_(Service!vars)
<1> DEFINE P == [d \in {Db} |-> Pending]
           ans == [a \in Actions |-> IF a \in Requests THEN outcome[a] ELSE "none"]
           own == submitted \cap Requests
<1>0. TypeOK /\ QueuedOnce /\ AnsweredOK /\ Pending \in Seq(Actions)
  BY PendingFacts DEF IInv
<1>1. ASSUME NEW a \in Actions, Joins(a) PROVE Service!Accept(Db, a)
  <2>1. P' = [P EXCEPT ![Db] = Append(P[Db], a)]
    BY <1>1 DEF Joins
  <2>2. ans' = ans /\ own' \in {own, own \cup {a}} /\ submitted' = submitted \cup {a} /\ a \notin submitted
    BY <1>1 DEF Joins
  <2> QED
    BY <2>1, <2>2 DEF Service!Accept
<1>2. ASSUME Leaves PROVE Service!Retire(Db)
  <2>1. /\ P' = [P EXCEPT ![Db] = Tail(P[Db])] /\ P[Db] # <<>>
        /\ submitted' = submitted /\ own' = own /\ ans' = ans
    BY <1>2 DEF Leaves
  <2>2. Head(P[Db]) \in own => ans[Head(P[Db])] # "none"
    <3>1. ASSUME Head(Pending) \in Requests PROVE outcome[Head(Pending)] # "none"
      BY <1>0, <1>2, <3>1, PendingFacts, ActionsDiffer DEF Leaves, Settled
    <3> QED
      BY <3>1, ActionsDiffer
  <2> QED
    BY <2>1, <2>2 DEF Service!Retire
<1>3. ASSUME NEW r \in Requests, NEW result \in {"resolved", "rejected"}, Answers(r, result)
      PROVE  Service!Answer(Db, result)
  <2>1. P' = P /\ P[Db] # <<>> /\ Head(P[Db]) = r /\ UNCHANGED submitted /\ r \in Actions
    BY <1>3, ActionsDiffer DEF Answers
  <2>2. outcome[r] = "none"
    <3>1. 1 \in IndexIn(Pending, r) /\ Waits(1)
      BY <1>0, <1>3, TailIndex DEF Answers, IndexIn, Waits
    <3> QED
      BY <1>0, <3>1 DEF AnsweredOK
  <2>3. outcome' = [outcome EXCEPT ![r] = result] /\ outcome \in [Requests -> {"none", "resolved", "rejected"}]
    BY <1>0, <1>3 DEF Answers, TypeOK
  <2>4. ans' = [ans EXCEPT ![r] = result] /\ ans[r] = "none"
    BY <2>1, <2>2, <2>3, ActionsDiffer
  <2> QED
    BY <2>1, <2>4 DEF Service!Answer
<1>4. CASE Stays
  <2>1. P' = P /\ ans' = ans /\ UNCHANGED submitted
    BY <1>4 DEF Stays
  <2> QED
    BY <2>1 DEF Service!vars
<1> QED
  BY <1>1, <1>2, <1>3, <1>4, QueueStep DEF Service!Next

(* Whatever statements do, their database accepts calls, answers the oldest *)
(* one, and retires it answered: SerialService is implemented.              *)
THEOREM ServesInOrder == Spec => ImplementsService
<1>1. Init => Service!Init
  BY ActionsDiffer DEF Init, Pending, Service!Init
<1>2. IInv /\ [Next]_vars => [Service!Next]_(Service!vars)
  BY ServeStep
<1> QED
  BY <1>1, <1>2, IInvHolds, PTL DEF Spec, ImplementsService, Service!Spec

=============================================================================
