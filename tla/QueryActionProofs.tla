------------------------- MODULE QueryActionProofs -------------------------
(***************************************************************************)
(* The stages of QueryAction for every number of rows and of suspensions:  *)
(* StagesInStep is inductive, and what a caller relies on follows from it. *)
(***************************************************************************)
EXTENDS QueryAction, SequenceTheorems, TLAPS

(* Storing row n + 1 after the rows 1 to n, in order, gives the rows 1 to   *)
(* n + 1, in order.                                                         *)
LEMMA RowStored ==
  ASSUME NEW n \in Nat
  PROVE  Append([i \in 1..n |-> i], n + 1) = [i \in 1..(n + 1) |-> i]
<1> DEFINE s == [i \in 1..n |-> i]
<1>1. s \in Seq(Nat) /\ Len(s) = n
  OBVIOUS
<1>2. /\ Append(s, n + 1) \in Seq(Nat)
      /\ Len(Append(s, n + 1)) = n + 1
      /\ \A i \in 1..n : Append(s, n + 1)[i] = s[i]
      /\ Append(s, n + 1)[n + 1] = n + 1
  BY <1>1, AppendProperties
<1> HIDE DEF s
<1>3. \A i \in 1..(n + 1) : Append(s, n + 1)[i] = i
  BY <1>2 DEF s
<1>4. Append(s, n + 1) = [i \in 1..(n + 1) |-> i]
  BY <1>2, <1>3
<1> QED
  BY <1>4 DEF s

(* Every flag stays a Boolean in every step.                                *)
LEMMA FlagsNext ==
  ASSUME FlagsOK, [Next]_vars
  PROVE  FlagsOK'
<1> USE BoundsAssumption DEF BoundsAssumption, FlagsOK, actionVars, netVars, luaVars
<1>1. ASSUME NEW n \in 1..MaxRounds, Suspend(n)
      PROVE  FlagsOK'
  BY <1>1 DEF Suspend, Polled, Ticked
<1>2. ASSUME NEW e \in {"lost", "other"}, FinishQueryError(e)
      PROVE  FlagsOK'
  BY <1>2 DEF FinishQueryError, Completed, Polled, Ticked, Reject
<1>3. ASSUME NEW e \in {"lost", "other"}, FinishFetchError(e)
      PROVE  FlagsOK'
  BY <1>3 DEF FinishFetchError, Completed, Polled, Ticked, Reject
<1>4. ASSUME FinishQueryNoRows
      PROVE  FlagsOK'
  BY <1>4 DEF FinishQueryNoRows, Completed, Polled, Ticked, Resolve
<1>5. ASSUME FinishQueryUnused
      PROVE  FlagsOK'
  BY <1>5 DEF FinishQueryUnused, Completed, Polled, Ticked, Reject
<1>6. ASSUME NEW n \in 0..MaxRows, FinishQueryRows(n)
      PROVE  FlagsOK'
  BY <1>6 DEF FinishQueryRows, Completed, Polled, Ticked, GoOn
<1>7. ASSUME FinishFetchRow
      PROVE  FlagsOK'
  BY <1>7 DEF FinishFetchRow, Completed, Polled, Ticked, GoOn
<1>8. ASSUME FinishFetchEnd
      PROVE  FlagsOK'
  BY <1>8 DEF FinishFetchEnd, Completed, Polled, Ticked, GoOn
<1>9. ASSUME FinishFreeResult
      PROVE  FlagsOK'
  BY <1>9 DEF FinishFreeResult, Completed, Polled, Ticked, Resolve
<1>10. ASSUME CallbackReturn
      PROVE  FlagsOK'
  BY <1>10 DEF CallbackReturn, Retry
<1>11. ASSUME CallbackError
      PROVE  FlagsOK'
  BY <1>11 DEF CallbackError
<1>12. ASSUME TickFree
      PROVE  FlagsOK'
  BY <1>12 DEF TickFree
<1>13. ASSUME TickOutOfSync
      PROVE  FlagsOK'
  BY <1>13 DEF TickOutOfSync, Ticked
<1>14. ASSUME SocketReady
      PROVE  FlagsOK'
  BY <1>14 DEF SocketReady
<1>15. ASSUME UNCHANGED vars
      PROVE  FlagsOK'
  BY <1>15 DEF vars
<1> QED
  BY <1>1, <1>2, <1>3, <1>4, <1>5, <1>6, <1>7, <1>8,
     <1>9, <1>10, <1>11, <1>12, <1>13, <1>14, <1>15
  DEF Next, Tick, Stage, Terminated

(* A call suspends at most MaxRounds times, a query is sent at most once,   *)
(* and no more rows are read than the server sent.                          *)
LEMMA CountsNext ==
  ASSUME CountsOK, Progress, Rows, [Next]_vars
  PROVE  CountsOK'
<1> USE BoundsAssumption DEF BoundsAssumption, CountsOK, Progress, Rows, actionVars, netVars, luaVars
<1>1. ASSUME NEW n \in 1..MaxRounds, Suspend(n)
      PROVE  CountsOK'
  BY <1>1 DEF Suspend, Polled, Ticked
<1>2. ASSUME NEW e \in {"lost", "other"}, FinishQueryError(e)
      PROVE  CountsOK'
  BY <1>2 DEF FinishQueryError, Completed, Polled, Ticked, Reject
<1>3. ASSUME NEW e \in {"lost", "other"}, FinishFetchError(e)
      PROVE  CountsOK'
  BY <1>3 DEF FinishFetchError, Completed, Polled, Ticked, Reject
<1>4. ASSUME FinishQueryNoRows
      PROVE  CountsOK'
  BY <1>4 DEF FinishQueryNoRows, Completed, Polled, Ticked, Resolve
<1>5. ASSUME FinishQueryUnused
      PROVE  CountsOK'
  BY <1>5 DEF FinishQueryUnused, Completed, Polled, Ticked, Reject
<1>6. ASSUME NEW n \in 0..MaxRows, FinishQueryRows(n)
      PROVE  CountsOK'
  BY <1>6 DEF FinishQueryRows, Completed, Polled, Ticked, GoOn
<1>7. ASSUME FinishFetchRow
      PROVE  CountsOK'
  BY <1>7 DEF FinishFetchRow, Completed, Polled, Ticked, GoOn
<1>8. ASSUME FinishFetchEnd
      PROVE  CountsOK'
  BY <1>8 DEF FinishFetchEnd, Completed, Polled, Ticked, GoOn
<1>9. ASSUME FinishFreeResult
      PROVE  CountsOK'
  BY <1>9 DEF FinishFreeResult, Completed, Polled, Ticked, Resolve
<1>10. ASSUME CallbackReturn
      PROVE  CountsOK'
  BY <1>10 DEF CallbackReturn, Retry
<1>11. ASSUME CallbackError
      PROVE  CountsOK'
  BY <1>11 DEF CallbackError
<1>12. ASSUME TickFree
      PROVE  CountsOK'
  BY <1>12 DEF TickFree
<1>13. ASSUME TickOutOfSync
      PROVE  CountsOK'
  BY <1>13 DEF TickOutOfSync, Ticked
<1>14. ASSUME SocketReady
      PROVE  CountsOK'
  BY <1>14 DEF SocketReady
<1>15. ASSUME UNCHANGED vars
      PROVE  CountsOK'
  BY <1>15 DEF vars
<1> QED
  BY <1>1, <1>2, <1>3, <1>4, <1>5, <1>6, <1>7, <1>8,
     <1>9, <1>10, <1>11, <1>12, <1>13, <1>14, <1>15
  DEF Next, Tick, Stage, Terminated

(* Every step leaves the stage, the result set, the connection and the      *)
(* promise in one of their states.                                          *)
LEMMA StatesNext ==
  ASSUME StatesOK, [Next]_vars
  PROVE  StatesOK'
<1> USE BoundsAssumption DEF BoundsAssumption, StatesOK, actionVars, netVars, luaVars
<1>1. ASSUME NEW n \in 1..MaxRounds, Suspend(n)
      PROVE  StatesOK'
  BY <1>1 DEF Suspend, Polled, Ticked
<1>2. ASSUME NEW e \in {"lost", "other"}, FinishQueryError(e)
      PROVE  StatesOK'
  BY <1>2 DEF FinishQueryError, Completed, Polled, Ticked, Reject
<1>3. ASSUME NEW e \in {"lost", "other"}, FinishFetchError(e)
      PROVE  StatesOK'
  BY <1>3 DEF FinishFetchError, Completed, Polled, Ticked, Reject
<1>4. ASSUME FinishQueryNoRows
      PROVE  StatesOK'
  BY <1>4 DEF FinishQueryNoRows, Completed, Polled, Ticked, Resolve
<1>5. ASSUME FinishQueryUnused
      PROVE  StatesOK'
  BY <1>5 DEF FinishQueryUnused, Completed, Polled, Ticked, Reject
<1>6. ASSUME NEW n \in 0..MaxRows, FinishQueryRows(n)
      PROVE  StatesOK'
  BY <1>6 DEF FinishQueryRows, Completed, Polled, Ticked, GoOn
<1>7. ASSUME FinishFetchRow
      PROVE  StatesOK'
  BY <1>7 DEF FinishFetchRow, Completed, Polled, Ticked, GoOn
<1>8. ASSUME FinishFetchEnd
      PROVE  StatesOK'
  BY <1>8 DEF FinishFetchEnd, Completed, Polled, Ticked, GoOn
<1>9. ASSUME FinishFreeResult
      PROVE  StatesOK'
  BY <1>9 DEF FinishFreeResult, Completed, Polled, Ticked, Resolve
<1>10. ASSUME CallbackReturn
      PROVE  StatesOK'
  BY <1>10 DEF CallbackReturn, Retry
<1>11. ASSUME CallbackError
      PROVE  StatesOK'
  BY <1>11 DEF CallbackError
<1>12. ASSUME TickFree
      PROVE  StatesOK'
  BY <1>12 DEF TickFree
<1>13. ASSUME TickOutOfSync
      PROVE  StatesOK'
  BY <1>13 DEF TickOutOfSync, Ticked
<1>14. ASSUME SocketReady
      PROVE  StatesOK'
  BY <1>14 DEF SocketReady
<1>15. ASSUME UNCHANGED vars
      PROVE  StatesOK'
  BY <1>15 DEF vars
<1> QED
  BY <1>1, <1>2, <1>3, <1>4, <1>5, <1>6, <1>7, <1>8,
     <1>9, <1>10, <1>11, <1>12, <1>13, <1>14, <1>15
  DEF Next, Tick, Stage, Terminated

(* The result table stays a sequence of rows.                               *)
LEMMA TablesNext ==
  ASSUME TablesOK, CountsOK, [Next]_vars
  PROVE  TablesOK'
<1> USE BoundsAssumption DEF BoundsAssumption, TablesOK, CountsOK, actionVars, netVars, luaVars
<1>1. ASSUME NEW n \in 1..MaxRounds, Suspend(n)
      PROVE  TablesOK'
  BY <1>1 DEF Suspend, Polled, Ticked
<1>2. ASSUME NEW e \in {"lost", "other"}, FinishQueryError(e)
      PROVE  TablesOK'
  BY <1>2 DEF FinishQueryError, Completed, Polled, Ticked, Reject
<1>3. ASSUME NEW e \in {"lost", "other"}, FinishFetchError(e)
      PROVE  TablesOK'
  BY <1>3 DEF FinishFetchError, Completed, Polled, Ticked, Reject
<1>4. ASSUME FinishQueryNoRows
      PROVE  TablesOK'
  BY <1>4 DEF FinishQueryNoRows, Completed, Polled, Ticked, Resolve
<1>5. ASSUME FinishQueryUnused
      PROVE  TablesOK'
  BY <1>5 DEF FinishQueryUnused, Completed, Polled, Ticked, Reject
<1>6. ASSUME NEW n \in 0..MaxRows, FinishQueryRows(n)
      PROVE  TablesOK'
  BY <1>6 DEF FinishQueryRows, Completed, Polled, Ticked, GoOn
<1>7. ASSUME FinishFetchRow
      PROVE  TablesOK'
  BY <1>7 DEF FinishFetchRow, Completed, Polled, Ticked, GoOn
<1>8. ASSUME FinishFetchEnd
      PROVE  TablesOK'
  BY <1>8 DEF FinishFetchEnd, Completed, Polled, Ticked, GoOn
<1>9. ASSUME FinishFreeResult
      PROVE  TablesOK'
  BY <1>9 DEF FinishFreeResult, Completed, Polled, Ticked, Resolve
<1>10. ASSUME CallbackReturn
      PROVE  TablesOK'
  <2>1. value' = value /\ (data' = data \/ data' = <<>>)
    BY <1>10 DEF CallbackReturn, Retry
  <2>2. <<>> \in Seq(Nat)
    OBVIOUS
  <2> QED
    BY <2>1, <2>2
<1>11. ASSUME CallbackError
      PROVE  TablesOK'
  BY <1>11 DEF CallbackError
<1>12. ASSUME TickFree
      PROVE  TablesOK'
  BY <1>12 DEF TickFree
<1>13. ASSUME TickOutOfSync
      PROVE  TablesOK'
  BY <1>13 DEF TickOutOfSync, Ticked
<1>14. ASSUME SocketReady
      PROVE  TablesOK'
  BY <1>14 DEF SocketReady
<1>15. ASSUME UNCHANGED vars
      PROVE  TablesOK'
  BY <1>15 DEF vars
<1> QED
  BY <1>1, <1>2, <1>3, <1>4, <1>5, <1>6, <1>7, <1>8,
     <1>9, <1>10, <1>11, <1>12, <1>13, <1>14, <1>15
  DEF Next, Tick, Stage, Terminated

(* A settled action never ticks a stage again, in any step.                 *)
LEMMA ProgressNext ==
  ASSUME FlagsOK, CountsOK, StatesOK, Progress, [Next]_vars
  PROVE  Progress'
<1> USE BoundsAssumption DEF BoundsAssumption, FlagsOK, CountsOK, StatesOK, Progress, actionVars, netVars, luaVars
<1>1. ASSUME NEW n \in 1..MaxRounds, Suspend(n)
      PROVE  Progress'
  BY <1>1 DEF Suspend, Polled, Ticked
<1>2. ASSUME NEW e \in {"lost", "other"}, FinishQueryError(e)
      PROVE  Progress'
  BY <1>2 DEF FinishQueryError, Completed, Polled, Ticked, Reject
<1>3. ASSUME NEW e \in {"lost", "other"}, FinishFetchError(e)
      PROVE  Progress'
  BY <1>3 DEF FinishFetchError, Completed, Polled, Ticked, Reject
<1>4. ASSUME FinishQueryNoRows
      PROVE  Progress'
  BY <1>4 DEF FinishQueryNoRows, Completed, Polled, Ticked, Resolve
<1>5. ASSUME FinishQueryUnused
      PROVE  Progress'
  BY <1>5 DEF FinishQueryUnused, Completed, Polled, Ticked, Reject
<1>6. ASSUME NEW n \in 0..MaxRows, FinishQueryRows(n)
      PROVE  Progress'
  BY <1>6 DEF FinishQueryRows, Completed, Polled, Ticked, GoOn
<1>7. ASSUME FinishFetchRow
      PROVE  Progress'
  BY <1>7 DEF FinishFetchRow, Completed, Polled, Ticked, GoOn
<1>8. ASSUME FinishFetchEnd
      PROVE  Progress'
  BY <1>8 DEF FinishFetchEnd, Completed, Polled, Ticked, GoOn
<1>9. ASSUME FinishFreeResult
      PROVE  Progress'
  BY <1>9 DEF FinishFreeResult, Completed, Polled, Ticked, Resolve
<1>10. ASSUME CallbackReturn
      PROVE  Progress'
  BY <1>10 DEF CallbackReturn, Retry
<1>11. ASSUME CallbackError
      PROVE  Progress'
  BY <1>11 DEF CallbackError
<1>12. ASSUME TickFree
      PROVE  Progress'
  BY <1>12 DEF TickFree
<1>13. ASSUME TickOutOfSync
      PROVE  Progress'
  BY <1>13 DEF TickOutOfSync, Ticked
<1>14. ASSUME SocketReady
      PROVE  Progress'
  BY <1>14 DEF SocketReady
<1>15. ASSUME UNCHANGED vars
      PROVE  Progress'
  BY <1>15 DEF vars
<1> QED
  BY <1>1, <1>2, <1>3, <1>4, <1>5, <1>6, <1>7, <1>8,
     <1>9, <1>10, <1>11, <1>12, <1>13, <1>14, <1>15
  DEF Next, Tick, Stage, Terminated

(* The table holds the rows read, in order, after every step.               *)
LEMMA RowsNext ==
  ASSUME CountsOK, StatesOK, Progress, Rows, [Next]_vars
  PROVE  Rows'
<1> USE BoundsAssumption DEF BoundsAssumption, CountsOK, StatesOK, Progress, Rows, actionVars, netVars, luaVars
<1>1. ASSUME NEW n \in 1..MaxRounds, Suspend(n)
      PROVE  Rows'
  BY <1>1 DEF Suspend, Polled, Ticked
<1>2. ASSUME NEW e \in {"lost", "other"}, FinishQueryError(e)
      PROVE  Rows'
  BY <1>2 DEF FinishQueryError, Completed, Polled, Ticked, Reject
<1>3. ASSUME NEW e \in {"lost", "other"}, FinishFetchError(e)
      PROVE  Rows'
  BY <1>3 DEF FinishFetchError, Completed, Polled, Ticked, Reject
<1>4. ASSUME FinishQueryNoRows
      PROVE  Rows'
  BY <1>4 DEF FinishQueryNoRows, Completed, Polled, Ticked, Resolve
<1>5. ASSUME FinishQueryUnused
      PROVE  Rows'
  BY <1>5 DEF FinishQueryUnused, Completed, Polled, Ticked, Reject
<1>6. ASSUME NEW n \in 0..MaxRows, FinishQueryRows(n)
      PROVE  Rows'
  BY <1>6 DEF FinishQueryRows, Completed, Polled, Ticked, GoOn
<1>7. ASSUME FinishFetchRow
      PROVE  Rows'
  BY <1>7 DEF FinishFetchRow, Completed, Polled, Ticked, GoOn
<1>8. ASSUME FinishFetchEnd
      PROVE  Rows'
  BY <1>8 DEF FinishFetchEnd, Completed, Polled, Ticked, GoOn
<1>9. ASSUME FinishFreeResult
      PROVE  Rows'
  BY <1>9 DEF FinishFreeResult, Completed, Polled, Ticked, Resolve
<1>10. ASSUME CallbackReturn
      PROVE  Rows'
  BY <1>10 DEF CallbackReturn, Retry
<1>11. ASSUME CallbackError
      PROVE  Rows'
  BY <1>11 DEF CallbackError
<1>12. ASSUME TickFree
      PROVE  Rows'
  BY <1>12 DEF TickFree
<1>13. ASSUME TickOutOfSync
      PROVE  Rows'
  BY <1>13 DEF TickOutOfSync, Ticked
<1>14. ASSUME SocketReady
      PROVE  Rows'
  BY <1>14 DEF SocketReady
<1>15. ASSUME UNCHANGED vars
      PROVE  Rows'
  BY <1>15 DEF vars
<1> QED
  BY <1>1, <1>2, <1>3, <1>4, <1>5, <1>6, <1>7, <1>8,
     <1>9, <1>10, <1>11, <1>12, <1>13, <1>14, <1>15
  DEF Next, Tick, Stage, Terminated

(* The stage and the connection stay in step.                               *)
LEMMA WireNext ==
  ASSUME StatesOK, Progress, Wire, [Next]_vars
  PROVE  Wire'
<1> USE BoundsAssumption DEF BoundsAssumption, StatesOK, Progress, Wire, actionVars, netVars, luaVars
<1>1. ASSUME NEW n \in 1..MaxRounds, Suspend(n)
      PROVE  Wire'
  BY <1>1 DEF Suspend, Polled, Ticked
<1>2. ASSUME NEW e \in {"lost", "other"}, FinishQueryError(e)
      PROVE  Wire'
  BY <1>2 DEF FinishQueryError, Completed, Polled, Ticked, Reject
<1>3. ASSUME NEW e \in {"lost", "other"}, FinishFetchError(e)
      PROVE  Wire'
  BY <1>3 DEF FinishFetchError, Completed, Polled, Ticked, Reject
<1>4. ASSUME FinishQueryNoRows
      PROVE  Wire'
  BY <1>4 DEF FinishQueryNoRows, Completed, Polled, Ticked, Resolve
<1>5. ASSUME FinishQueryUnused
      PROVE  Wire'
  BY <1>5 DEF FinishQueryUnused, Completed, Polled, Ticked, Reject
<1>6. ASSUME NEW n \in 0..MaxRows, FinishQueryRows(n)
      PROVE  Wire'
  BY <1>6 DEF FinishQueryRows, Completed, Polled, Ticked, GoOn
<1>7. ASSUME FinishFetchRow
      PROVE  Wire'
  BY <1>7 DEF FinishFetchRow, Completed, Polled, Ticked, GoOn
<1>8. ASSUME FinishFetchEnd
      PROVE  Wire'
  BY <1>8 DEF FinishFetchEnd, Completed, Polled, Ticked, GoOn
<1>9. ASSUME FinishFreeResult
      PROVE  Wire'
  BY <1>9 DEF FinishFreeResult, Completed, Polled, Ticked, Resolve
<1>10. ASSUME CallbackReturn
      PROVE  Wire'
  BY <1>10 DEF CallbackReturn, Retry
<1>11. ASSUME CallbackError
      PROVE  Wire'
  BY <1>11 DEF CallbackError
<1>12. ASSUME TickFree
      PROVE  Wire'
  BY <1>12 DEF TickFree
<1>13. ASSUME TickOutOfSync
      PROVE  Wire'
  BY <1>13 DEF TickOutOfSync, Ticked
<1>14. ASSUME SocketReady
      PROVE  Wire'
  BY <1>14 DEF SocketReady
<1>15. ASSUME UNCHANGED vars
      PROVE  Wire'
  BY <1>15 DEF vars
<1> QED
  BY <1>1, <1>2, <1>3, <1>4, <1>5, <1>6, <1>7, <1>8,
     <1>9, <1>10, <1>11, <1>12, <1>13, <1>14, <1>15
  DEF Next, Tick, Stage, Terminated

(* The action starts in step.                                               *)
LEMMA InvInit == Init => TypeOK /\ StagesInStep
<1> SUFFICES ASSUME Init
             PROVE  TypeOK /\ StagesInStep
  OBVIOUS
<1> USE BoundsAssumption DEF BoundsAssumption, Init
<1>1. FlagsOK /\ StatesOK
  BY DEF FlagsOK, StatesOK
<1>2. CountsOK
  BY DEF CountsOK
<1>3. <<>> \in Seq(Nat) /\ <<>> = [i \in 1..0 |-> i]
  OBVIOUS
<1>4. TablesOK
  BY <1>3 DEF TablesOK
<1>5. Progress
  BY DEF Progress
<1>6. Rows
  BY <1>3 DEF Rows
<1>7. Wire
  BY DEF Wire
<1> QED
  BY <1>1, <1>2, <1>4, <1>5, <1>6, <1>7 DEF TypeOK, StagesInStep

-----------------------------------------------------------------------------
(* An action never gets out of step with the connection or with its own     *)
(* table, however many rows come and however often a call suspends: the     *)
(* inductive invariant of QueryAction.                                      *)
THEOREM InStep == Spec => [](TypeOK /\ StagesInStep)
<1>1. ASSUME TypeOK /\ StagesInStep, [Next]_vars
      PROVE  (TypeOK /\ StagesInStep)'
  <2>1. /\ FlagsOK /\ CountsOK /\ StatesOK /\ TablesOK
        /\ Progress /\ Rows /\ Wire
    BY <1>1 DEF TypeOK, StagesInStep
  <2>2. FlagsOK' /\ CountsOK' /\ StatesOK' /\ TablesOK'
    BY <1>1, <2>1, FlagsNext, CountsNext, StatesNext, TablesNext
  <2>3. Progress' /\ Rows' /\ Wire'
    BY <1>1, <2>1, ProgressNext, RowsNext, WireNext
  <2> QED
    BY <2>2, <2>3 DEF TypeOK, StagesInStep
<1> QED
  BY InvInit, <1>1, PTL DEF Spec

(* The fields of the action, the connection and the promise are typed.      *)
THEOREM TypeCorrect == Spec => []TypeOK
BY InStep, PTL

(* A promise is resolved with every row of the result set, in order: the    *)
(* value is fixed when the last row has been read and never changes after.  *)
THEOREM AllRows == Spec => []ResolvedWithAllRows
<1>1. ASSUME TypeOK, StagesInStep, ResolvedWithAllRows, [Next]_vars
      PROVE  ResolvedWithAllRows'
  <2> USE DEF actionVars, netVars, luaVars
  <2>1. CASE UNCHANGED <<answer, value, fetched, total>>
    BY <1>1, <2>1 DEF ResolvedWithAllRows
  <2>2. CASE UNCHANGED <<answer, value>> /\ answer = "none"
    BY <2>2 DEF ResolvedWithAllRows
  <2>3. CASE answer' = "rejected"
    BY <2>3 DEF ResolvedWithAllRows
  <2>4. CASE FinishQueryNoRows \/ FinishFreeResult
    <3>1. answer = "none" /\ fetched = total
      BY <1>1, <2>4 DEF FinishQueryNoRows, FinishFreeResult, Completed, Polled, Ticked,
        StagesInStep, Progress, Rows, TypeOK, StatesOK
    <3>2. value' = data /\ fetched' = fetched /\ total' = total
      BY <2>4 DEF FinishQueryNoRows, FinishFreeResult, Resolve
    <3> QED
      BY <1>1, <3>1, <3>2 DEF ResolvedWithAllRows, StagesInStep, Rows
  <2>5. \/ UNCHANGED <<answer, value, fetched, total>>
        \/ UNCHANGED <<answer, value>> /\ answer = "none"
        \/ answer' = "rejected"
        \/ FinishQueryNoRows \/ FinishFreeResult
    <3>1. ASSUME NEW e \in {"lost", "other"}, FinishQueryError(e) \/ FinishFetchError(e)
          PROVE  answer' = "rejected"
      BY <3>1 DEF FinishQueryError, FinishFetchError, Reject
    <3>2. ASSUME FinishQueryUnused
          PROVE  answer' = "rejected"
      BY <3>2 DEF FinishQueryUnused, Reject
    <3>3. ASSUME NEW n \in 0..MaxRows, FinishQueryRows(n)
          PROVE  UNCHANGED <<answer, value>> /\ answer = "none"
      BY <1>1, <3>3 DEF FinishQueryRows, Completed, Polled, Ticked, GoOn, StagesInStep,
        Progress, TypeOK, StatesOK, CountsOK
    <3>4. ASSUME FinishFetchRow
          PROVE  UNCHANGED <<answer, value>> /\ answer = "none"
      BY <1>1, <3>4 DEF FinishFetchRow, Completed, Polled, Ticked, GoOn, StagesInStep,
        Progress, TypeOK, StatesOK, CountsOK
    <3>5. ASSUME \/ \E n \in 1..MaxRounds : Suspend(n)
                 \/ FinishFetchEnd \/ CallbackReturn \/ CallbackError \/ TickFree
                 \/ TickOutOfSync \/ SocketReady \/ UNCHANGED vars
          PROVE  UNCHANGED <<answer, value, fetched, total>>
      BY <3>5 DEF Suspend, FinishFetchEnd, GoOn, CallbackReturn, CallbackError, TickFree,
        TickOutOfSync, SocketReady, vars
    <3> QED
      BY <1>1, <3>1, <3>2, <3>3, <3>4, <3>5 DEF Next, Tick, Stage, Terminated
  <2> QED
    BY <2>1, <2>2, <2>3, <2>4, <2>5
<1>2. Init => ResolvedWithAllRows
  BY DEF Init, ResolvedWithAllRows
<1> QED
  BY <1>1, <1>2, InStep, PTL DEF Spec

(* No failure of the query or of a fetch is answered with a result.         *)
THEOREM FailureRejects == Spec => []FailureIsRejected
<1>1. TypeOK /\ StagesInStep => FailureIsRejected
  BY DEF TypeOK, StatesOK, StagesInStep, Progress, FailureIsRejected
<1> QED
  BY <1>1, InStep, PTL

(* A resolved query hands the connection on with nothing left to read.      *)
THEOREM InSync == Spec => []ConnectionInSync
<1>1. TypeOK /\ StagesInStep => ConnectionInSync
  BY DEF TypeOK, StatesOK, StagesInStep, Progress, Wire, ConnectionInSync
<1> QED
  BY <1>1, InStep, PTL

(* Each step of a query is a step of an action's life or none of it: it     *)
(* settles once, and only then, when the callback is back, is it freed.     *)
THEOREM LivesOnce == Spec => Life!Init /\ [][Life!Next]_(Life!vars)
<1> DEFINE LifeStep == [Life!Next]_(Life!vars)
<1>1. Init => Life!Init
  BY DEF Init, Life!Init
<1>2. ASSUME TypeOK, StagesInStep, [Next]_vars
      PROVE  LifeStep
  <2>0. StatesOK /\ CountsOK /\ FlagsOK /\ Progress
    BY <1>2 DEF TypeOK, StagesInStep
  <2> USE BoundsAssumption DEF BoundsAssumption, StatesOK, CountsOK, Progress, actionVars,
    netVars, luaVars, Life!Next, Life!vars, Life!Work, Life!Settle, Life!Return, Life!Linger, Life!Free
  <2>1. ASSUME NEW n \in 1..MaxRounds, Suspend(n)
        PROVE  LifeStep
    BY <2>0, <2>1 DEF Suspend, Polled, Ticked
  <2>2. ASSUME \/ \E e \in {"lost", "other"} : FinishQueryError(e) \/ FinishFetchError(e)
               \/ FinishQueryUnused
        PROVE  LifeStep
    BY <2>0, <2>2 DEF FinishQueryError, FinishFetchError, FinishQueryUnused, Reject,
      Completed, Polled, Ticked
  <2>3. ASSUME FinishQueryNoRows \/ FinishFreeResult
        PROVE  LifeStep
    BY <2>0, <2>3 DEF FinishQueryNoRows, FinishFreeResult, Resolve, Completed, Polled, Ticked
  <2>4. ASSUME \/ \E n \in 0..MaxRows : FinishQueryRows(n)
               \/ FinishFetchRow \/ FinishFetchEnd
        PROVE  LifeStep
    BY <2>0, <2>4 DEF FinishQueryRows, FinishFetchRow, FinishFetchEnd, GoOn, Completed,
      Polled, Ticked
  <2>5. ASSUME CallbackReturn \/ CallbackError
        PROVE  LifeStep
    BY <2>0, <2>5 DEF CallbackReturn, CallbackError
  <2>6. ASSUME TickFree \/ TickOutOfSync
        PROVE  LifeStep
    BY <2>0, <2>6 DEF TickFree, TickOutOfSync, Ticked
  <2>7. ASSUME SocketReady \/ UNCHANGED vars
        PROVE  LifeStep
    BY <2>0, <2>7 DEF SocketReady, vars
  <2> QED
    BY <1>2, <2>1, <2>2, <2>3, <2>4, <2>5, <2>6, <2>7 DEF Next, Tick, Stage, Terminated
<1> QED
  BY <1>1, <1>2, InStep, PTL DEF Spec

=============================================================================
