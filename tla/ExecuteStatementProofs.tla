----------------------- MODULE ExecuteStatementProofs -----------------------
(***************************************************************************)
(* The execution of a statement, for result sets of any length, calls that *)
(* suspend any number of times and every interleaving of hook and thread.  *)
(***************************************************************************)
EXTENDS ExecuteStatement, SequenceTheorems, TLAPS

(* The first n rows of the result set.                                      *)
Rows(n) == [i \in 1..n |-> i]

Failed == out \in {"truncated", "error"}

-----------------------------------------------------------------------------
(* The inductive invariant: who may act, and what each stage leaves behind  *)

(* A poll that follows a spawn is that of a stage whose thread was started. *)
HookOK ==
  hook = "check" =>
    /\ started /\ in_thread /\ Threaded
    /\ callback = "none" /\ ~ has_finished

(* A callback runs once the promise is settled, with no thread left.        *)
CallbackOK ==
  callback # "none" =>
    /\ hook = "idle" /\ thread = "idle" /\ ~ over
    /\ callback = "reject" => answer = "rejected" /\ ~ has_finished
    /\ callback = "finish" => answer = "resolved" /\ has_finished

(* A finished action is settled, at its first or its last stage.            *)
FinishedOK ==
  /\ has_finished => /\ answer # "none" /\ thread = "idle" /\ hook = "idle"
                     /\ current_action \in {"execute", "statement"}
  /\ over => has_finished

(* The answer agrees with what the last call returned.                      *)
AnswerOK ==
  /\ answer = "resolved" =>
       has_finished /\ out \in {"ok", "no_data"} /\ value = Rows(total) /\ fetched = total
  /\ answer = "rejected" => Failed

(* Nothing was fetched yet; a failure is looked at again after a callback   *)
(* that raised.                                                             *)
ExecuteOK ==
  current_action = "execute" =>
    /\ data = <<>> /\ resultdata = <<>> /\ fetched = 0
    /\ out \in {"ok", "error"}
    /\ thread \in {"idle", "execute", "store", "finish"}
    /\ thread # "idle" => answer = "none"
    /\ ~ started /\ ~ has_finished =>
         /\ thread = "idle" /\ ~ thread_finished /\ hook = "idle" /\ ~ in_thread
         /\ answer = "none" /\ out = "ok" /\ total = 0
    /\ thread = "execute" => total = 0

(* Row after row, and an end that is never mistaken for a row.              *)
FetchOK ==
  current_action = "fetch" =>
    /\ data = <<>> /\ resultdata = Rows(fetched)
    /\ thread \in {"idle", "fetch", "finish"}
    /\ answer = "rejected" => started /\ thread = "idle"
    /\ ~ started => thread = "idle" /\ out = "ok" /\ fetched = 0 /\ hook = "idle"
    /\ thread = "fetch" => out = "ok"
    /\ started /\ thread # "fetch" => out # "ok"

(* The fetch is over: complete, or rejected.                                *)
Fetched ==
  \/ answer = "none" /\ out = "no_data" /\ data = Rows(total) /\ fetched = total
  \/ answer = "rejected"

ResultsOK ==
  current_action = "results" =>
    /\ Fetched /\ callback = "none"
    /\ thread \in {"idle", "free", "finish"}
    /\ ~ started => thread = "idle" /\ hook = "idle"
    /\ started => in_thread
    /\ started /\ thread # "free" => resultdata = <<>>

StatementOK ==
  current_action = "statement" =>
    /\ Fetched \/ (answer = "resolved" /\ has_finished)
    /\ thread = "idle" /\ hook = "idle" /\ resultdata = <<>> /\ callback # "reject"

(* The row numbers of a statement without a result set, and of the end.     *)
TotalOK ==
  /\ ~ fields => total = 0
  /\ out = "no_data" => fetched = total
  /\ fetched <= total

StageOK ==
  /\ ThreadOwnsAction /\ HookOK /\ CallbackOK /\ FinishedOK /\ AnswerOK
  /\ ExecuteOK /\ FetchOK /\ ResultsOK /\ StatementOK /\ TotalOK

IInv == TypeOK /\ StageOK

-----------------------------------------------------------------------------
(* Rows are numbered as they are fetched.                                   *)
LEMMA RowsEmpty == Rows(0) = <<>>
BY DEF Rows

LEMMA RowsType ==
  ASSUME NEW n \in Nat
  PROVE  Rows(n) \in Seq(Nat)
BY DEF Rows

LEMMA RowsAppend ==
  ASSUME NEW n \in Nat
  PROVE  Append(Rows(n), n + 1) = Rows(n + 1)
BY DEF Rows

LEMMA TailRows ==
  ASSUME NEW s \in Seq(Nat), s # <<>>
  PROVE  /\ Tail(s) \in Seq(Nat)
         /\ Tail(s) = <<>> <=> Len(s) = 1
<1>1. Tail(s) \in Seq(Nat) /\ Len(Tail(s)) = Len(s) - 1
  BY HeadTailProperties
<1>2. Tail(s) = <<>> <=> Len(Tail(s)) = 0
  BY <1>1, EmptySeq
<1> QED
  BY <1>1, <1>2, LenProperties, SMTT(30)

LEMMA InitIInv == Init => IInv
<1> SUFFICES ASSUME Init PROVE IInv
  OBVIOUS
<1> USE DEF Init
<1>1. TypeOK
  <2>1. FlagsOK
    BY DEF FlagsOK
  <2>2. resultdata \in Seq(Nat) /\ data \in Seq(Nat) /\ value \in Seq(Nat)
    OBVIOUS
  <2>3. socket_state \in 0..(MaxRounds + 1) /\ total \in 0..MaxRows /\ fetched \in 0..MaxRows
    BY BoundsAssumption
  <2> QED
    BY <2>1, <2>2, <2>3 DEF TypeOK
<1>2. ThreadOwnsAction /\ HookOK /\ CallbackOK /\ FinishedOK /\ AnswerOK
  BY DEF ThreadOwnsAction, HookOK, CallbackOK, FinishedOK, AnswerOK
<1>3. ExecuteOK /\ FetchOK /\ ResultsOK /\ StatementOK /\ TotalOK
  BY DEF ExecuteOK, FetchOK, ResultsOK, StatementOK, TotalOK
<1> QED
  BY <1>1, <1>2, <1>3 DEF IInv, StageOK

LEMMA NextType ==
  ASSUME IInv, [Next]_vars
  PROVE  TypeOK'
<1> USE BoundsAssumption DEF BoundsAssumption, stageVars, threadVars, netVars, luaVars
<1> USE DEF IInv, TypeOK
<1>1. CASE ThreadExecute
  BY <1>1 DEF FlagsOK, ThreadExecute
<1>2. CASE ThreadStore
  BY <1>2 DEF FlagsOK, ThreadStore
<1>3. CASE ThreadFetchRow
  BY <1>3 DEF FlagsOK, ThreadFetchRow
<1>4. CASE ThreadFetchEnd
  BY <1>4 DEF FlagsOK, ThreadFetchEnd
<1>5. CASE ThreadFree
  <2>1. FlagsOK'
    BY <1>5 DEF FlagsOK, ThreadFree
  <2>2. resultdata' \in Seq(Nat)
    BY <1>5, TailRows DEF ThreadFree, StageOK, ThreadOwnsAction
  <2> QED
    BY <1>5, <2>1, <2>2 DEF ThreadFree
<1>6. CASE ThreadFinish
  BY <1>6 DEF FlagsOK, ThreadFinish
<1>7. CASE ExecuteStartError
  BY <1>7 DEF FlagsOK, ExecuteStartError
<1>8. CASE StartThread
  BY <1>8 DEF FlagsOK, StartThread, Spawn
<1>9. CASE NoResults
  BY <1>9 DEF FlagsOK, NoResults
<1>10. CASE StillRunning
  <2>1. FlagsOK'
    BY <1>10 DEF FlagsOK, StillRunning
  <2> QED
    BY <1>10, <2>1 DEF StillRunning
<1>11. CASE ExecuteFinish
  <2>1. FlagsOK'
    BY <1>11 DEF FlagsOK, ExecuteFinish, Done, Settle
  <2> QED
    BY <1>11, <2>1 DEF ExecuteFinish, Done, Settle
<1>12. CASE FetchFinishRows
  <2>1. FlagsOK'
    BY <1>12 DEF FlagsOK, FetchFinishRows, Done
  <2> QED
    BY <1>12, <2>1 DEF FetchFinishRows, Done
<1>13. CASE FetchFinishError
  <2>1. FlagsOK'
    BY <1>13 DEF FlagsOK, FetchFinishError, Done
  <2> QED
    BY <1>13, <2>1 DEF FetchFinishError, Done
<1>14. CASE FreeResultsFinish
  <2>1. FlagsOK'
    BY <1>14 DEF FlagsOK, FreeResultsFinish, Done
  <2> QED
    BY <1>14, <2>1 DEF FreeResultsFinish, Done
<1>15. CASE FreeStatementFinish
  <2>1. FlagsOK'
    BY <1>15 DEF FlagsOK, FreeStatementFinish, Polled, Settle
  <2> QED
    BY <1>15, <2>1 DEF FreeStatementFinish, Polled, Settle
<1>16. CASE \E n \in 1..MaxRounds : FreeStatementSuspend(n)
  <2>1. FlagsOK'
    BY <1>16 DEF FlagsOK, FreeStatementSuspend, Polled
  <2> QED
    BY <1>16, <2>1 DEF FreeStatementSuspend, Polled
<1>17. CASE CallbackReturn
  <2>1. FlagsOK'
    BY <1>17 DEF FlagsOK, CallbackReturn
  <2> QED
    BY <1>17, <2>1 DEF CallbackReturn
<1>18. CASE CallbackError
  BY <1>18 DEF FlagsOK, CallbackError
<1>19. CASE TickFree
  BY <1>19 DEF FlagsOK, TickFree
<1>20. CASE SocketReady
  BY <1>20 DEF FlagsOK, SocketReady
<1>21. CASE UNCHANGED vars
  BY <1>21 DEF FlagsOK, vars
<1> QED
  BY <1>1, <1>2, <1>3, <1>4, <1>5, <1>6, <1>7, <1>8, <1>9, <1>10, <1>11,
     <1>12, <1>13, <1>14, <1>15, <1>16, <1>17, <1>18, <1>19, <1>20, <1>21
  DEF Next, Tick, Thread, Finishes, Terminated

LEMMA NextStage ==
  ASSUME IInv, [Next]_vars
  PROVE  StageOK'
<1> USE BoundsAssumption DEF BoundsAssumption, stageVars, threadVars, netVars, luaVars
<1> USE DEF IInv, TypeOK, FlagsOK, StageOK, ThreadOwnsAction, HookOK, CallbackOK, FinishedOK,
    AnswerOK, ExecuteOK, FetchOK, ResultsOK, StatementOK, TotalOK, Threaded, Fetched, Failed
<1>1. CASE ThreadExecute
  BY <1>1 DEF ThreadExecute
<1>2. CASE ThreadStore
  BY <1>2 DEF ThreadStore
<1>3. CASE ThreadFetchRow
  <2>1. resultdata = Rows(fetched) /\ fetched \in Nat
    BY <1>3 DEF ThreadFetchRow
  <2>2. resultdata' = Rows(fetched')
    BY <1>3, <2>1, RowsAppend DEF ThreadFetchRow
  <2> QED
    BY <1>3, <2>2 DEF ThreadFetchRow
<1>4. CASE ThreadFetchEnd
  BY <1>4 DEF ThreadFetchEnd
<1>5. CASE ThreadFree
  <2>1. /\ thread' = "finish" => resultdata' = <<>>
        /\ thread' = "free" => resultdata' # <<>>
    BY <1>5, TailRows DEF ThreadFree
  <2> QED
    BY <1>5, <2>1 DEF ThreadFree
<1>6. CASE ThreadFinish
  BY <1>6 DEF ThreadFinish
<1>7. CASE ExecuteStartError
  BY <1>7 DEF ExecuteStartError, Ticked
<1>8. CASE StartThread
  BY <1>8 DEF StartThread, Ticked, Spawn
<1>9. CASE NoResults
  BY <1>9 DEF NoResults, Ticked
<1>10. CASE StillRunning
  BY <1>10 DEF StillRunning, Polls, Ticked
<1>11. CASE ExecuteFinish
  <2>1. /\ current_action = "execute" /\ thread_finished /\ thread = "idle" /\ started
        /\ callback = "none" /\ ~ over /\ ~ has_finished
        /\ hook' = "idle" /\ ~ in_thread' /\ UNCHANGED threadVars
    BY <1>11 DEF ExecuteFinish, Done, Polls, Ticked
  <2>2. CASE out # "ok"
    <3>1. /\ IF answer = "none" THEN started' /\ ~ has_finished' ELSE ~ started' /\ has_finished'
          /\ UNCHANGED <<current_action, data>> /\ Settle("rejected", value, "reject")
      BY <1>11, <2>1, <2>2 DEF ExecuteFinish
    <3> QED
      BY <2>1, <2>2, <3>1 DEF Settle
  <2>3. CASE out = "ok" /\ fields
    <3>1. /\ current_action' = "fetch" /\ ~ started'
          /\ UNCHANGED <<has_finished, data, answer, value, callback, over>>
      BY <1>11, <2>3 DEF ExecuteFinish
    <3> QED
      BY <2>1, <2>3, <3>1, RowsEmpty
  <2>4. CASE out = "ok" /\ ~ fields
    <3>1. /\ ~ started' /\ has_finished' /\ Settle("resolved", data, "finish")
          /\ UNCHANGED <<current_action, data>>
      BY <1>11, <2>4 DEF ExecuteFinish
    <3>2. total = 0 /\ fetched = 0 /\ data = Rows(0) /\ answer = "none"
      BY <2>1, <2>4, RowsEmpty
    <3> QED
      BY <2>1, <2>4, <3>1, <3>2 DEF Settle
  <2> QED
    BY <2>2, <2>3, <2>4
<1>12. CASE FetchFinishRows
  BY <1>12 DEF FetchFinishRows, Done, Polls, Ticked
<1>13. CASE FetchFinishError
  BY <1>13 DEF FetchFinishError, Done, Polls, Ticked
<1>14. CASE FreeResultsFinish
  BY <1>14 DEF FreeResultsFinish, Done, Polls, Ticked
<1>15. CASE FreeStatementFinish
  BY <1>15 DEF FreeStatementFinish, Polled, Ticked, Settle
<1>16. CASE \E n \in 1..MaxRounds : FreeStatementSuspend(n)
  BY <1>16 DEF FreeStatementSuspend, Polled, Ticked
<1>17. CASE CallbackReturn
  BY <1>17 DEF CallbackReturn
<1>18. CASE CallbackError
  BY <1>18 DEF CallbackError
<1>19. CASE TickFree
  BY <1>19 DEF TickFree
<1>20. CASE SocketReady
  BY <1>20 DEF SocketReady
<1>21. CASE UNCHANGED vars
  BY <1>21 DEF vars
<1> QED
  BY <1>1, <1>2, <1>3, <1>4, <1>5, <1>6, <1>7, <1>8, <1>9, <1>10, <1>11,
     <1>12, <1>13, <1>14, <1>15, <1>16, <1>17, <1>18, <1>19, <1>20, <1>21
  DEF Next, Tick, Thread, Finishes, Terminated

LEMMA IInvHolds == Spec => []IInv
<1>1. Init => IInv
  BY InitIInv
<1>2. IInv /\ [Next]_vars => IInv'
  BY NextType, NextStage DEF IInv
<1> QED
  BY <1>1, <1>2, PTL DEF Spec

-----------------------------------------------------------------------------
(* What follows from it                                                     *)

(* Every field of the action, of the thread and of the promise is typed; no *)
(* more rows are fetched than there are.                                    *)
THEOREM TypeCorrect == Spec => []TypeOK
<1>1. IInv => TypeOK
  BY DEF IInv
<1> QED
  BY <1>1, IInvHolds, PTL

(* While a detached thread runs, the hook only waits for it, whatever the   *)
(* stage before left in the flags.                                          *)
THEOREM Owned == Spec => []ThreadOwnsAction
<1>1. IInv => ThreadOwnsAction
  BY DEF IInv, StageOK
<1> QED
  BY <1>1, IInvHolds, PTL

(* A resolved execution has every row of the result set, for results of any *)
(* length.                                                                  *)
THEOREM AllRows == Spec => []ResolvedWithAllRows
<1>1. IInv => ResolvedWithAllRows
  BY DEF IInv, StageOK, AnswerOK, Rows, ResolvedWithAllRows
<1> QED
  BY <1>1, IInvHolds, PTL

(* No failure of a call, in the thread or before it, ends in a resolved     *)
(* promise, and only failures end in a rejected one.                        *)
THEOREM FailureRejects == Spec => []FailureIsRejected
<1>1. IInv => FailureIsRejected
  BY DEF IInv, TypeOK, StageOK, AnswerOK, FinishedOK, Failed, FailureIsRejected
<1> QED
  BY <1>1, IInvHolds, PTL

(* The rows of an action are freed before the action is.                    *)
THEOREM FreesRows == Spec => []RowsFreed
<1>1. IInv => RowsFreed
  BY DEF IInv, StageOK, FinishedOK, ExecuteOK, StatementOK, RowsFreed
<1> QED
  BY <1>1, IInvHolds, PTL

-----------------------------------------------------------------------------
(* The execution lives the life of an action                                *)

(* A step that settles nothing, ends no callback and frees nothing is work, *)
(* or not seen.                                                             *)
LEMMA QuietStep ==
  ASSUME IInv, UNCHANGED <<answer, callback, over>>
  PROVE  [Life!Next]_(Life!vars)
BY DEF IInv, StageOK, Life!Next, Life!Work, Life!vars

(* The promise is settled, and the callback begins.                         *)
LEMMA SettleStep ==
  ASSUME IInv, callback = "none", answer = "none", ~ over, UNCHANGED over,
         callback' \in {"reject", "finish"}, answer' \in {"resolved", "rejected"}
  PROVE  Life!Settle
BY DEF Life!Settle

(* The action is freed at a tick after the one that settled it.             *)
LEMMA FreeStep ==
  ASSUME IInv, callback = "none", answer # "none", ~ over, over', UNCHANGED answer
  PROVE  Life!Free
BY DEF Life!Free

LEMMA LifeStep ==
  ASSUME IInv, [Next]_vars
  PROVE  [Life!Next]_(Life!vars)
<1> USE DEF stageVars, threadVars, netVars, luaVars
<1>1. CASE \/ Thread \/ StartThread \/ NoResults \/ StillRunning \/ SocketReady
           \/ FetchFinishRows \/ FreeResultsFinish
           \/ \E n \in 1..MaxRounds : FreeStatementSuspend(n)
  <2>1. UNCHANGED <<answer, callback, over>>
    BY <1>1 DEF Thread, ThreadExecute, ThreadStore, ThreadFetchRow, ThreadFetchEnd,
       ThreadFree, ThreadFinish, StartThread, NoResults, StillRunning, SocketReady,
       FetchFinishRows, FreeResultsFinish, FreeStatementSuspend
  <2> QED
    BY <2>1, QuietStep
<1>2. ASSUME NEW result \in {"resolved", "rejected"}, NEW table,
             NEW next \in {"reject", "finish"},
             callback = "none", ~ over, Settle(result, table, next)
      PROVE  [Life!Next]_(Life!vars)
  <2>1. CASE answer = "none"
    BY <1>2, <2>1, SettleStep DEF Settle, Life!Next
  <2>2. CASE answer # "none"
    BY <1>2, <2>2, FreeStep DEF Settle, Life!Next
  <2> QED
    BY <2>1, <2>2
<1>3. CASE ExecuteStartError
  <2>1. answer = "none" /\ callback = "none" /\ ~ over
    BY <1>3 DEF ExecuteStartError, Ticked, IInv, StageOK, ExecuteOK
  <2> QED
    BY <1>3, <2>1, SettleStep DEF ExecuteStartError, Life!Next
<1>4. CASE ExecuteFinish
  <2>1. callback = "none" /\ ~ over
    BY <1>4 DEF ExecuteFinish, Done, Polls, Ticked, IInv, StageOK, HookOK, FinishedOK
  <2>2. \/ Settle("rejected", value, "reject") \/ Settle("resolved", data, "finish")
        \/ UNCHANGED <<answer, callback, over>>
    BY <1>4 DEF ExecuteFinish
  <2> QED
    BY <1>2, <2>1, <2>2, QuietStep
<1>5. CASE FetchFinishError
  <2>1. callback = "none" /\ ~ over /\ UNCHANGED over
    BY <1>5 DEF FetchFinishError, Done, Polls, Ticked, IInv, StageOK, HookOK, FinishedOK
  <2>2. CASE answer = "none"
    BY <1>5, <2>1, <2>2, SettleStep DEF FetchFinishError, Life!Next
  <2>3. CASE answer # "none"
    BY <1>5, <2>1, <2>3, QuietStep DEF FetchFinishError
  <2> QED
    BY <2>2, <2>3
<1>6. CASE FreeStatementFinish
  BY <1>2, <1>6 DEF FreeStatementFinish, Polled, Ticked
<1>7. CASE CallbackReturn
  <2>1. callback # "none" /\ ~ over /\ answer # "none"
    BY <1>7 DEF CallbackReturn, IInv, TypeOK, StageOK, CallbackOK
  <2> QED
    BY <1>7, <2>1 DEF CallbackReturn, Life!Next, Life!Return, Life!Linger
<1>8. CASE CallbackError
  <2>1. callback # "none" /\ ~ over /\ answer # "none"
    BY <1>8 DEF CallbackError, IInv, TypeOK, StageOK, CallbackOK
  <2> QED
    BY <1>8, <2>1 DEF CallbackError, Life!Next, Life!Linger
<1>9. CASE TickFree
  <2>1. answer # "none"
    BY <1>9 DEF TickFree, IInv, StageOK, FinishedOK
  <2> QED
    BY <1>9, <2>1, FreeStep DEF TickFree, Life!Next
<1>10. CASE UNCHANGED vars
  BY <1>10, QuietStep DEF vars
<1> QED
  BY <1>1, <1>3, <1>4, <1>5, <1>6, <1>7, <1>8, <1>9, <1>10
  DEF Next, Tick, Finishes, Terminated

(* The action settles once, calls back once, and is freed after that.       *)
THEOREM LivesOnce == Spec => ImplementsLifeSteps
<1>1. Init => Life!Init
  BY DEF Init, Life!Init
<1>2. IInv /\ [Next]_vars => [Life!Next]_(Life!vars)
  BY LifeStep
<1> QED
  BY <1>1, <1>2, IInvHolds, PTL DEF Spec, ImplementsLifeSteps

=============================================================================
