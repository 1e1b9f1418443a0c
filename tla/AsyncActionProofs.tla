-------------------------- MODULE AsyncActionProofs --------------------------
(***************************************************************************)
(* The polls of a tick and the life of the action, for every set of masks  *)
(* and every number of suspensions.  CheckDatabaseStatus is characterised  *)
(* once, and the rest rests on what a suspended action always waits for.   *)
(***************************************************************************)
EXTENDS AsyncAction, TLAPS

(* For a mask of one direction, the two comparisons of CheckDatabaseStatus  *)
(* come to: the poll succeeds, and some event of the mask is on the socket. *)
(* It would not hold of a mask with both directions.                        *)
THEOREM WokenByEvent ==
  ASSUME TypeOK, NEW mask \in Masks
  PROVE  CheckDatabaseStatus(mask) <=> ~ poll_error /\ mask \cap readable # {}
<1> USE DEF Events
<1>1. /\ mask \subseteq Events \cup {"TIMEOUT"}
      /\ mask \cap Events # {}
      /\ ~ {"READ", "WRITE"} \subseteq mask
  BY MasksAssumption
<1>2. readable \subseteq Events
  BY DEF TypeOK
<1> DEFINE status == GetCurrentDatabaseStatus(mask)
<1>3. status = {"TIMEOUT"} \/ (~ poll_error /\ status = readable \cap mask)
  BY DEF GetCurrentDatabaseStatus
<1>4. mask # {}
  BY <1>1
<1>5. ASSUME ~ poll_error, mask \cap readable # {}
      PROVE  CheckDatabaseStatus(mask)
  <2>1. status = readable \cap mask
    BY <1>5 DEF GetCurrentDatabaseStatus
  <2>2. PICK e \in mask \cap readable : TRUE
    BY <1>5
  <2>3. CASE e = "EXCEPT"
    BY <2>1, <2>2, <2>3 DEF CheckDatabaseStatus
  <2>4. CASE e = "READ"
    <3>1. mask \cap {"READ", "WRITE"} = {"READ"}
      BY <1>1, <2>2, <2>4
    <3>2. status \cap {"READ", "WRITE"} = {"READ"}
      BY <2>1, <2>2, <2>4, <3>1
    <3> QED
      BY <3>1, <3>2 DEF CheckDatabaseStatus
  <2>5. CASE e = "WRITE"
    <3>1. mask \cap {"READ", "WRITE"} = {"WRITE"}
      BY <1>1, <2>2, <2>5
    <3>2. status \cap {"READ", "WRITE"} = {"WRITE"}
      BY <2>1, <2>2, <2>5, <3>1
    <3> QED
      BY <3>1, <3>2 DEF CheckDatabaseStatus
  <2> QED
    BY <1>2, <2>2, <2>3, <2>4, <2>5
<1>6. ASSUME CheckDatabaseStatus(mask)
      PROVE  ~ poll_error /\ mask \cap readable # {}
  <2>1. PICK e : e \in mask \cap Events /\ e \in status
    BY <1>4, <1>6 DEF CheckDatabaseStatus
  <2> QED
    BY <1>3, <2>1
<1> QED
  BY <1>5, <1>6

-----------------------------------------------------------------------------
(* What every action keeps: a call that is begun and not over waits for a   *)
(* mask of the library, a promise is settled when the action is finished,   *)
(* and between the two polls an event waited for is on the socket.          *)
CallOK ==
  /\ ~ started => ~ has_finished
  /\ started /\ ~ has_finished => socket_state \in Masks
  /\ phase = "checked" => started /\ ~ has_finished /\ socket_state \cap readable # {}
  /\ phase \in {"callback", "over"} => has_finished
  /\ has_finished => phase # "checked"
  /\ ~ has_finished => outcome = "none"
  /\ has_finished /\ kind = "command" => outcome # "none"

IInv == TypeOK /\ CallOK

LEMMA InitIInv == Init => IInv
<1>1. MaxRounds \in Nat
  BY MasksAssumption
<1>2. Init => TypeOK
  <2>1. Init => socket_state \in Masks \cup {{}}
    BY DEF Init
  <2>2. Init => readable \subseteq Events
    BY DEF Init
  <2>3. Init => rounds \in 0..MaxRounds
    BY <1>1 DEF Init
  <2>4. Init => /\ started \in BOOLEAN /\ has_finished \in BOOLEAN
                /\ hangup \in BOOLEAN /\ poll_error \in BOOLEAN
    BY DEF Init
  <2> QED
    BY <2>1, <2>2, <2>3, <2>4 DEF Init, TypeOK
<1>3. Init => CallOK
  BY DEF Init, CallOK
<1> QED
  BY <1>2, <1>3 DEF IInv

(* A library call that suspends again.                                      *)
LEMMA SuspendsIInv ==
  ASSUME IInv, started', ~ has_finished, Suspends, UNCHANGED <<kind, hangup, poll_error>>,
         readable' \subseteq readable
  PROVE  IInv'
BY MasksAssumption DEF IInv, Suspends, TypeOK, CallOK

(* A library call that is over.                                             *)
LEMMA FinishesIInv ==
  ASSUME IInv, started', ~ has_finished, Finishes, UNCHANGED <<kind, hangup, poll_error>>,
         readable' \subseteq readable
  PROVE  IInv'
BY DEF IInv, Finishes, Settlement, TypeOK, CallOK

LEMMA NextIInv ==
  ASSUME IInv, [Next]_vars
  PROVE  IInv'
<1>1. CASE Start
  <2>1. ~ has_finished
    BY <1>1 DEF Start, IInv, CallOK
  <2> QED
    BY <1>1, <2>1, SuspendsIInv, FinishesIInv DEF Start
<1>2. CASE CheckStatus
  <2>1. socket_state \in Masks
    BY <1>2 DEF CheckStatus, IInv, CallOK
  <2>2. socket_state \cap readable # {}
    BY <1>2, <2>1, WokenByEvent DEF CheckStatus, IInv
  <2> QED
    BY <1>2, <2>1, <2>2 DEF CheckStatus, IInv, TypeOK, CallOK
<1>3. CASE Continue
  <2>1. ~ has_finished /\ started' /\ readable' \subseteq readable
    BY <1>3 DEF Continue, IInv, CallOK
  <2> QED
    BY <1>3, <2>1, SuspendsIInv, FinishesIInv DEF Continue
<1>4. CASE CallbackEnd
  BY <1>4 DEF CallbackEnd, IInv, TypeOK, CallOK
<1>5. CASE Free
  BY <1>5 DEF Free, IInv, TypeOK, CallOK
<1>6. CASE Answer
  <2>1. readable \subseteq readable' /\ readable' \subseteq Events
    BY <1>6 DEF Answer, Awaited, IInv, TypeOK
  <2> QED
    BY <1>6, <2>1 DEF Answer, IInv, TypeOK, CallOK
<1>7. CASE Disturb
  <2>1. readable \subseteq readable' /\ readable' \subseteq Events
    BY <1>7 DEF Disturb, IInv, TypeOK
  <2> QED
    BY <1>7, <2>1 DEF Disturb, IInv, TypeOK, CallOK
<1>8. CASE HangUp
  BY <1>8 DEF HangUp, IInv, TypeOK, CallOK
<1>9. CASE PollFails \/ PollRecovers
  <2>1. TypeOK'
    BY <1>9 DEF PollFails, PollRecovers, IInv, TypeOK
  <2>2. CallOK'
    BY <1>9 DEF PollFails, PollRecovers, IInv, CallOK
  <2> QED
    BY <2>1, <2>2 DEF IInv
<1>10. CASE UNCHANGED vars
  BY <1>10 DEF vars, IInv, TypeOK, CallOK
<1> QED
  BY <1>1, <1>2, <1>3, <1>4, <1>5, <1>6, <1>7, <1>8, <1>9, <1>10
  DEF Next, Tick, Network, Done

LEMMA IInvHolds == Spec => []IInv
<1>1. Init => IInv
  BY InitIInv
<1>2. IInv /\ [Next]_vars => IInv'
  BY NextIInv
<1> QED
  BY <1>1, <1>2, PTL DEF Spec

(* The types, whatever the library and the network do.                      *)
THEOREM TypeCorrect == Spec => []TypeOK
<1>1. IInv => TypeOK
  BY DEF IInv
<1> QED
  BY <1>1, IInvHolds, PTL

(* The second poll of LuaActionAsync::Query gives the library an event it   *)
(* waits for, never nothing and, unless it fails, never a timeout.          *)
THEOREM NeverContinuedEmpty == Spec => []ContinuedReady
<1>1. IInv => ContinuedReady
  <2> SUFFICES ASSUME IInv, phase = "checked", ~ poll_error
               PROVE  Given \cap Awaited # {} /\ "TIMEOUT" \notin Given
    BY DEF ContinuedReady
  <2>1. readable \cap socket_state # {} /\ readable \subseteq Events
    BY DEF IInv, CallOK, TypeOK
  <2>2. Given = readable \cap socket_state
    BY <2>1 DEF Given, GetCurrentDatabaseStatus
  <2> QED
    BY <2>1, <2>2 DEF Awaited, Events
<1> QED
  BY <1>1, IInvHolds, PTL

-----------------------------------------------------------------------------
(* A step of the action is a step of its life                               *)

(* A library call suspends: the action goes on working.                     *)
LEMMA SuspendsWorks ==
  ASSUME IInv, phase \in {"idle", "checked"}, ~ has_finished, started', Suspends
  PROVE  Life!Work
BY DEF IInv, CallOK, Suspends, Life!Work

(* It is over: the promise is settled, unless there is none, or it stays    *)
(* untold.                                                                  *)
LEMMA FinishesSettles ==
  ASSUME IInv, phase \in {"idle", "checked"}, ~ has_finished, Finishes, UNCHANGED kind
  PROVE  kind = "close" \/ Untold' \/ Life!Settle
<1>1. CASE kind # "close" /\ outcome' = Settlement(ret') /\ phase' = "callback"
  <2>1. outcome' \in {"resolved", "rejected"}
    BY <1>1 DEF Settlement
  <2> QED
    BY <1>1, <2>1 DEF Life!Settle
<1>2. CASE kind = "connect" /\ outcome' = outcome
  BY <1>2 DEF IInv, CallOK, Finishes, Untold
<1> QED
  BY <1>1, <1>2 DEF Finishes

LEMMA LifeStep ==
  ASSUME IInv, [Next]_vars
  PROVE  kind = "close" \/ Untold' \/ Life!Next \/ UNCHANGED Life!vars
<1>1. CASE Start \/ Continue
  <2>1. /\ phase \in {"idle", "checked"} /\ ~ has_finished /\ started' /\ UNCHANGED kind
        /\ Suspends \/ Finishes
    BY <1>1 DEF Start, Continue, IInv, CallOK
  <2> QED
    BY <2>1, SuspendsWorks, FinishesSettles DEF Life!Next
<1>2. CASE CheckStatus
  BY <1>2 DEF CheckStatus, IInv, CallOK, Life!vars
<1>3. CASE CallbackEnd
  BY <1>3 DEF CallbackEnd, IInv, CallOK, Life!Next, Life!Return, Life!Linger
<1>4. CASE Free
  BY <1>4 DEF Free, Life!Next, Life!Free
<1>5. CASE Network \/ UNCHANGED vars
  BY <1>5 DEF Network, Answer, Disturb, HangUp, PollFails, PollRecovers, vars, Life!vars
<1> QED
  BY <1>1, <1>2, <1>3, <1>4, <1>5 DEF Next, Tick, Done

(* However often it is suspended and whatever raises, an action settles its *)
(* promise once, is not continued after that, and is freed last.            *)
THEOREM LivesOnce == Spec => ImplementsLifeSteps
<1>1. Init => Life!Init
  BY DEF Init, Life!Init
<1>2. IInv /\ [Next]_vars => [kind = "close" \/ Untold' \/ Life!Next]_(Life!vars)
  BY LifeStep
<1> QED
  BY <1>1, <1>2, IInvHolds, PTL DEF Spec, ImplementsLifeSteps

=============================================================================
