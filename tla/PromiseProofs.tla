---------------------------- MODULE PromiseProofs ----------------------------
(***************************************************************************)
(* One promise, for any number of handlers and attachments: that at most   *)
(* one is called, and exactly the one that is due.                         *)
(***************************************************************************)
EXTENDS Promise, SequenceTheorems, TLAPS

(* A handler field holds the handler attached last for its outcome.         *)
LastAttached(field, outcome) ==
  IF field = None
  THEN \A i \in DOMAIN attached : attached[i].outcome # outcome
  ELSE \E i \in DOMAIN attached :
         /\ attached[i].handler = field /\ attached[i].outcome = outcome
         /\ \A j \in DOMAIN attached : j > i => attached[j].outcome # outcome

HandlersAttached ==
  LastAttached(_next, "success") /\ LastAttached(_catch, "failure")

LateAfter ==
  result = "none" => \A i \in DOMAIN attached : ~ attached[i].late

(* _finished counts the calls.                                              *)
CallsCounted ==
  /\ ~ _finished =>
       /\ fired = <<>>
       /\ result # "none" => \A i \in DOMAIN attached : attached[i].outcome # result
  /\ _finished => \E i \in DOMAIN attached : Due(i) /\ fired = <<attached[i].handler>>

IInv == TypeOK /\ HandlersAttached /\ LateAfter /\ CallsCounted

LEMMA InitIInv == Init => IInv
<1>1. Init => TypeOK
  <2>1. Init => fired \in Seq(Handlers) /\ attached \in Seq(Attachments)
    BY DEF Init
  <2>2. Init => _finished \in BOOLEAN /\ refused \in BOOLEAN
    BY DEF Init
  <2> QED
    BY <2>1, <2>2 DEF Init, TypeOK
<1>2. Init => HandlersAttached /\ LateAfter
  BY DEF Init, HandlersAttached, LastAttached, LateAfter
<1>3. Init => CallsCounted
  BY DEF Init, CallsCounted
<1> QED
  BY <1>1, <1>2, <1>3 DEF IInv

(* No two attachments are due.                                              *)
LEMMA DueIsOne ==
  ASSUME TypeOK, NEW i \in DOMAIN attached, NEW k \in DOMAIN attached, Due(i), Due(k)
  PROVE  i = k
<1>1. attached \in Seq(Attachments) /\ i \in Nat /\ k \in Nat
  BY DEF TypeOK
<1>2. attached[i].outcome = result /\ attached[k].outcome = result
  BY DEF Due
<1> SUFFICES ASSUME i # k
             PROVE  FALSE
  OBVIOUS
<1>3. IF attached[i].late THEN attached[k].late /\ i < k
                          ELSE attached[k].late \/ k < i
  BY <1>2 DEF Due
<1>4. IF attached[k].late THEN attached[i].late /\ k < i
                          ELSE attached[i].late \/ i < k
  BY <1>2 DEF Due
<1> QED
  BY <1>1, <1>3, <1>4

(* What a recorded attachment is, and that it leaves the earlier ones.      *)
LEMMA Recorded ==
  ASSUME TypeOK, NEW h \in Handlers, NEW outcome \in Outcomes, Record(h, outcome),
         NEW n \in Nat, n = Len(attached) + 1
  PROVE  /\ attached' \in Seq(Attachments)
         /\ n >= 1 /\ DOMAIN attached = 1..(n - 1) /\ DOMAIN attached' = 1..n
         /\ \A i \in DOMAIN attached : i # n /\ i < n /\ attached'[i] = attached[i]
         /\ attached'[n].handler = h /\ attached'[n].outcome = outcome
         /\ attached'[n].late = (result # "none")
<1> DEFINE e == [handler |-> h, outcome |-> outcome, late |-> result # "none"]
<1>1. attached \in Seq(Attachments) /\ e \in Attachments
  BY DEF TypeOK, Attachments
<1>2. attached' = Append(attached, e)
  BY DEF Record
<1> HIDE DEF e
<1>3. /\ attached' \in Seq(Attachments)
      /\ n >= 1 /\ DOMAIN attached = 1..(n - 1) /\ DOMAIN attached' = 1..n
      /\ attached'[n] = e
  BY <1>1, <1>2
<1>4. \A i \in DOMAIN attached : i # n /\ i < n /\ attached'[i] = attached[i]
  BY <1>1, <1>2
<1> QED
  BY <1>3, <1>4 DEF e

(* Attaching h for an outcome sets its field, keeps the other and the call  *)
(* that was made, and makes the one that becomes due.                       *)
LEMMA AttachKeeps ==
  ASSUME IInv, NEW h \in Handlers, NEW outcome \in Outcomes, Record(h, outcome),
         NEW n \in Handlers \cup {None}, NEW c \in Handlers \cup {None},
         outcome = "success" => n = h /\ c = _catch,
         outcome = "failure" => c = h /\ n = _next,
         _next' = n, _catch' = c, result' = result, refused' = refused,
         Try(n, c, result)
  PROVE  IInv'
<1>0. PICK m \in Nat : m = Len(attached) + 1
  BY DEF IInv, TypeOK
<1>1. /\ attached' \in Seq(Attachments)
      /\ m >= 1 /\ DOMAIN attached = 1..(m - 1) /\ DOMAIN attached' = 1..m
      /\ \A i \in DOMAIN attached : i # m /\ i < m /\ attached'[i] = attached[i]
      /\ attached'[m].handler = h /\ attached'[m].outcome = outcome
      /\ attached'[m].late = (result # "none")
  BY <1>0, Recorded DEF IInv
<1>2. m \in DOMAIN attached' /\ \A i \in DOMAIN attached : i \in DOMAIN attached'
  BY <1>1
<1>3. \A i \in DOMAIN attached' : i = m \/ i \in DOMAIN attached
  BY <1>1
<1>4. h # None
  BY ConstantsAssumption
<1>5. HandlersAttached'
  <2>1. ASSUME NEW f \in Handlers \cup {None}, NEW o \in Outcomes,
               o # outcome, LastAttached(f, o)
        PROVE  LastAttached(f, o)'
    <3>1. CASE f = None
      BY <1>1, <1>3, <2>1, <3>1 DEF LastAttached
    <3>2. CASE f # None
      <4>1. PICK i \in DOMAIN attached :
              /\ attached[i].handler = f /\ attached[i].outcome = o
              /\ \A j \in DOMAIN attached : j > i => attached[j].outcome # o
        BY <2>1, <3>2 DEF LastAttached
      <4>2. \A j \in DOMAIN attached' : j > i => attached'[j].outcome # o
        BY <1>1, <1>3, <2>1, <4>1
      <4>3. /\ i \in DOMAIN attached'
            /\ attached'[i].handler = f /\ attached'[i].outcome = o
        BY <1>1, <1>2, <4>1
      <4> QED
        BY <3>2, <4>2, <4>3 DEF LastAttached
    <3> QED
      BY <3>1, <3>2
  <2>2. LastAttached(h, outcome)'
    <3>1. \A j \in DOMAIN attached' : j > m => attached'[j].outcome # outcome
      BY <1>1
    <3> QED
      BY <1>1, <1>2, <1>4, <3>1 DEF LastAttached
  <2>3. /\ _next \in Handlers \cup {None} /\ _catch \in Handlers \cup {None}
        /\ LastAttached(_next, "success") /\ LastAttached(_catch, "failure")
    BY DEF IInv, TypeOK, HandlersAttached
  <2>4. CASE outcome = "success"
    <3>1. LastAttached(_catch, "failure")'
      BY <2>1, <2>3, <2>4 DEF Outcomes
    <3> QED
      BY <2>2, <2>4, <3>1 DEF HandlersAttached, LastAttached
  <2>5. CASE outcome = "failure"
    <3>1. LastAttached(_next, "success")'
      BY <2>1, <2>3, <2>5 DEF Outcomes
    <3> QED
      BY <2>2, <2>5, <3>1 DEF HandlersAttached, LastAttached
  <2> QED
    BY <2>4, <2>5 DEF Outcomes
<1>6. LateAfter'
  BY <1>1, <1>3 DEF IInv, LateAfter
<1>7. CASE _finished
  <2>1. UNCHANGED <<running, fired, _finished>>
    BY <1>7 DEF Try, IInv, TypeOK
  <2>2. PICK i \in DOMAIN attached : Due(i) /\ fired = <<attached[i].handler>>
    BY <1>7 DEF IInv, CallsCounted
  <2>3. result # "none"
    <3>1. attached[i] \in Attachments
      BY <2>2 DEF IInv, TypeOK
    <3> QED
      BY <2>2, <3>1 DEF Due, Attachments, Outcomes
  <2>4. \A j \in DOMAIN attached' \ {i} :
          attached'[j].outcome = result =>
            IF attached'[i].late THEN attached'[j].late /\ i < j
                                 ELSE attached'[j].late \/ j < i
    <3> TAKE j \in DOMAIN attached' \ {i}
    <3>1. CASE j = m
      BY <1>1, <2>2, <2>3, <3>1
    <3>2. CASE j \in DOMAIN attached
      BY <1>1, <2>2, <3>2 DEF Due
    <3> QED
      BY <1>3, <3>1, <3>2
  <2>5. Due(i)' /\ fired' = <<attached'[i].handler>> /\ i \in DOMAIN attached'
    BY <1>1, <1>2, <2>1, <2>2, <2>4 DEF Due
  <2>6. CallsCounted'
    BY <1>7, <2>1, <2>5 DEF CallsCounted
  <2> QED
    BY <1>1, <1>5, <1>6, <2>1, <2>6 DEF IInv, TypeOK
<1>8. CASE ~ _finished /\ Wanted(n, c, result) = None
  <2>1. UNCHANGED <<running, fired, _finished>>
    BY <1>8 DEF Try, IInv, TypeOK
  <2>2. fired = <<>>
    BY <1>8 DEF IInv, CallsCounted
  <2>3. result # "none" => result # outcome
    BY <1>4, <1>8 DEF Wanted, Outcomes
  <2>4. result # "none" => \A i \in DOMAIN attached' : attached'[i].outcome # result
    BY <1>1, <1>3, <1>8, <2>3 DEF IInv, CallsCounted
  <2>5. CallsCounted'
    BY <1>8, <2>1, <2>2, <2>4 DEF CallsCounted
  <2> QED
    BY <1>1, <1>5, <1>6, <2>1, <2>5 DEF IInv, TypeOK
<1>9. CASE ~ _finished /\ Wanted(n, c, result) # None
  <2>1. result # "none"
    BY <1>9 DEF Wanted
  <2>2. fired = <<>> /\ \A i \in DOMAIN attached : attached[i].outcome # result
    BY <1>9, <2>1 DEF IInv, CallsCounted
  <2>3. outcome = result
    <3>1. result \in Outcomes
      BY <2>1 DEF IInv, TypeOK
    <3>2. result = "success" => _next = None
      BY <2>2 DEF IInv, HandlersAttached, LastAttached
    <3>3. result = "failure" => _catch = None
      BY <2>2 DEF IInv, HandlersAttached, LastAttached
    <3> QED
      BY <1>9, <3>1, <3>2, <3>3 DEF Wanted, Outcomes
  <2>4. Wanted(n, c, result) = h
    BY <2>3 DEF Wanted, Outcomes
  <2>5. fired' = <<h>> /\ running' = h /\ _finished' = TRUE
    <3>1. fired' = Append(<<>>, h) /\ running' = h
      BY <1>4, <1>9, <2>2, <2>4 DEF Try
    <3>2. _finished' = TRUE
      BY <1>9, <2>4, <1>4 DEF Try, IInv, TypeOK
    <3> QED
      BY <3>1, <3>2
  <2>6. Due(m)'
    BY <1>1, <1>3, <2>1, <2>2, <2>3 DEF Due
  <2>7. CallsCounted'
    BY <1>1, <1>2, <2>5, <2>6 DEF CallsCounted
  <2>8. fired' \in Seq(Handlers)
    BY <2>5
  <2> QED
    BY <1>1, <1>5, <1>6, <2>5, <2>7, <2>8 DEF IInv, TypeOK
<1> QED
  BY <1>7, <1>8, <1>9

(* The first settlement calls the handler attached last for its outcome.    *)
LEMMA SettleKeeps ==
  ASSUME IInv, NEW outcome \in Outcomes, result = "none", result' = outcome,
         Try(_next, _catch, outcome), UNCHANGED <<_next, _catch, attached, refused>>
  PROVE  IInv'
<1>1. outcome # "none"
  BY DEF Outcomes
<1>2. \A i \in DOMAIN attached : attached[i].outcome # result /\ ~ attached[i].late
  <2> TAKE i \in DOMAIN attached
  <2>1. attached[i] \in Attachments
    BY DEF IInv, TypeOK
  <2> QED
    BY <2>1 DEF IInv, LateAfter, Attachments, Outcomes
<1>3. ~ _finished /\ fired = <<>>
  BY <1>2 DEF IInv, CallsCounted, Due, TypeOK
<1>4. HandlersAttached' /\ LateAfter'
  BY <1>1 DEF IInv, HandlersAttached, LastAttached, LateAfter
<1> DEFINE w == Wanted(_next, _catch, outcome)
<1>5. LastAttached(w, outcome) /\ w \in Handlers \cup {None}
  BY DEF IInv, TypeOK, HandlersAttached, Wanted, Outcomes
<1>6. CASE w = None
  <2>1. UNCHANGED <<running, fired, _finished>>
    BY <1>3, <1>6 DEF Try, IInv, TypeOK
  <2>2. CallsCounted'
    BY <1>3, <1>5, <1>6, <2>1 DEF CallsCounted, LastAttached
  <2> QED
    BY <1>4, <2>1, <2>2 DEF IInv, TypeOK
<1>7. CASE w # None
  <2>1. fired' = <<w>> /\ running' = w /\ _finished' = TRUE
    <3> HIDE DEF w
    <3>1. Wanted(_next, _catch, outcome) = w
      BY DEF w
    <3>2. fired' = Append(<<>>, w) /\ running' = w
      BY <1>3, <1>7, <3>1 DEF Try
    <3>3. _finished' = TRUE
      BY <1>3, <1>7, <3>1 DEF Try
    <3> QED
      BY <3>2, <3>3
  <2>2. PICK i \in DOMAIN attached :
          /\ attached[i].handler = w /\ attached[i].outcome = outcome
          /\ \A j \in DOMAIN attached : j > i => attached[j].outcome # outcome
    BY <1>5, <1>7 DEF LastAttached
  <2>3. \A j \in DOMAIN attached : j \in Nat
    BY DEF IInv, TypeOK
  <2>4. Due(i)'
    BY <1>2, <2>2, <2>3 DEF Due
  <2>5. CallsCounted'
    BY <2>1, <2>2, <2>4 DEF CallsCounted
  <2>6. fired' \in Seq(Handlers)
    BY <1>5, <1>7, <2>1
  <2> QED
    BY <1>4, <1>5, <2>1, <2>5, <2>6 DEF IInv, TypeOK
<1> QED
  BY <1>6, <1>7

LEMMA NextIInv ==
  ASSUME IInv, [Next]_vars
  PROVE  IInv'
<1>1. ASSUME NEW h \in Handlers, AttachNext(h)
      PROVE  IInv'
  <2>1. _catch \in Handlers \cup {None} /\ "success" \in Outcomes
    BY DEF IInv, TypeOK, Outcomes
  <2> QED
    BY <1>1, <2>1, AttachKeeps DEF AttachNext
<1>2. ASSUME NEW h \in Handlers, AttachCatch(h)
      PROVE  IInv'
  <2>1. _next \in Handlers \cup {None} /\ "failure" \in Outcomes
    BY DEF IInv, TypeOK, Outcomes
  <2> QED
    BY <1>2, <2>1, AttachKeeps DEF AttachCatch
<1>3. ASSUME UNCHANGED <<_next, _catch, result, _finished, fired, attached>>,
             running' \in Handlers \cup {None}, refused' \in BOOLEAN
      PROVE  IInv'
  BY <1>3 DEF IInv, TypeOK, HandlersAttached, LastAttached, LateAfter, CallsCounted, Due
<1>4. CASE CallMethod
  BY <1>3, <1>4 DEF CallMethod
<1>5. ASSUME NEW outcome \in Outcomes, Finish(outcome)
      PROVE  IInv'
  <2>1. CASE result = "none"
    BY <1>5, <2>1, SettleKeeps DEF Finish
  <2>2. CASE result # "none"
    BY <1>3, <1>5, <2>2 DEF Finish, IInv, TypeOK
  <2> QED
    BY <2>1, <2>2
<1>6. CASE HandlerEnd
  BY <1>3, <1>6 DEF HandlerEnd, IInv, TypeOK
<1>7. CASE UNCHANGED vars
  BY <1>3, <1>7 DEF vars, IInv, TypeOK
<1> QED
  BY <1>1, <1>2, <1>4, <1>5, <1>6, <1>7 DEF Next

LEMMA IInvHolds == Spec => []IInv
<1>1. Init => IInv
  BY InitIInv
<1>2. IInv /\ [Next]_vars => IInv'
  BY NextIInv
<1> QED
  BY <1>1, <1>2, PTL DEF Spec

(* The types, however the promise is used.                                  *)
THEOREM TypeCorrect == Spec => []TypeOK
<1>1. IInv => TypeOK
  BY DEF IInv
<1> QED
  BY <1>1, IInvHolds, PTL

(* lua/promise.lua calls one handler at most, one attached for the outcome  *)
(* the promise was first settled with.                                      *)
THEOREM CalledOnce == Spec => []OneHandlerForResult
<1>1. IInv => OneHandlerForResult
  <2> SUFFICES ASSUME IInv
               PROVE  OneHandlerForResult
    OBVIOUS
  <2>1. CASE ~ _finished
    BY <2>1 DEF IInv, CallsCounted, OneHandlerForResult
  <2>2. CASE _finished
    <3>1. PICK i \in DOMAIN attached : Due(i) /\ fired = <<attached[i].handler>>
      BY <2>2 DEF IInv, CallsCounted
    <3>2. Len(fired) = 1 /\ DOMAIN fired = {1} /\ fired[1] = attached[i].handler
      BY <3>1
    <3> QED
      BY <3>1, <3>2 DEF OneHandlerForResult, Due
  <2> QED
    BY <2>1, <2>2 DEF IInv, TypeOK
<1> QED
  BY <1>1, IInvHolds, PTL

(* Of all the attachments made, in whatever order with the settlement, the  *)
(* one that is due has its handler called, and no other has.                *)
THEOREM DueCalled == Spec => []DueHandlerCalled
<1>1. IInv => DueHandlerCalled
  <2> SUFFICES ASSUME IInv
               PROVE  DueHandlerCalled
    OBVIOUS
  <2>1. CASE ~ _finished
    <3>1. fired = <<>>
      BY <2>1 DEF IInv, CallsCounted
    <3>2. \A i \in DOMAIN attached : ~ Due(i)
      <4> TAKE i \in DOMAIN attached
      <4>1. attached[i] \in Attachments
        BY DEF IInv, TypeOK
      <4> QED
        BY <2>1, <4>1 DEF IInv, CallsCounted, Due, Attachments, Outcomes
    <3> QED
      BY <3>1, <3>2 DEF DueHandlerCalled
  <2>2. CASE _finished
    <3>1. PICK i \in DOMAIN attached : Due(i) /\ fired = <<attached[i].handler>>
      BY <2>2 DEF IInv, CallsCounted
    <3>2. \A k \in DOMAIN attached : Due(k) => k = i
      BY <3>1, DueIsOne DEF IInv
    <3> QED
      BY <3>1, <3>2 DEF DueHandlerCalled
  <2> QED
    BY <2>1, <2>2 DEF IInv, TypeOK
<1> QED
  BY <1>1, IInvHolds, PTL

=============================================================================
