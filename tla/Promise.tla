------------------------------ MODULE Promise ------------------------------
(***************************************************************************)
(* One promise of lua/promise.lua, between the C++ side that settles it    *)
(* and Lua code that attaches handlers: before or after the settlement,    *)
(* from inside a handler too, and with handlers that raise.                *)
(*                                                                         *)
(* Promise.new stores tables under the keys next and catch of the object,  *)
(* which hide the methods of these names: promise:next(f) calls a table    *)
(* and raises.  The methods are still reached through the metatable, as    *)
(* getmetatable(promise).__index.next(promise, f).                         *)
(***************************************************************************)
EXTENDS Naturals, Sequences

CONSTANTS
  Handlers,    \* the functions Lua code may attach
  None,        \* no handler
  MaxAttached  \* bound on the calls that attach a handler

ASSUME ConstantsAssumption == None \notin Handlers /\ MaxAttached \in Nat

VARIABLES
  _next, _catch,   \* the handlers attached, or None
  result,          \* "none", or how the promise was settled first
  _finished,       \* a handler was called
  running,         \* the handler running, or None
  fired,           \* the calls of handlers, in order
  attached,        \* history: the handlers attached so far, in order
  refused          \* a call promise:next(f) or promise:catch(f) has raised

vars == <<_next, _catch, result, _finished, running, fired, attached, refused>>

Outcomes == {"success", "failure"}

(* A handler attached: for which outcome, and after the settlement or not.  *)
Attachments == [handler : Handlers, outcome : Outcomes, late : BOOLEAN]

TypeOK ==
  /\ _next \in Handlers \cup {None} /\ _catch \in Handlers \cup {None}
  /\ result \in Outcomes \cup {"none"}
  /\ _finished \in BOOLEAN /\ refused \in BOOLEAN
  /\ running \in Handlers \cup {None}
  /\ fired \in Seq(Handlers)
  /\ attached \in Seq(Attachments)

Init ==
  /\ _next = None /\ _catch = None
  /\ result = "none" /\ _finished = FALSE
  /\ running = None /\ fired = <<>> /\ attached = <<>> /\ refused = FALSE

-----------------------------------------------------------------------------
(* The handler _try calls, if it calls one.                                 *)
Wanted(n, c, r) ==
  IF r = "success" THEN n ELSE IF r = "failure" THEN c ELSE None

(* Faulty variants: _finished is not looked at; the handler is called       *)
(* although there is none.                                                  *)
TryAgain(n, c, r) ==
  LET h == Wanted(n, c, r) IN
    /\ _finished' = (_finished \/ h # None)
    /\ IF h # None THEN running' = h /\ fired' = Append(fired, h)
                   ELSE UNCHANGED <<running, fired>>

TryUnset(n, c, r) ==
  /\ _finished' = (_finished \/ r # "none")
  /\ IF ~ _finished /\ r # "none"
     THEN running' = Wanted(n, c, r) /\ fired' = Append(fired, Wanted(n, c, r))
     ELSE UNCHANGED <<running, fired>>

(* _try, with the handlers and the result as the caller has just set them:  *)
(* _finished is set before the handler runs.                                *)
Try(n, c, r) ==
  LET h == IF _finished THEN None ELSE Wanted(n, c, r) IN
    /\ _finished' = (_finished \/ h # None)
    /\ IF h # None THEN running' = h /\ fired' = Append(fired, h)
                   ELSE UNCHANGED <<running, fired>>

(* Every attachment is kept, the ones a later one replaces too.             *)
Record(h, outcome) ==
  /\ Len(attached) < MaxAttached
  /\ attached' = Append(attached,
       [handler |-> h, outcome |-> outcome, late |-> result # "none"])

(* Faulty variant: next does not look at a result that is already there.    *)
AttachNextOnly(h) ==
  /\ Record(h, "success")
  /\ _next' = h
  /\ UNCHANGED <<_catch, result, _finished, running, fired, refused>>

(* MT.next and MT.catch, called through the metatable.                      *)
AttachNext(h) ==
  /\ Record(h, "success")
  /\ _next' = h
  /\ Try(h, _catch, result)
  /\ UNCHANGED <<_catch, result, refused>>

AttachCatch(h) ==
  /\ Record(h, "failure")
  /\ _catch' = h
  /\ Try(_next, h, result)
  /\ UNCHANGED <<_next, result, refused>>

(* promise:next(f), promise:catch(f), promise:Then(f), promise:Catch(f):    *)
(* the fields of Promise.new hide the methods; the error leaves the         *)
(* handler that is running.                                                 *)
CallMethod ==
  /\ refused' = TRUE
  /\ running' = None
  /\ UNCHANGED <<_next, _catch, result, _finished, fired, attached>>

(* Faulty variant: the last settlement wins.                                *)
FinishAgain(outcome) ==
  /\ result' = outcome
  /\ Try(_next, _catch, outcome)
  /\ UNCHANGED <<_next, _catch, attached, refused>>

(* _finish: the resolve and reject functions handed to Promise.new.         *)
Finish(outcome) ==
  /\ IF result = "none"
     THEN result' = outcome /\ Try(_next, _catch, outcome)
     ELSE UNCHANGED <<result, _finished, running, fired>>
  /\ UNCHANGED <<_next, _catch, attached, refused>>

(* The handler returns or raises: nothing in promise.lua catches an error.  *)
HandlerEnd ==
  /\ running # None
  /\ running' = None
  /\ UNCHANGED <<_next, _catch, result, _finished, fired, attached, refused>>

Next ==
  \/ \E h \in Handlers : AttachNext(h) \/ AttachCatch(h)
  \/ CallMethod
  \/ \E outcome \in Outcomes : Finish(outcome)
  \/ HandlerEnd

Spec == Init /\ [][Next]_vars

-----------------------------------------------------------------------------
(* Whatever is attached, settled again or raised, and even from inside a    *)
(* handler, at most one handler is ever called, and it was attached for the *)
(* outcome the promise was settled with first.                              *)
OneHandlerForResult ==
  /\ Len(fired) <= 1
  /\ \A i \in DOMAIN fired : \E j \in DOMAIN attached :
       attached[j].handler = fired[i] /\ attached[j].outcome = result

(* The one attachment whose handler is due: the last one for the outcome    *)
(* before the settlement, or, where there was none, the first one after it. *)
Due(i) ==
  /\ attached[i].outcome = result
  /\ \A j \in DOMAIN attached \ {i} :
       attached[j].outcome = result =>
         IF attached[i].late THEN attached[j].late /\ i < j
                             ELSE attached[j].late \/ j < i

(* Attaching and settling meet in either order: once the promise is settled *)
(* the handler that is due has been called.  No other one ever is: neither  *)
(* one replaced before the settlement nor one attached after a handler was  *)
(* called, which _try drops without a word (_finished).                     *)
DueHandlerCalled ==
  /\ \A i \in DOMAIN attached : Due(i) => fired = <<attached[i].handler>>
  /\ fired # <<>> => \E i \in DOMAIN attached : Due(i)

(* lua/example.lua attaches its handlers with promise:next(f) and           *)
(* promise:catch(f): these calls attach, they do not raise.                 *)
MethodsAttach == ~ refused

=============================================================================
