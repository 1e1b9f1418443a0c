----------------------------- MODULE AsyncAction -----------------------------
(***************************************************************************)
(* One action of class LuaActionAsync and the socket it waits for: which   *)
(* events the library asks for, which the two polls of a tick see, and how *)
(* the action ends with what the last library call has returned.  The      *)
(* network moves between any two polls, and a poll may fail.               *)
(***************************************************************************)
EXTENDS Naturals

CONSTANTS
  Masks,      \* what a suspended call may wait for, each a set of events
  MaxRounds   \* how often the library may suspend within one call

Events == {"READ", "WRITE", "EXCEPT"}

(* libmariadb waits for one direction at a time, and never for a timeout    *)
(* alone: EXCEPT comes with a connect, TIMEOUT where one is configured.     *)
ASSUME MasksAssumption ==
  /\ \A mask \in Masks :
       /\ mask \subseteq Events \cup {"TIMEOUT"}
       /\ mask \cap Events # {}
       /\ ~ {"READ", "WRITE"} \subseteq mask
  /\ MaxRounds \in Nat

VARIABLES
  kind,           \* "connect", "command" or "close"
  started,        \* LuaActionAsync::started
  ret,            \* what the library call returned: "unset", "ok" or "error"
  has_finished,
  phase,          \* "idle", "checked" (between two polls), "callback" or "over"
  socket_state,   \* the events waited for
  rounds,         \* how often the call was suspended
  readable,       \* the events on the socket
  hangup,         \* POLLHUP or POLLERR on the socket
  poll_error,     \* poll returns -1 at present
  outcome         \* how the promise is settled

vars == <<kind, started, ret, has_finished, phase, socket_state, rounds,
          readable, hangup, poll_error, outcome>>

TypeOK ==
  /\ kind \in {"connect", "command", "close"}
  /\ started \in BOOLEAN /\ has_finished \in BOOLEAN
  /\ hangup \in BOOLEAN /\ poll_error \in BOOLEAN
  /\ ret \in {"unset", "ok", "error"}
  /\ phase \in {"idle", "checked", "callback", "over"}
  /\ socket_state \in Masks \cup {{}}
  /\ rounds \in 0..MaxRounds
  /\ readable \subseteq Events
  /\ outcome \in {"none", "resolved", "rejected"}

Init ==
  /\ kind \in {"connect", "command", "close"}
  /\ started = FALSE /\ ret = "unset" /\ has_finished = FALSE /\ phase = "idle"
  /\ socket_state = {} /\ rounds = 0
  /\ readable \in SUBSET Events /\ hangup = FALSE /\ poll_error = FALSE
  /\ outcome = "none"

-----------------------------------------------------------------------------
(* The status of the socket                                                 *)

(* A hang-up makes poll return, with no event the function translates; a    *)
(* poll that fails is reported as a timeout.                                *)
GetCurrentDatabaseStatus(mask) ==
  IF poll_error \/ (readable \cap mask = {} /\ ~ hangup)
  THEN {"TIMEOUT"} ELSE readable \cap mask

(* Faulty variants: both kinds of events must be there; no event need be.   *)
CheckDatabaseStatusAll(mask) == mask \cap Events \subseteq GetCurrentDatabaseStatus(mask)
CheckDatabaseStatusNone(mask) == TRUE

CheckDatabaseStatus(mask) ==
  LET status == GetCurrentDatabaseStatus(mask)
      Seen(part) == mask \cap part = status \cap part /\ mask \cap part # {}
  IN mask = {} \/ Seen({"READ", "WRITE"}) \/ Seen({"EXCEPT"})

-----------------------------------------------------------------------------
(* Query                                                                    *)

(* The library call suspends again, or is over.                             *)
Suspends ==
  /\ rounds < MaxRounds
  /\ rounds' = rounds + 1
  /\ socket_state' \in Masks
  /\ phase' = "idle"
  /\ UNCHANGED <<ret, has_finished, outcome>>

(* Faulty variant: the result is not translated.                            *)
SettlementRaw(result) == result

Settlement(result) == IF result = "ok" THEN "resolved" ELSE "rejected"

(* Faulty variant: DoFinish does not note that it was called.               *)
FinishesUnmarked ==
  /\ socket_state' = {} /\ rounds' = rounds
  /\ ret' \in {"ok", "error"}
  /\ outcome' = Settlement(ret')
  /\ phase' = "callback"
  /\ UNCHANGED has_finished

(* Finish: the closing actions have no answer; a connect has none either    *)
(* if db->Push raises, the database having been collected meanwhile.        *)
Finishes ==
  /\ has_finished' = TRUE
  /\ socket_state' = {} /\ rounds' = rounds
  /\ ret' \in {"ok", "error"}
  /\ \/ /\ kind # "close"
        /\ outcome' = Settlement(ret')
        /\ phase' = "callback"
     \/ /\ kind = "close"
        /\ phase' = "over" /\ outcome' = outcome
     \/ /\ kind = "connect" /\ ret' = "ok"
        /\ phase' = "idle" /\ outcome' = outcome

Start ==
  /\ phase = "idle" /\ ~ started
  /\ started' = TRUE
  /\ Suspends \/ Finishes
  /\ UNCHANGED <<kind, readable, hangup, poll_error>>

CheckStatus ==
  /\ phase = "idle" /\ started /\ ~ has_finished
  /\ CheckDatabaseStatus(socket_state)
  /\ phase' = "checked"
  /\ UNCHANGED <<kind, started, ret, has_finished, socket_state, rounds, readable,
                 hangup, poll_error, outcome>>

(* The status of the second poll.                                           *)
Given == GetCurrentDatabaseStatus(socket_state)

(* The library uses up the events it is given, but an end of file stays.    *)
(* A timeout fails what it was waiting for.                                 *)
Continue ==
  /\ phase = "checked"
  /\ readable' = IF hangup THEN readable ELSE readable \ Given
  /\ Suspends \/ Finishes
  /\ "TIMEOUT" \in Given => ret' # "ok"
  /\ UNCHANGED <<kind, started, hangup, poll_error>>

(* The callback returns and the action is freed, or it raises.              *)
CallbackEnd ==
  /\ phase = "callback"
  /\ phase' \in {"idle", "over"}
  /\ UNCHANGED <<kind, started, ret, has_finished, socket_state, rounds, readable,
                 hangup, poll_error, outcome>>

(* The tick after one whose Finish raised.                                  *)
Free ==
  /\ phase = "idle" /\ has_finished
  /\ phase' = "over"
  /\ UNCHANGED <<kind, started, ret, has_finished, socket_state, rounds, readable,
                 hangup, poll_error, outcome>>

-----------------------------------------------------------------------------
(* The network: an event awaited, another one, or the end of the connection *)

Awaited == socket_state \cap Events

Answer ==
  /\ phase # "over" /\ Awaited # {} /\ Awaited \cap readable = {}
  /\ \E e \in Awaited : readable' = readable \cup {e}
  /\ UNCHANGED <<kind, started, ret, has_finished, phase, socket_state, rounds,
                 hangup, poll_error, outcome>>

Disturb ==
  /\ phase # "over"
  /\ \E e \in Events \ readable : readable' = readable \cup {e}
  /\ UNCHANGED <<kind, started, ret, has_finished, phase, socket_state, rounds,
                 hangup, poll_error, outcome>>

HangUp ==
  /\ phase # "over" /\ ~ hangup
  /\ hangup' = TRUE
  /\ UNCHANGED <<kind, started, ret, has_finished, phase, socket_state, rounds,
                 readable, poll_error, outcome>>

(* The next polls fail, or succeed again.                                   *)
PollFails ==
  /\ phase # "over" /\ ~ poll_error
  /\ poll_error' = TRUE
  /\ UNCHANGED <<kind, started, ret, has_finished, phase, socket_state, rounds,
                 readable, hangup, outcome>>

PollRecovers ==
  /\ phase # "over" /\ poll_error
  /\ poll_error' = FALSE
  /\ UNCHANGED <<kind, started, ret, has_finished, phase, socket_state, rounds,
                 readable, hangup, outcome>>

Done == phase = "over" /\ UNCHANGED vars

Tick == Start \/ CheckStatus \/ Continue \/ CallbackEnd \/ Free

Network == Answer \/ Disturb \/ HangUp \/ PollFails \/ PollRecovers

Next == Tick \/ Network \/ Done

Spec == Init /\ [][Next]_vars

(* The hook ticks, an event the library awaits comes in the end, that of a  *)
(* closed connection included, and the polls of the hook do not all fail.   *)
FairSpec ==
  /\ Spec
  /\ WF_vars(Tick) /\ WF_vars(Answer)
  /\ WF_vars(PollRecovers) /\ SF_vars(CheckStatus)

-----------------------------------------------------------------------------
(* The library is continued only for an event it waits for: whatever the    *)
(* network does after the first poll, the second one gives it such an       *)
(* event, never the empty status of a mere hang-up, and never a timeout,    *)
(* which it would take for a failure, unless that second poll itself fails. *)
ContinuedReady ==
  phase = "checked" /\ ~ poll_error =>
    Given \cap Awaited # {} /\ "TIMEOUT" \notin Given

Life == INSTANCE ActionLife WITH
  phase  <- IF phase = "over" THEN "over"
            ELSE IF phase = "callback" THEN "settling"
            ELSE IF has_finished THEN "settled"
            ELSE IF started THEN "suspended" ELSE "waiting",
  answer <- outcome

(* A connect whose Push raised: it is finished, and its promise never told. *)
Untold == kind = "connect" /\ has_finished /\ outcome = "none"

(* Over all suspensions, failing polls and raising callbacks the action     *)
(* lives the life of an action: it settles its promise once, is never       *)
(* continued after that, and is freed after its callback.  Closings have no *)
(* promise, and an untold connect is just freed.                            *)
ImplementsLifeSteps ==
  Life!Init /\ [][kind = "close" \/ Untold' \/ Life!Next]_(Life!vars)

(* Whatever the library waits for, the action ends.                         *)
ActionEnds == <>(phase = "over")

=============================================================================
