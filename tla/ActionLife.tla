----------------------------- MODULE ActionLife -----------------------------
(***************************************************************************)
(* The life of one action, as the event loop and the caller see it: it     *)
(* alternates between waiting for a tick and being suspended in the        *)
(* library, settles its promise once, and is over when the callback has    *)
(* returned or, if the callback raised or there is something left to       *)
(* clean up, at a later tick.                                              *)
(***************************************************************************)
VARIABLES
  phase,   \* "waiting", "suspended", "settling", "settled" or "over"
  answer   \* "none", "resolved" or "rejected"

vars == <<phase, answer>>

Init == phase = "waiting" /\ answer = "none"

Work ==
  /\ phase \in {"waiting", "suspended"}
  /\ phase' \in {"waiting", "suspended"}
  /\ UNCHANGED answer

Settle ==
  /\ phase \in {"waiting", "suspended"}
  /\ phase' = "settling"
  /\ answer' \in {"resolved", "rejected"}

Return == phase = "settling" /\ phase' = "over" /\ UNCHANGED answer

Linger == phase = "settling" /\ phase' = "settled" /\ UNCHANGED answer

Free == phase = "settled" /\ phase' = "over" /\ UNCHANGED answer

Next == Work \/ Settle \/ Return \/ Linger \/ Free

(* No callback hangs, and no action is left suspended for ever.             *)
Spec == Init /\ [][Next]_vars /\ WF_vars(Settle) /\ WF_vars(Return \/ Linger \/ Free)

=============================================================================
