--------------------------- MODULE SerialService ---------------------------
(***************************************************************************)
(* What a Lua programmer relies on, whatever suspends, fails or is         *)
(* collected: each database is a queue of calls that are answered one      *)
(* after the other, in the order they were made, each at most once, and    *)
(* no owed call disappears without an answer.                              *)
(***************************************************************************)
EXTENDS Sequences

CONSTANTS Clients, Calls

VARIABLES
  pending,   \* pending[c]: the calls of c not over yet, oldest first
  answer,    \* answer[r]: "none", "resolved" or "rejected"
  accepted,  \* the calls made so far
  owed       \* those of them that may not end unanswered

vars == <<pending, answer, accepted, owed>>

Init ==
  /\ pending = [c \in Clients |-> <<>>]
  /\ answer = [r \in Calls |-> "none"]
  /\ accepted = {}
  /\ owed = {}

(* A call is made once, and joins the end of its queue.                     *)
Accept(c, r) ==
  /\ r \notin accepted
  /\ accepted' = accepted \cup {r}
  /\ owed' \in {owed, owed \cup {r}}
  /\ pending' = [pending EXCEPT ![c] = Append(@, r)]
  /\ UNCHANGED answer

(* Only the oldest call is answered, and never a second time.               *)
Answer(c, result) ==
  /\ pending[c] # <<>>
  /\ answer[Head(pending[c])] = "none"
  /\ answer' = [answer EXCEPT ![Head(pending[c])] = result]
  /\ UNCHANGED <<pending, accepted, owed>>

(* Only the oldest call ends, and an owed one only when answered.           *)
Retire(c) ==
  /\ pending[c] # <<>>
  /\ Head(pending[c]) \in owed => answer[Head(pending[c])] # "none"
  /\ pending' = [pending EXCEPT ![c] = Tail(@)]
  /\ UNCHANGED <<answer, accepted, owed>>

Next ==
  \E c \in Clients :
    \/ \E r \in Calls : Accept(c, r)
    \/ \E result \in {"resolved", "rejected"} : Answer(c, result)
    \/ Retire(c)

Spec == Init /\ [][Next]_vars

=============================================================================
