----------------------------- MODULE TaskSender -----------------------------
(***************************************************************************)
(* What the calls of a task's sender promise the bridge, without flock,    *)
(* journal or snapshots of the rollout (docs/architecture.md:49-56): a     *)
(* prompt is submitted at most once over all calls that carry it;          *)
(* "accepted" names a message that exists; "not_sent" is answered only by  *)
(* a call that submitted nothing, for a prompt nobody submitted or for a   *)
(* task that cannot be read; a call may end without such an answer at any  *)
(* time.  SavedSend sees a whole call as one of its steps Accepted,        *)
(* NotSent and Uncertain.                                                  *)
(***************************************************************************)
CONSTANTS Txn, Call, None

VARIABLES
  submitted,   \* prompts the owner of the task received
  source,      \* prompts that are messages of the task
  unreadable,  \* the task cannot be read any more
  phase,       \* "off", "new": submitted nothing yet, "asked": submitted
  txn,         \* prompt each call carries
  answer       \* how the last run of each call ended

vars == <<submitted, source, unreadable, phase, txn, answer>>

Init ==
  /\ submitted = {}
  /\ source = {}
  /\ unreadable \in BOOLEAN
  /\ phase = [c \in Call |-> "off"]
  /\ txn = [c \in Call |-> None]
  /\ answer = [c \in Call |-> "none"]

Begin(c, t) ==
  /\ phase[c] = "off"
  /\ phase' = [phase EXCEPT ![c] = "new"]
  /\ txn' = [txn EXCEPT ![c] = t]
  /\ answer' = [answer EXCEPT ![c] = "none"]
  /\ UNCHANGED <<submitted, source, unreadable>>

End(c, a) ==
  /\ phase' = [phase EXCEPT ![c] = "off"]
  /\ answer' = [answer EXCEPT ![c] = a]

\* The call may hear of it or fail in the same moment.
Submit(c) ==
  /\ phase[c] = "new"
  /\ txn[c] \notin submitted
  /\ submitted' = submitted \cup {txn[c]}
  /\ \/ phase' = [phase EXCEPT ![c] = "asked"] /\ UNCHANGED answer
     \/ End(c, "error")
  /\ UNCHANGED <<source, unreadable, txn>>

Land(t) ==
  /\ t \in submitted
  /\ source' = source \cup {t}
  /\ UNCHANGED <<submitted, unreadable, phase, txn, answer>>

Accept(c) ==
  /\ phase[c] # "off"
  /\ txn[c] \in source
  /\ End(c, "accepted")
  /\ UNCHANGED <<submitted, source, unreadable, txn>>

Refuse(c) ==
  /\ phase[c] = "new"
  /\ unreadable \/ txn[c] \notin submitted
  /\ End(c, "not_sent")
  /\ UNCHANGED <<submitted, source, unreadable, txn>>

GiveUp(c) ==
  /\ phase[c] # "off"
  /\ \E a \in {"uncertain", "error"} : End(c, a)
  /\ UNCHANGED <<submitted, source, unreadable, txn>>

Outgrow ==
  /\ unreadable' = TRUE
  /\ UNCHANGED <<submitted, source, phase, txn, answer>>

Next ==
  \/ \E c \in Call :
       \/ \E t \in Txn : Begin(c, t)
       \/ Submit(c) \/ Accept(c) \/ Refuse(c) \/ GiveUp(c)
  \/ \E t \in Txn : Land(t)
  \/ Outgrow

Spec == Init /\ [][Next]_vars
=============================================================================
