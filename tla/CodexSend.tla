------------------------------ MODULE CodexSend ------------------------------
(***************************************************************************)
(* The sender of a local Codex task (scripts/codex_source.py, send and     *)
(* send_locked).  Each call is a short-lived process that the bridge       *)
(* starts for one transaction and kills after its timeout                  *)
(* (internal/source/codex.go); calls for one task exclude each other with  *)
(* an flock and share a journal file per transaction.  The desktop app     *)
(* that owns the task, its socket and its rollout file are external.       *)
(*                                                                         *)
(* A transaction, its client id and the text it carries are one identity:  *)
(* the client id is cut from the transaction id, and a journal record whose*)
(* identity differs is refused (codex_source.py:370-373, 408).             *)
(***************************************************************************)
EXTENDS Naturals

CONSTANTS
  Txn,    \* transactions sent to one task
  Call,   \* sender processes that may run at the same time
  None

ASSUME NoneAssumption == None \notin Call \cup Txn

VARIABLES
  \* durable
  journal,    \* status of each transaction's record file
  \* the desktop app and its files (external)
  requested,  \* turn requests of a transaction that reached the owner (history)
  rollout,    \* user messages of the rollout that carry its client id
  archived,   \* the catalog no longer lists the task
  oversized,  \* the rollout exceeds the bound read_thread accepts
  \* the sender processes
  lock,       \* holder of the task's flock, or None
  pc,
  txn,        \* transaction the call was started for
  seen,       \* matching messages in the rollout read before taking the lock
  verdict     \* what the call's last run answered

vars == <<journal, requested, rollout, archived, oversized, lock, pc, txn, seen, verdict>>
app  == <<requested, rollout, archived, oversized>>

\* Control points between acquiring and releasing the flock.
Locked == {"consult", "owner", "record", "call", "rejected", "confirm"}
Status == {"none", "submitting", "accepted", "not_sent"}
Answer == {"none", "accepted", "not_sent", "uncertain", "error"}

\* The flock is held exactly by the process inside the section.
Excluded == \A c \in Call : lock = c <=> pc[c] \in Locked

TypeOK ==
  /\ journal \in [Txn -> Status]
  /\ requested \in [Txn -> Nat]
  /\ rollout \in [Txn -> Nat]
  /\ archived \in BOOLEAN
  /\ oversized \in BOOLEAN
  /\ lock \in Call \cup {None}
  /\ pc \in [Call -> {"idle", "read", "wait"} \cup Locked]
  /\ txn \in [Call -> Txn \cup {None}]
  /\ seen \in [Call -> Nat]
  /\ verdict \in [Call -> Answer]
  /\ Excluded

Init ==
  /\ journal = [t \in Txn |-> "none"]
  /\ requested = [t \in Txn |-> 0]
  /\ rollout = [t \in Txn |-> 0]
  /\ archived = FALSE
  /\ oversized \in BOOLEAN
  /\ lock = None
  /\ pc = [c \in Call |-> "idle"]
  /\ txn = [c \in Call |-> None]
  /\ seen = [c \in Call |-> 0]
  /\ verdict = [c \in Call |-> "none"]

-----------------------------------------------------------------------------
\* The owner records a request it received, at any later time.
AppRecords(t) ==
  /\ rollout[t] < requested[t]
  /\ rollout' = [rollout EXCEPT ![t] = @ + 1]
  /\ UNCHANGED <<journal, requested, archived, oversized, lock, pc, txn, seen, verdict>>

AppArchives ==
  /\ archived' = ~archived
  /\ UNCHANGED <<journal, requested, rollout, oversized, lock, pc, txn, seen, verdict>>

\* A rollout only grows.
AppOutgrows ==
  /\ ~oversized
  /\ oversized' = TRUE
  /\ UNCHANGED <<journal, requested, rollout, archived, lock, pc, txn, seen, verdict>>

-----------------------------------------------------------------------------
Goto(c, label) == pc' = [pc EXCEPT ![c] = label]

\* The process prints its answer and exits; closing the file drops the flock.
Return(c, answer) ==
  /\ Goto(c, "idle")
  /\ verdict' = [verdict EXCEPT ![c] = answer]
  /\ lock' = IF lock = c THEN None ELSE lock

Write(t, status) == journal' = [journal EXCEPT ![t] = status]

Start(c, t) ==
  /\ pc[c] = "idle"
  /\ ~archived
  /\ txn' = [txn EXCEPT ![c] = t]
  /\ verdict' = [verdict EXCEPT ![c] = "none"]
  /\ Goto(c, "read")
  /\ UNCHANGED <<journal, app, lock, seen>>

\* The rollout is read before the flock is taken: it may be old when used.
ReadRollout(c) ==
  /\ pc[c] = "read"
  /\ ~oversized
  /\ seen' = [seen EXCEPT ![c] = rollout[txn[c]]]
  /\ Goto(c, "wait")
  /\ UNCHANGED <<journal, app, lock, txn, verdict>>

\* A task too large to read is answered not_sent whatever the journal says.
TooLarge(c) ==
  /\ pc[c] = "read"
  /\ oversized
  /\ Return(c, "not_sent")
  /\ UNCHANGED <<journal, app, txn, seen>>

Acquire(c) ==
  /\ pc[c] = "wait"
  /\ lock = None
  /\ lock' = c
  /\ Goto(c, "consult")
  /\ UNCHANGED <<journal, app, txn, seen, verdict>>

\* A record says accepted, or submitting and the rollout read shows exactly one
\* matching message, or submitting and it does not.
Reconcile_Any(c) ==
  /\ pc[c] = "consult"
  /\ journal[txn[c]] \in {"accepted", "submitting"}
  /\ Write(txn[c], "accepted")
  /\ Return(c, "accepted")
  /\ UNCHANGED <<app, txn, seen>>
Reconcile_RecordOnly(c) ==
  /\ pc[c] = "consult"
  /\ journal[txn[c]] = "accepted"
  /\ Return(c, "accepted")
  /\ UNCHANGED <<journal, app, txn, seen>>
Reconcile(c) ==
  /\ pc[c] = "consult"
  /\ \/ journal[txn[c]] = "accepted"
     \/ journal[txn[c]] = "submitting" /\ seen[c] = 1
  /\ Write(txn[c], "accepted")
  /\ Return(c, "accepted")
  /\ UNCHANGED <<app, txn, seen>>

StillUncertain(c) ==
  /\ pc[c] = "consult"
  /\ journal[txn[c]] = "submitting" /\ seen[c] # 1
  /\ Return(c, "uncertain")
  /\ UNCHANGED <<journal, app, txn, seen>>

\* No record, or an explicitly rejected one: a new attempt.
Attempt_Retries(c) ==
  /\ pc[c] = "consult"
  /\ journal[txn[c]] \in {"none", "not_sent", "submitting"}
  /\ ~archived /\ ~oversized
  /\ Goto(c, "owner")
  /\ UNCHANGED <<journal, app, lock, txn, seen, verdict>>
Attempt(c) ==
  /\ pc[c] = "consult"
  /\ journal[txn[c]] \in {"none", "not_sent"}
  /\ ~archived /\ ~oversized
  /\ Goto(c, "owner")
  /\ UNCHANGED <<journal, app, lock, txn, seen, verdict>>

\* connect_owner found an owner and the task is still there and readable.
OwnerReady(c) ==
  /\ pc[c] = "owner"
  /\ ~archived /\ ~oversized
  /\ Goto(c, "record")
  /\ UNCHANGED <<journal, app, lock, txn, seen, verdict>>

\* Archived or oversized on either check, or no owner within the bound.
Decline_Unread(c) ==
  /\ pc[c] \in {"consult", "owner"}
  /\ Return(c, "not_sent")
  /\ UNCHANGED <<journal, app, txn, seen>>
Decline(c) ==
  /\ \/ /\ pc[c] = "consult"
        /\ journal[txn[c]] \in {"none", "not_sent"}
        /\ archived \/ oversized
     \/ pc[c] = "owner"
  /\ Return(c, "not_sent")
  /\ UNCHANGED <<journal, app, txn, seen>>

Record(c) ==
  /\ pc[c] = "record"
  /\ Write(txn[c], "submitting")
  /\ Goto(c, "call")
  /\ UNCHANGED <<app, lock, txn, seen, verdict>>

CallOwner(c) ==
  /\ pc[c] = "call"
  /\ requested' = [requested EXCEPT ![txn[c]] = @ + 1]
  /\ Goto(c, "confirm")
  /\ UNCHANGED <<journal, rollout, archived, oversized, lock, txn, seen, verdict>>

\* The owner got the request, but its reply was lost, late or another error.
CallUnanswered_Rejected(c) ==
  /\ pc[c] = "call"
  /\ requested' = [requested EXCEPT ![txn[c]] = @ + 1]
  /\ Goto(c, "rejected")
  /\ UNCHANGED <<journal, rollout, archived, oversized, lock, txn, seen, verdict>>
CallUnanswered(c) ==
  /\ pc[c] = "call"
  /\ requested' = [requested EXCEPT ![txn[c]] = @ + 1]
  /\ Return(c, "error")
  /\ UNCHANGED <<journal, rollout, archived, oversized, txn, seen>>

\* No client, a version mismatch, no handler, or a turn that already ended.
CallRejected(c) ==
  /\ pc[c] = "call"
  /\ Goto(c, "rejected")
  /\ UNCHANGED <<journal, app, lock, txn, seen, verdict>>

RecordRejection(c) ==
  /\ pc[c] = "rejected"
  /\ Write(txn[c], "not_sent")
  /\ Return(c, "not_sent")
  /\ UNCHANGED <<app, txn, seen>>

\* One of the polls of the rollout shows exactly one matching message.
Confirm(c) ==
  /\ pc[c] = "confirm"
  /\ ~oversized
  /\ rollout[txn[c]] = 1
  /\ Write(txn[c], "accepted")
  /\ Return(c, "accepted")
  /\ UNCHANGED <<app, txn, seen>>

\* The polls ran out.
Unconfirmed(c) ==
  /\ pc[c] = "confirm"
  /\ Return(c, "uncertain")
  /\ UNCHANGED <<journal, app, txn, seen>>

\* An exception, the bridge's timeout or a crash ends the process anywhere; the
\* kernel drops the flock, the record file stays as it was last replaced.
Dies(c) ==
  /\ pc[c] # "idle"
  /\ Return(c, "error")
  /\ UNCHANGED <<journal, app, txn, seen>>

Step(c) ==
  \/ ReadRollout(c) \/ TooLarge(c) \/ Acquire(c)
  \/ Reconcile(c) \/ StillUncertain(c) \/ Attempt(c)
  \/ OwnerReady(c) \/ Decline(c) \/ Record(c)
  \/ CallOwner(c) \/ CallUnanswered(c) \/ CallRejected(c) \/ RecordRejection(c)
  \/ Confirm(c) \/ Unconfirmed(c) \/ Dies(c)

Next ==
  \/ \E t \in Txn : AppRecords(t)
  \/ AppArchives \/ AppOutgrows
  \/ \E c \in Call : Step(c) \/ \E t \in Txn : Start(c, t)

Spec == Init /\ [][Next]_vars

-----------------------------------------------------------------------------
\* The owner is asked to run a prompt at most once, however often the bridge
\* replays it, whichever process dies and whatever reply is lost
\* (codex_source.py:351-352, 411, 422-423).
SubmitOnce == \A t \in Txn : requested[t] <= 1

\* An accepted answer and an accepted record name a prompt of the rollout.
AcceptedIsInRollout ==
  /\ \A t \in Txn : journal[t] = "accepted" => rollout[t] = 1
  /\ \A c \in Call : verdict[c] = "accepted" => rollout[txn[c]] = 1

\* Under the flock, not_sent is answered only for a prompt the owner never got.
NotSentIsTrue ==
  [][\A c \in Call : lock = c /\ verdict[c] = "none" /\ verdict'[c] = "not_sent"
        => requested[txn[c]] = 0]_vars

\* The processes keep the sender's promise: with flock, journal and snapshots left
\* out, every step of theirs is a step of TaskSender or changes nothing it speaks of.
Submitted == {t \in Txn : requested[t] > 0}
Landed == {t \in Txn : rollout[t] > 0}
Phase ==
  [c \in Call |-> CASE pc[c] = "idle"    -> "off"
                    [] pc[c] = "confirm" -> "asked"
                    [] OTHER             -> "new"]
Promise == INSTANCE TaskSender WITH
             submitted <- Submitted, source <- Landed, unreadable <- oversized,
             phase <- Phase, answer <- verdict
KeepsPromise == Promise!Spec

\* Replaying a prompt that the owner received settles it, unless the rollout
\* outgrows the bound: a saved send is replayed on every poll (sync.go:46-67) and
\* each step of its replays succeeds now and then.
Fairness ==
  /\ \A t \in Txn : WF_vars(AppRecords(t))
  /\ \A c \in Call : WF_vars(Step(c))
  /\ \A c \in Call, t \in Txn :
       /\ SF_vars(Start(c, t))
       /\ SF_vars(ReadRollout(c) /\ txn[c] = t)
       /\ SF_vars(Acquire(c) /\ txn[c] = t)
       /\ SF_vars((Reconcile(c) \/ StillUncertain(c)) /\ txn[c] = t)

FairSpec == Spec /\ Fairness

ReplaySettles ==
  []<>~archived =>
    \A t \in Txn : (requested[t] = 1) ~> (journal[t] = "accepted" \/ oversized)
=============================================================================
