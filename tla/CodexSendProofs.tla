--------------------------- MODULE CodexSendProofs ---------------------------
(***************************************************************************)
(* Proofs about CodexSend for any number of transactions and processes.    *)
(*                                                                         *)
(* The journal is what makes a replay safe, and the flock is what makes    *)
(* the journal safe to act on: Journaled says that a request that reached  *)
(* the owner is always recorded, Section what the record says at every     *)
(* point of the section, and Snapshot that the rollout read before the     *)
(* flock can only be behind the rollout.                                   *)
(***************************************************************************)
EXTENDS CodexSend, TLAPS

Started == \A c \in Call : pc[c] # "idle" => txn[c] \in Txn

Journaled ==
  \A t \in Txn :
    /\ rollout[t] <= requested[t]
    /\ requested[t] <= 1
    /\ requested[t] > 0 => journal[t] \in {"submitting", "accepted"}
    /\ journal[t] = "accepted" => rollout[t] = 1

Section ==
  \A c \in Call :
    /\ pc[c] \in {"owner", "record"} => journal[txn[c]] \in {"none", "not_sent"}
    /\ pc[c] \in {"call", "rejected"} =>
         journal[txn[c]] = "submitting" /\ requested[txn[c]] = 0
    /\ pc[c] = "confirm" => journal[txn[c]] = "submitting"

Snapshot ==
  \A c \in Call : pc[c] \in {"wait"} \cup Locked => seen[c] <= rollout[txn[c]]

Answered ==
  \A c \in Call : verdict[c] = "accepted" => txn[c] \in Txn /\ rollout[txn[c]] = 1

IInv == TypeOK /\ Started /\ Journaled /\ Section /\ Snapshot /\ Answered

-----------------------------------------------------------------------------
\* Nothing was requested, recorded or answered when the bridge starts.
LEMMA IInvInit == Init => IInv
<1> SUFFICES ASSUME Init PROVE IInv  OBVIOUS
<1>1. Excluded  BY NoneAssumption DEF Init, Excluded, Locked
<1>2. TypeOK  BY <1>1 DEF Init, TypeOK, Locked, Status, Answer
<1>3. Started /\ Journaled /\ Section /\ Snapshot /\ Answered
  BY DEF Init, Started, Journaled, Section, Snapshot, Answered, Locked
<1> QED  BY <1>2, <1>3 DEF IInv

\* What the desktop app does on its own keeps the invariant: it records only
\* what it was asked, so no snapshot gets ahead of it.
LEMMA IInvApp ==
  ASSUME IInv,
         (\E t \in Txn : AppRecords(t)) \/ AppArchives \/ AppOutgrows
  PROVE  IInv'
<1>1. CASE \E t \in Txn : AppRecords(t)
  <2> PICK t \in Txn : AppRecords(t)  BY <1>1
  <2>1. TypeOK'  BY DEF AppRecords, IInv, TypeOK, Excluded
  <2>2. Started' /\ Section'  BY DEF AppRecords, IInv, Started, Section
  <2>3. Journaled'  BY DEF AppRecords, IInv, TypeOK, Journaled
  <2>4. Snapshot'
    BY DEF AppRecords, IInv, TypeOK, Started, Snapshot, Locked
  <2>5. Answered'
    BY DEF AppRecords, IInv, TypeOK, Journaled, Answered
  <2> QED  BY <2>1, <2>2, <2>3, <2>4, <2>5 DEF IInv
<1>2. CASE AppArchives \/ AppOutgrows
  <2>1. UNCHANGED <<journal, requested, rollout, lock, pc, txn, seen, verdict>>
    BY <1>2 DEF AppArchives, AppOutgrows
  <2>2. archived' \in BOOLEAN /\ oversized' \in BOOLEAN
    BY <1>2 DEF AppArchives, AppOutgrows, IInv, TypeOK
  <2> QED
    BY <2>1, <2>2 DEF IInv, TypeOK, Excluded, Started, Journaled, Section,
       Snapshot, Answered
<1> QED  BY <1>1, <1>2

\* A new call starts with no answer and no snapshot to rely on.
LEMMA IInvStart ==
  ASSUME IInv, NEW c \in Call, NEW t \in Txn, Start(c, t)
  PROVE  IInv'
<1>1. TypeOK'  BY DEF Start, Goto, app, IInv, TypeOK, Excluded, Locked, Answer
<1>2. Started' /\ Journaled'
  BY DEF Start, Goto, app, IInv, TypeOK, Started, Journaled
<1>3. Section' /\ Snapshot'
  BY DEF Start, Goto, app, IInv, TypeOK, Section, Snapshot, Locked
<1>4. Answered'  BY DEF Start, Goto, app, IInv, TypeOK, Answered
<1> QED  BY <1>1, <1>2, <1>3, <1>4 DEF IInv

\* Reading the rollout and taking the flock: the snapshot is what the rollout
\* holds now, and the section is entered by nobody else.
LEMMA IInvOutside ==
  ASSUME IInv, NEW c \in Call,
         ReadRollout(c) \/ TooLarge(c) \/ Acquire(c)
  PROVE  IInv'
<1>1. TypeOK'
  <2>1. Excluded'
    BY NoneAssumption DEF ReadRollout, TooLarge, Acquire, Return, Goto, app,
       Locked, IInv, TypeOK, Excluded
  <2>2. lock' \in Call \cup {None} /\ UNCHANGED <<archived, oversized>>
    BY DEF ReadRollout, TooLarge, Acquire, Return, Goto, app, IInv, TypeOK
  <2>3. /\ journal' \in [Txn -> Status]
        /\ requested' \in [Txn -> Nat]
        /\ rollout' \in [Txn -> Nat]
        /\ pc' \in [Call -> {"idle", "read", "wait"} \cup Locked]
        /\ txn' \in [Call -> Txn \cup {None}]
        /\ seen' \in [Call -> Nat]
        /\ verdict' \in [Call -> Answer]
    BY DEF ReadRollout, TooLarge, Acquire, Return, Goto, Write, app,
       Locked, Status, Answer, IInv, TypeOK, Started
  <2> QED  BY <2>1, <2>2, <2>3 DEF IInv, TypeOK
<1>2. Started'
  BY DEF ReadRollout, TooLarge, Acquire, Return, Goto, app, IInv, TypeOK, Started, Locked
<1>3. Journaled'
  BY DEF ReadRollout, TooLarge, Acquire, Return, Goto, Write, app, IInv, TypeOK, Excluded,
     Started, Journaled, Section, Snapshot, Locked
<1>4. Section'
  BY DEF ReadRollout, TooLarge, Acquire, Return, Goto, Write, app, IInv, TypeOK, Excluded,
     Started, Journaled, Section, Locked
<1>5. Snapshot'
  BY DEF ReadRollout, TooLarge, Acquire, Return, Goto, app, IInv, TypeOK,
     Started, Snapshot, Locked
<1>6. Answered'
  BY DEF ReadRollout, TooLarge, Acquire, Return, Goto, Write, app, IInv, TypeOK, Excluded,
     Started, Journaled, Section, Snapshot, Answered, Locked
<1> QED  BY <1>1, <1>2, <1>3, <1>4, <1>5, <1>6 DEF IInv

\* Consulting the record: an accepted answer needs an accepted record, or a
\* submitting one and exactly one matching message.
LEMMA IInvConsult ==
  ASSUME IInv, NEW c \in Call,
         Reconcile(c) \/ StillUncertain(c) \/ Attempt(c)
  PROVE  IInv'
<1>1. TypeOK'
  <2>1. Excluded'
    BY NoneAssumption DEF Reconcile, StillUncertain, Attempt, Return, Goto, app,
       Locked, IInv, TypeOK, Excluded
  <2>2. lock' \in Call \cup {None} /\ UNCHANGED <<archived, oversized>>
    BY DEF Reconcile, StillUncertain, Attempt, Return, Goto, app, IInv, TypeOK
  <2>3. /\ journal' \in [Txn -> Status]
        /\ requested' \in [Txn -> Nat]
        /\ rollout' \in [Txn -> Nat]
        /\ pc' \in [Call -> {"idle", "read", "wait"} \cup Locked]
        /\ txn' \in [Call -> Txn \cup {None}]
        /\ seen' \in [Call -> Nat]
        /\ verdict' \in [Call -> Answer]
    BY DEF Reconcile, StillUncertain, Attempt, Return, Goto, Write, app,
       Locked, Status, Answer, IInv, TypeOK, Started
  <2> QED  BY <2>1, <2>2, <2>3 DEF IInv, TypeOK
<1>2. Started'
  BY DEF Reconcile, StillUncertain, Attempt, Return, Goto, app, IInv, TypeOK, Started, Locked
<1>3. Journaled'
  BY DEF Reconcile, StillUncertain, Attempt, Return, Goto, Write, app, IInv, TypeOK, Excluded,
     Started, Journaled, Section, Snapshot, Locked
<1>4. Section'
  BY DEF Reconcile, StillUncertain, Attempt, Return, Goto, Write, app, IInv, TypeOK, Excluded,
     Started, Journaled, Section, Locked
<1>5. Snapshot'
  BY DEF Reconcile, StillUncertain, Attempt, Return, Goto, app, IInv, TypeOK,
     Started, Snapshot, Locked
<1>6. Answered'
  BY DEF Reconcile, StillUncertain, Attempt, Return, Goto, Write, app, IInv, TypeOK, Excluded,
     Started, Journaled, Section, Snapshot, Answered, Locked
<1> QED  BY <1>1, <1>2, <1>3, <1>4, <1>5, <1>6 DEF IInv

\* A new attempt is recorded before the owner is called.
LEMMA IInvRecord ==
  ASSUME IInv, NEW c \in Call,
         OwnerReady(c) \/ Decline(c) \/ Record(c)
  PROVE  IInv'
<1>1. TypeOK'
  <2>1. Excluded'
    BY NoneAssumption DEF OwnerReady, Decline, Record, Return, Goto, app,
       Locked, IInv, TypeOK, Excluded
  <2>2. lock' \in Call \cup {None} /\ UNCHANGED <<archived, oversized>>
    BY DEF OwnerReady, Decline, Record, Return, Goto, app, IInv, TypeOK
  <2>3. /\ journal' \in [Txn -> Status]
        /\ requested' \in [Txn -> Nat]
        /\ rollout' \in [Txn -> Nat]
        /\ pc' \in [Call -> {"idle", "read", "wait"} \cup Locked]
        /\ txn' \in [Call -> Txn \cup {None}]
        /\ seen' \in [Call -> Nat]
        /\ verdict' \in [Call -> Answer]
    BY DEF OwnerReady, Decline, Record, Return, Goto, Write, app,
       Locked, Status, Answer, IInv, TypeOK, Started
  <2> QED  BY <2>1, <2>2, <2>3 DEF IInv, TypeOK
<1>2. Started'
  BY DEF OwnerReady, Decline, Record, Return, Goto, app, IInv, TypeOK, Started, Locked
<1>3. Journaled'
  BY DEF OwnerReady, Decline, Record, Return, Goto, Write, app, IInv, TypeOK, Excluded,
     Started, Journaled, Section, Snapshot, Locked
<1>4. Section'
  BY DEF OwnerReady, Decline, Record, Return, Goto, Write, app, IInv, TypeOK, Excluded,
     Started, Journaled, Section, Locked
<1>5. Snapshot'
  BY DEF OwnerReady, Decline, Record, Return, Goto, app, IInv, TypeOK,
     Started, Snapshot, Locked
<1>6. Answered'
  BY DEF OwnerReady, Decline, Record, Return, Goto, Write, app, IInv, TypeOK, Excluded,
     Started, Journaled, Section, Snapshot, Answered, Locked
<1> QED  BY <1>1, <1>2, <1>3, <1>4, <1>5, <1>6 DEF IInv

\* The owner is called at most once for one record; a rejection is recorded
\* only where it was not called.
LEMMA IInvCall ==
  ASSUME IInv, NEW c \in Call,
         CallOwner(c) \/ CallUnanswered(c) \/ CallRejected(c) \/ RecordRejection(c)
  PROVE  IInv'
<1>1. TypeOK'
  <2>1. Excluded'
    BY NoneAssumption DEF CallOwner, CallUnanswered, CallRejected, RecordRejection, Return,
       Goto, app,
       Locked, IInv, TypeOK, Excluded
  <2>2. lock' \in Call \cup {None} /\ UNCHANGED <<archived, oversized>>
    BY DEF CallOwner, CallUnanswered, CallRejected, RecordRejection, Return, Goto, app,
       IInv, TypeOK
  <2>3. /\ journal' \in [Txn -> Status]
        /\ requested' \in [Txn -> Nat]
        /\ rollout' \in [Txn -> Nat]
        /\ pc' \in [Call -> {"idle", "read", "wait"} \cup Locked]
        /\ txn' \in [Call -> Txn \cup {None}]
        /\ seen' \in [Call -> Nat]
        /\ verdict' \in [Call -> Answer]
    BY DEF CallOwner, CallUnanswered, CallRejected, RecordRejection, Return, Goto, Write, app,
       Locked, Status, Answer, IInv, TypeOK, Started
  <2> QED  BY <2>1, <2>2, <2>3 DEF IInv, TypeOK
<1>2. Started'
  BY DEF CallOwner, CallUnanswered, CallRejected, RecordRejection, Return, Goto, app, IInv,
     TypeOK, Started, Locked
<1>3. Journaled'
  BY DEF CallOwner, CallUnanswered, CallRejected, RecordRejection, Return, Goto, Write,
     app, IInv, TypeOK, Excluded,
     Started, Journaled, Section, Snapshot, Locked
<1>4. Section'
  BY DEF CallOwner, CallUnanswered, CallRejected, RecordRejection, Return, Goto, Write,
     app, IInv, TypeOK, Excluded,
     Started, Journaled, Section, Locked
<1>5. Snapshot'
  BY DEF CallOwner, CallUnanswered, CallRejected, RecordRejection, Return, Goto, app, IInv,
     TypeOK,
     Started, Snapshot, Locked
<1>6. Answered'
  BY DEF CallOwner, CallUnanswered, CallRejected, RecordRejection, Return, Goto, Write,
     app, IInv, TypeOK, Excluded,
     Started, Journaled, Section, Snapshot, Answered, Locked
<1> QED  BY <1>1, <1>2, <1>3, <1>4, <1>5, <1>6 DEF IInv

\* Confirming, giving up and dying leave the record no further than the rollout.
LEMMA IInvEnd ==
  ASSUME IInv, NEW c \in Call,
         Confirm(c) \/ Unconfirmed(c) \/ Dies(c)
  PROVE  IInv'
<1>1. TypeOK'
  <2>1. Excluded'
    BY NoneAssumption DEF Confirm, Unconfirmed, Dies, Return, Goto, app,
       Locked, IInv, TypeOK, Excluded
  <2>2. lock' \in Call \cup {None} /\ UNCHANGED <<archived, oversized>>
    BY DEF Confirm, Unconfirmed, Dies, Return, Goto, app, IInv, TypeOK
  <2>3. /\ journal' \in [Txn -> Status]
        /\ requested' \in [Txn -> Nat]
        /\ rollout' \in [Txn -> Nat]
        /\ pc' \in [Call -> {"idle", "read", "wait"} \cup Locked]
        /\ txn' \in [Call -> Txn \cup {None}]
        /\ seen' \in [Call -> Nat]
        /\ verdict' \in [Call -> Answer]
    BY DEF Confirm, Unconfirmed, Dies, Return, Goto, Write, app,
       Locked, Status, Answer, IInv, TypeOK, Started
  <2> QED  BY <2>1, <2>2, <2>3 DEF IInv, TypeOK
<1>2. Started'
  BY DEF Confirm, Unconfirmed, Dies, Return, Goto, app, IInv, TypeOK, Started, Locked
<1>3. Journaled'
  BY DEF Confirm, Unconfirmed, Dies, Return, Goto, Write, app, IInv, TypeOK, Excluded,
     Started, Journaled, Section, Snapshot, Locked
<1>4. Section'
  BY DEF Confirm, Unconfirmed, Dies, Return, Goto, Write, app, IInv, TypeOK, Excluded,
     Started, Journaled, Section, Locked
<1>5. Snapshot'
  BY DEF Confirm, Unconfirmed, Dies, Return, Goto, app, IInv, TypeOK,
     Started, Snapshot, Locked
<1>6. Answered'
  BY DEF Confirm, Unconfirmed, Dies, Return, Goto, Write, app, IInv, TypeOK, Excluded,
     Started, Journaled, Section, Snapshot, Answered, Locked
<1> QED  BY <1>1, <1>2, <1>3, <1>4, <1>5, <1>6 DEF IInv

\* IInv is inductive.
LEMMA IInvStep == IInv /\ [Next]_vars => IInv'
<1> SUFFICES ASSUME IInv, [Next]_vars PROVE IInv'  OBVIOUS
<1>1. CASE UNCHANGED vars
  BY <1>1 DEF vars, IInv, TypeOK, Excluded, Started, Journaled, Section, Snapshot,
     Answered, Locked
<1>2. CASE Next
  <2>1. CASE (\E t \in Txn : AppRecords(t)) \/ AppArchives \/ AppOutgrows
    BY <2>1, IInvApp
  <2>2. ASSUME NEW c \in Call, Step(c) PROVE IInv'
    BY <2>2, IInvOutside, IInvConsult, IInvRecord, IInvCall, IInvEnd DEF Step
  <2>3. ASSUME NEW c \in Call, NEW t \in Txn, Start(c, t) PROVE IInv'
    BY <2>3, IInvStart
  <2> QED  BY <1>2, <2>1, <2>2, <2>3 DEF Next
<1> QED  BY <1>1, <1>2

\* The invariant holds in every reachable state.
LEMMA IInvAlways == Spec => []IInv
BY IInvInit, IInvStep, PTL DEF Spec

-----------------------------------------------------------------------------
\* TypeOK for every number of processes and transactions.
THEOREM Types == Spec => []TypeOK
<1>1. IInv => TypeOK  BY DEF IInv
<1> QED  BY <1>1, IInvAlways, PTL

\* At most one process is inside the section that the flock guards, wherever the
\* others die or are killed (codex_source.py:351-362).
THEOREM FlockExcludes ==
  Spec => [](\A c, d \in Call : pc[c] \in Locked /\ pc[d] \in Locked => c = d)
<1>1. IInv => \A c, d \in Call : pc[c] \in Locked /\ pc[d] \in Locked => c = d
  BY DEF IInv, TypeOK, Excluded
<1> QED  BY <1>1, IInvAlways, PTL

\* The owner of a task is asked to run a prompt at most once, however the bridge
\* replays it and wherever a process dies (codex_source.py:416-423).
THEOREM SubmittedOnce == Spec => []SubmitOnce
<1>1. IInv => SubmitOnce  BY DEF IInv, Journaled, SubmitOnce
<1> QED  BY <1>1, IInvAlways, PTL

\* An accepted answer is about a prompt of the rollout: the association the
\* bridge saves on it names a message that exists (codex_source.py:374-382, 433-440).
THEOREM AcceptedExists == Spec => []AcceptedIsInRollout
<1>1. IInv => AcceptedIsInRollout
  BY DEF IInv, Journaled, Answered, AcceptedIsInRollout
<1> QED  BY <1>1, IInvAlways, PTL

\* An answer not_sent given under the flock is true of the owner
\* (codex_source.py:383-430).
THEOREM NotSentHolds == Spec => NotSentIsTrue
<1>1. ASSUME IInv, [Next]_vars, NEW c \in Call,
             lock = c, verdict[c] = "none", verdict'[c] = "not_sent"
      PROVE  requested[txn[c]] = 0
  <2>1. verdict' # verdict  BY <1>1
  <2>2. PICK d \in Call : Step(d) \/ \E t \in Txn : Start(d, t)
    BY <1>1, <2>1 DEF Next, vars, AppRecords, AppArchives, AppOutgrows
  <2>3. d = c
    BY <1>1, <2>2 DEF Step, Start, ReadRollout, TooLarge, Acquire, Reconcile,
       StillUncertain, Attempt, OwnerReady, Decline, Record, CallOwner,
       CallUnanswered, CallRejected, RecordRejection, Confirm, Unconfirmed, Dies,
       Return, IInv, TypeOK, Excluded
  <2>4. pc[c] \in Locked  BY <1>1 DEF IInv, TypeOK, Excluded
  <2>5. Decline(c) \/ RecordRejection(c)
    BY <1>1, <2>2, <2>3, <2>4 DEF Step, Start, ReadRollout, TooLarge, Acquire,
       Reconcile, StillUncertain, Attempt, OwnerReady, Record, CallOwner,
       CallUnanswered, CallRejected, Confirm, Unconfirmed, Dies,
       Return, IInv, TypeOK, Excluded, Locked
  <2> QED
    BY <1>1, <2>4, <2>5 DEF Decline, RecordRejection, IInv, TypeOK, Started,
       Journaled, Section, Locked
<1>2. IInv /\ [Next]_vars =>
        [\A c \in Call : lock = c /\ verdict[c] = "none" /\ verdict'[c] = "not_sent"
            => requested[txn[c]] = 0]_vars
  BY <1>1
<1> QED  BY <1>2, IInvAlways, PTL DEF Spec, NotSentIsTrue

-----------------------------------------------------------------------------
\* The record of a transaction changes only in the hands of the process that
\* holds the flock and carries that transaction; an accepted record stays; and it
\* goes back to not_sent, from where a new attempt may start, only if the owner
\* never got the prompt (codex_source.py:366-382, 416-430).
RecordsAdvance ==
  [][\A t \in Txn : journal'[t] # journal[t] =>
       /\ \E c \in Call : lock = c /\ txn[c] = t
       /\ journal[t] # "accepted"
       /\ journal'[t] = "not_sent" => requested[t] = 0]_vars

THEOREM RecordsAreGuarded == Spec => RecordsAdvance
<1>1. ASSUME IInv, [Next]_vars, NEW t \in Txn, journal'[t] # journal[t]
      PROVE  /\ \E c \in Call : lock = c /\ txn[c] = t
             /\ journal[t] # "accepted"
             /\ journal'[t] = "not_sent" => requested[t] = 0
  <2>1. PICK c \in Call : Step(c) \/ \E u \in Txn : Start(c, u)
    BY <1>1 DEF Next, vars, AppRecords, AppArchives, AppOutgrows
  <2>2. Reconcile(c) \/ Record(c) \/ RecordRejection(c) \/ Confirm(c)
    BY <1>1, <2>1 DEF Step, Start, ReadRollout, TooLarge, Acquire, StillUncertain,
       Attempt, OwnerReady, Decline, CallOwner, CallUnanswered, CallRejected,
       Unconfirmed, Dies
  <2>3. pc[c] \in Locked /\ lock = c
    BY <1>1, <2>2 DEF Reconcile, Record, RecordRejection, Confirm, Locked, IInv,
       TypeOK, Excluded
  <2>4. txn[c] = t
    BY <1>1, <2>2, <2>3 DEF Reconcile, Record, RecordRejection, Confirm, Write,
       Locked, IInv, TypeOK, Started
  <2>5. journal[t] # "accepted"
    BY <1>1, <2>2, <2>4 DEF Reconcile, Record, RecordRejection, Confirm, Write,
       IInv, TypeOK, Section
  <2>6. journal'[t] = "not_sent" => requested[t] = 0
    BY <1>1, <2>2, <2>4 DEF Reconcile, Record, RecordRejection, Confirm, Write,
       IInv, TypeOK, Section
  <2> QED  BY <2>3, <2>4, <2>5, <2>6
<1>2. IInv /\ [Next]_vars =>
        [\A t \in Txn : journal'[t] # journal[t] =>
           /\ \E c \in Call : lock = c /\ txn[c] = t
           /\ journal[t] # "accepted"
           /\ journal'[t] = "not_sent" => requested[t] = 0]_vars
  BY <1>1
<1> QED  BY <1>2, IInvAlways, PTL DEF Spec, RecordsAdvance

-----------------------------------------------------------------------------
(***************************************************************************)
(* The refinement of TaskSender.  A call is "new" up to its request and    *)
(* "asked" only while it confirms, so what is under the flock or in the    *)
(* journal shows only in the guards.                                       *)
(***************************************************************************)
\* What the mapped variables are.
LEMMA PhaseOf ==
  ASSUME IInv, NEW c \in Call
  PROVE  /\ Phase[c] = "off" <=> pc[c] = "idle"
         /\ Phase[c] = "asked" <=> pc[c] = "confirm"
         /\ Phase[c] = "new" <=> pc[c] \notin {"idle", "confirm"}
BY DEF Phase

\* A process moves on without asking, answering or ending.
LEMMA PhaseKept ==
  ASSUME IInv, NEW c \in Call, NEW label, Goto(c, label),
         pc[c] \notin {"idle", "confirm"}, label \notin {"idle", "confirm"}
  PROVE  Phase' = Phase
BY DEF Phase, Goto, IInv, TypeOK

\* A process ends.
LEMMA PhaseEnds ==
  ASSUME IInv, NEW c \in Call, NEW a, Return(c, a)
  PROVE  Promise!End(c, a)
BY DEF Promise!End, Phase, Return, Goto, IInv, TypeOK

\* The processes start as the promise does.
LEMMA PromiseInit == Init => Promise!Init
BY DEF Init, Promise!Init, Submitted, Landed, Phase

\* What the desktop app does.
LEMMA PromiseApp ==
  ASSUME IInv,
         (\E t \in Txn : AppRecords(t)) \/ AppArchives \/ AppOutgrows
  PROVE  Promise!Next \/ UNCHANGED Promise!vars
<1>1. ASSUME NEW t \in Txn, AppRecords(t)
      PROVE  Promise!Land(t)
  <2>1. t \in Submitted
    BY <1>1 DEF AppRecords, Submitted, IInv, TypeOK
  <2>2. Landed' = Landed \cup {t}
    BY <1>1 DEF AppRecords, Landed, IInv, TypeOK
  <2>3. UNCHANGED <<Submitted, oversized, Phase, txn, verdict>>
    BY <1>1 DEF AppRecords, Submitted, Phase
  <2> QED  BY <2>1, <2>2, <2>3 DEF Promise!Land
<1>2. CASE AppArchives
  BY <1>2 DEF AppArchives, Promise!vars, Submitted, Landed, Phase
<1>3. CASE AppOutgrows
  BY <1>3 DEF AppOutgrows, Promise!Next, Promise!Outgrow, Submitted, Landed, Phase
<1> QED  BY <1>1, <1>2, <1>3 DEF Promise!Next

\* The steps that change nothing the promise speaks of.
LEMMA PromiseSilent ==
  ASSUME IInv, NEW c \in Call,
         \/ ReadRollout(c) \/ Acquire(c) \/ Attempt(c)
         \/ OwnerReady(c) \/ Record(c) \/ CallRejected(c)
  PROVE  UNCHANGED Promise!vars
<1>1. Phase' = Phase
  BY PhaseKept DEF ReadRollout, Acquire, Attempt, OwnerReady, Record, CallRejected
<1>2. UNCHANGED <<requested, rollout, oversized, txn, verdict>>
  BY DEF ReadRollout, Acquire, Attempt, OwnerReady, Record, CallRejected, app
<1> QED  BY <1>1, <1>2 DEF Promise!vars, Submitted, Landed

\* The steps that end a call: its answer is true.
LEMMA PromiseAnswers ==
  ASSUME IInv, NEW c \in Call,
         \/ TooLarge(c) \/ Reconcile(c) \/ StillUncertain(c) \/ Decline(c)
         \/ RecordRejection(c) \/ Confirm(c) \/ Unconfirmed(c) \/ Dies(c)
  PROVE  Promise!Accept(c) \/ Promise!Refuse(c) \/ Promise!GiveUp(c)
<1>1. UNCHANGED <<requested, rollout, oversized, txn>>
  BY DEF TooLarge, Reconcile, StillUncertain, Decline, RecordRejection, Confirm,
     Unconfirmed, Dies, app
<1>2. UNCHANGED <<Submitted, Landed, oversized, txn>>
  BY <1>1 DEF Submitted, Landed
<1>3. pc[c] # "idle" /\ txn[c] \in Txn
  BY DEF TooLarge, Reconcile, StillUncertain, Decline, RecordRejection, Confirm,
     Unconfirmed, Dies, IInv, Started
<1>4. CASE Reconcile(c) \/ Confirm(c)
  <2>1. rollout[txn[c]] = 1
    BY <1>3, <1>4 DEF Reconcile, Confirm, IInv, TypeOK, Journaled, Snapshot, Locked
  <2>2. txn[c] \in Landed
    BY <1>3, <2>1 DEF Landed
  <2>3. Promise!End(c, "accepted")
    BY <1>4, PhaseEnds DEF Reconcile, Confirm
  <2> QED  BY <1>2, <1>3, <2>2, <2>3, PhaseOf DEF Promise!Accept
<1>5. CASE TooLarge(c) \/ Decline(c) \/ RecordRejection(c)
  <2>1. pc[c] \notin {"idle", "confirm"}
    BY <1>5 DEF TooLarge, Decline, RecordRejection
  <2>2. oversized \/ requested[txn[c]] = 0
    BY <1>3, <1>5 DEF TooLarge, Decline, RecordRejection, IInv, TypeOK, Journaled, Section
  <2>3. oversized \/ txn[c] \notin Submitted
    BY <2>2 DEF Submitted
  <2>4. Promise!End(c, "not_sent")
    BY <1>5, PhaseEnds DEF TooLarge, Decline, RecordRejection
  <2> QED  BY <1>2, <2>1, <2>3, <2>4, PhaseOf DEF Promise!Refuse
<1>6. CASE StillUncertain(c) \/ Unconfirmed(c) \/ Dies(c)
  <2>1. \E a \in {"uncertain", "error"} : Promise!End(c, a)
    BY <1>6, PhaseEnds DEF StillUncertain, Unconfirmed, Dies
  <2> QED  BY <1>2, <1>3, <2>1, PhaseOf DEF Promise!GiveUp
<1> QED  BY <1>4, <1>5, <1>6

\* The request: nobody submitted the prompt before.
LEMMA PromiseSubmits ==
  ASSUME IInv, NEW c \in Call, CallOwner(c) \/ CallUnanswered(c)
  PROVE  Promise!Submit(c)
<1>1. pc[c] = "call" /\ txn[c] \in Txn /\ requested[txn[c]] = 0
  BY DEF CallOwner, CallUnanswered, IInv, Started, Section
<1>2. Phase[c] = "new" /\ txn[c] \notin Submitted
  BY <1>1, PhaseOf DEF Submitted
<1>3. requested' = [requested EXCEPT ![txn[c]] = @ + 1]
  BY DEF CallOwner, CallUnanswered
<1>4. Submitted' = Submitted \cup {txn[c]}
  BY <1>1, <1>3 DEF Submitted, IInv, TypeOK
<1>5. UNCHANGED <<Landed, oversized, txn>>
  BY DEF CallOwner, CallUnanswered, Landed
<1>6. \/ Phase' = [Phase EXCEPT ![c] = "asked"] /\ UNCHANGED verdict
      \/ Promise!End(c, "error")
  <2>1. CASE CallOwner(c)
    BY <2>1 DEF CallOwner, Goto, Phase, IInv, TypeOK
  <2>2. CASE CallUnanswered(c)
    BY <2>2, PhaseEnds DEF CallUnanswered
  <2> QED  BY <2>1, <2>2
<1> QED  BY <1>2, <1>4, <1>5, <1>6 DEF Promise!Submit

LEMMA PromiseBegins ==
  ASSUME IInv, NEW c \in Call, NEW t \in Txn, Start(c, t)
  PROVE  Promise!Begin(c, t)
<1>1. Phase[c] = "off" /\ Phase' = [Phase EXCEPT ![c] = "new"]
  BY DEF Start, Goto, Phase, IInv, TypeOK
<1> QED  BY <1>1 DEF Start, app, Promise!Begin, Submitted, Landed

\* The sender implements its promise: at-most-once submission and true answers
\* need none of what flock, journal and snapshots are made of (codex_source.py:327-440).
THEOREM SenderKeepsPromise == Spec => KeepsPromise
<1>1. IInv /\ [Next]_vars => [Promise!Next]_(Promise!vars)
  <2> SUFFICES ASSUME IInv, [Next]_vars
               PROVE  Promise!Next \/ UNCHANGED Promise!vars
    OBVIOUS
  <2>1. CASE UNCHANGED vars
    BY <2>1 DEF vars, Promise!vars, Submitted, Landed, Phase
  <2>2. CASE (\E t \in Txn : AppRecords(t)) \/ AppArchives \/ AppOutgrows
    BY <2>2, PromiseApp
  <2>3. ASSUME NEW c \in Call, Step(c)
        PROVE  Promise!Next \/ UNCHANGED Promise!vars
    BY <2>3, PromiseSilent, PromiseAnswers, PromiseSubmits DEF Step, Promise!Next
  <2>4. ASSUME NEW c \in Call, NEW t \in Txn, Start(c, t)
        PROVE  Promise!Next
    BY <2>4, PromiseBegins DEF Promise!Next
  <2> QED  BY <2>1, <2>2, <2>3, <2>4 DEF Next
<1> QED  BY <1>1, PromiseInit, IInvAlways, PTL DEF Spec, KeepsPromise, Promise!Spec
=============================================================================
