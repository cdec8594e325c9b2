------------------------------ MODULE SavedSend ------------------------------
(***************************************************************************)
(* The durable saved-send outbox of one room (pkg/connector/outbound.go).  *)
(*                                                                         *)
(* Two threads of the bridge touch the outbox.  The "handler" runs         *)
(* HandleMatrixMessage for a message the owner typed in the room, then the *)
(* framework's insert and PostSave.  The "poll" thread dispatches the      *)
(* source feed: it mirrors changed conversations through the portal queue, *)
(* and for an entry marked Unchanged it calls recoverOutbound itself.      *)
(* Both run the same recovery; every database statement and every call of  *)
(* the sender is one step, and the process may crash between any two.      *)
(*                                                                         *)
(* A Matrix message, its source transaction and the source message that    *)
(* the transaction creates are one identity m, because the transaction id  *)
(* is a hash of the event id (outbound.go:187).                            *)
(***************************************************************************)
EXTENDS Naturals

CONSTANTS
  Msg,              \* messages the owner sends in the Matrix room
  Remote,           \* source messages written at the source itself
  None,             \* no message
  NoClientTxn,      \* messages whose event carries no client transaction id
  FingerprintFeed,  \* TRUE: the feed can mark a conversation Unchanged
  MaxCrashes        \* bound on the number of crashes

Sourced == Msg \cup Remote
Thread  == {"handler", "poll"}

ASSUME IdentityAssumption ==
  /\ None \notin Sourced \cup Thread
  /\ Msg \cap Remote = {}
  /\ NoClientTxn \subseteq Msg
ASSUME BoundAssumption ==
  /\ FingerprintFeed \in BOOLEAN
  /\ MaxCrashes \in Nat

VARIABLES
  \* the source conversation and its sender (external)
  submitted,    \* transactions that may have reached the source
  source,       \* messages the source conversation holds
  \* durable state of the bridge and of Matrix
  outbox,       \* the saved send of this room, or None
  row,          \* message table: the association of each source message
  timeline,     \* source messages the bridge posted in the room as new events
  inbox,        \* Matrix messages not yet handed to the handler
  \* what the owner was told about each message (history)
  report,
  \* volatile state
  sendEnabled,  \* Config.SendEnabled of the running process
  lock,         \* thread that runs an event of the portal queue, or None
  pc,
  cur,          \* message the thread is handling, or None
  rec,          \* saved send the thread's recovery read, or None
  crashes

world    == <<submitted, source>>
volatile == <<sendEnabled, lock, pc, cur, rec>>
vars     == <<submitted, source, outbox, row, timeline, inbox, report,
              sendEnabled, lock, pc, cur, rec, crashes>>

RecoveryPc == {"readOutbox", "findRow", "resend", "associate", "settle", "clear"}
HandlerPc  == {"store", "send", "reject", "saveRow", "postSave"}
MirrorPc   == {"lookup", "post", "saveMirror"}

TypeOK ==
  /\ submitted \subseteq Msg
  /\ source \subseteq Sourced
  /\ outbox \in Msg \cup {None}
  /\ row \in [Sourced -> {"absent", "reply", "mirror"}]
  /\ timeline \subseteq Sourced
  /\ inbox \subseteq Msg
  /\ report \in [Msg -> {"none", "success", "refused", "certain", "uncertain"}]
  /\ sendEnabled \in BOOLEAN
  /\ lock \in Thread \cup {None}
  /\ pc \in [Thread -> {"idle"} \cup RecoveryPc \cup HandlerPc \cup MirrorPc]
  /\ pc["handler"] \notin MirrorPc
  /\ pc["poll"] \notin HandlerPc
  /\ cur \in [Thread -> Sourced \cup {None}]
  /\ rec \in [Thread -> Msg \cup {None}]
  /\ crashes \in Nat

Init ==
  /\ submitted = {}
  /\ source = {}
  /\ outbox = None
  /\ row = [s \in Sourced |-> "absent"]
  /\ timeline = {}
  /\ inbox = Msg
  /\ report = [m \in Msg |-> "none"]
  /\ sendEnabled \in BOOLEAN
  /\ lock = None
  /\ pc = [t \in Thread |-> "idle"]
  /\ cur = [t \in Thread |-> None]
  /\ rec = [t \in Thread |-> None]
  /\ crashes = 0

-----------------------------------------------------------------------------
(***************************************************************************)
(* The sender: Backend.Send or LocalTasks.Send behind Client.send.  It     *)
(* submits a transaction at most once; a replay only reconciles it.  An    *)
(* unresolved call (error, "uncertain") may have submitted or not, and its *)
(* message may appear in the conversation at any later time.  "not_sent"   *)
(* never submits; the read-only and store-binding gates of Client.send     *)
(* answer it whatever the transaction's past.                              *)
(***************************************************************************)
Accepted(m) ==
  /\ m \in submitted => m \in source
  /\ submitted' = submitted \cup {m}
  /\ source' = source \cup {m}

NotSent == UNCHANGED world

Uncertain(m) ==
  \/ UNCHANGED world
  \/ submitted' = submitted \cup {m} /\ UNCHANGED source
  \/ m \notin submitted /\ submitted' = submitted \cup {m} /\ source' = source \cup {m}

\* A submitted prompt appears in the conversation after its caller gave up.
Land(m) ==
  /\ m \in submitted
  /\ source' = source \cup {m}
  /\ UNCHANGED <<submitted, outbox, row, timeline, inbox, report, volatile, crashes>>

\* Someone writes in the conversation at the source, or the assistant answers.
SourceWrites(s) ==
  /\ source' = source \cup {s}
  /\ UNCHANGED <<submitted, outbox, row, timeline, inbox, report, volatile, crashes>>

-----------------------------------------------------------------------------
Goto(t, label) == pc' = [pc EXCEPT ![t] = label]

\* The thread returns; a portal-queue event releases the queue.
Leave(t) ==
  /\ Goto(t, "idle")
  /\ cur' = [cur EXCEPT ![t] = None]
  /\ rec' = [rec EXCEPT ![t] = None]
  /\ lock' = IF lock = t THEN None ELSE lock

Tell(m, outcome) == report' = [report EXCEPT ![m] = outcome]

(***************************************************************************)
(* recoverOutbound and finishRecovery, run by either thread.               *)
(***************************************************************************)
\* Where a thread continues once recovery returned no error.
AfterRecovery(t) ==
  IF t = "handler" THEN "store" ELSE IF cur[t] = None THEN "idle" ELSE "lookup"

Recovered(t) ==
  /\ Goto(t, AfterRecovery(t))
  /\ rec' = [rec EXCEPT ![t] = None]
  /\ UNCHANGED <<cur, lock, sendEnabled>>

\* The handler reports an uncertain failure; the poll thread gives up.
GiveUp_Ignored(t) ==
  IF t = "handler" THEN Tell(cur[t], "uncertain") /\ Leave(t) /\ UNCHANGED sendEnabled
                   ELSE Recovered(t) /\ UNCHANGED report
GiveUp(t) ==
  /\ IF t = "handler" THEN Tell(cur[t], "uncertain") ELSE UNCHANGED report
  /\ Leave(t)
  /\ UNCHANGED sendEnabled

ReadEmpty(t) ==
  /\ pc[t] = "readOutbox"
  /\ outbox = None
  /\ Recovered(t)
  /\ UNCHANGED <<world, outbox, row, timeline, inbox, report, crashes>>

ReadSaved(t) ==
  /\ pc[t] = "readOutbox"
  /\ outbox # None
  /\ rec' = [rec EXCEPT ![t] = outbox]
  /\ Goto(t, "findRow")
  /\ UNCHANGED <<world, outbox, row, timeline, inbox, report, sendEnabled, lock, cur, crashes>>

FindRow_Ignored(t) ==
  /\ pc[t] = "findRow"
  /\ sendEnabled /\ Goto(t, "resend")
  /\ UNCHANGED <<world, outbox, row, timeline, inbox, report, sendEnabled, lock, cur, rec, crashes>>
FindRow(t) ==
  /\ pc[t] = "findRow"
  /\ \/ row[rec[t]] = "reply" /\ Goto(t, "settle")
     \/ row[rec[t]] # "reply" /\ sendEnabled /\ Goto(t, "resend")
  /\ UNCHANGED <<world, outbox, row, timeline, inbox, report, sendEnabled, lock, cur, rec, crashes>>

ResendAccepted(t) ==
  /\ pc[t] = "resend"
  /\ Accepted(rec[t])
  /\ Goto(t, "associate")
  /\ UNCHANGED <<outbox, row, timeline, inbox, report, sendEnabled, lock, cur, rec, crashes>>

\* An error and every status but "accepted" leave the saved send in place.
ResendUnresolved_Accepted(t) ==
  /\ pc[t] = "resend"
  /\ NotSent \/ Uncertain(rec[t])
  /\ Goto(t, "associate")
  /\ UNCHANGED <<outbox, row, timeline, inbox, report, sendEnabled, lock, cur, rec, crashes>>
ResendUnresolved(t) ==
  /\ pc[t] = "resend"
  /\ NotSent \/ Uncertain(rec[t])
  /\ GiveUp(t)
  /\ UNCHANGED <<outbox, row, timeline, inbox, crashes>>

Associate(t) ==
  /\ pc[t] = "associate"
  /\ row[rec[t]] = "absent"
  /\ row' = [row EXCEPT ![rec[t]] = "reply"]
  /\ Goto(t, "settle")
  /\ UNCHANGED <<world, outbox, timeline, inbox, report, sendEnabled, lock, cur, rec, crashes>>

Settle(t) ==
  /\ pc[t] = "settle"
  /\ Tell(rec[t], "success")
  /\ Goto(t, "clear")
  /\ UNCHANGED <<world, outbox, row, timeline, inbox, sendEnabled, lock, cur, rec, crashes>>

\* The delete names the room, not the message that was recovered.
Clear(t) ==
  /\ pc[t] = "clear"
  /\ outbox' = None
  /\ Recovered(t)
  /\ UNCHANGED <<world, row, timeline, inbox, report, crashes>>

\* A failed statement, a disabled sender, a duplicate row or an original event
\* that cannot be fetched: recovery returns the error and the outbox stays.
RecoveryError(t) ==
  /\ \/ pc[t] \in {"readOutbox", "findRow", "associate", "clear"}
     \/ pc[t] = "settle" /\ rec[t] \in NoClientTxn
  /\ GiveUp(t)
  /\ UNCHANGED <<world, outbox, row, timeline, inbox, crashes>>

Recovery(t) ==
  \/ ReadEmpty(t) \/ ReadSaved(t) \/ FindRow(t)
  \/ ResendAccepted(t) \/ ResendUnresolved(t)
  \/ Associate(t) \/ Settle(t) \/ Clear(t) \/ RecoveryError(t)

-----------------------------------------------------------------------------
(***************************************************************************)
(* HandleMatrixMessage and the framework's save, holding the portal queue. *)
(***************************************************************************)
\* Sending disabled, a foreign sender, an unsupported type, an unknown route: an
\* error about the event itself, before the saved send is looked at.
Refuse(m) ==
  /\ m \in inbox
  /\ pc["handler"] = "idle" /\ lock = None
  /\ inbox' = inbox \ {m}
  /\ Tell(m, "refused")
  /\ UNCHANGED <<world, outbox, row, timeline, volatile, crashes>>

Take(m) ==
  /\ m \in inbox
  /\ sendEnabled
  /\ pc["handler"] = "idle" /\ lock = None
  /\ inbox' = inbox \ {m}
  /\ lock' = "handler"
  /\ cur' = [cur EXCEPT !["handler"] = m]
  /\ Goto("handler", "readOutbox")
  /\ UNCHANGED <<world, outbox, row, timeline, report, sendEnabled, rec, crashes>>

HandlerReturns(outcome) ==
  /\ Tell(cur["handler"], outcome)
  /\ Leave("handler")
  /\ UNCHANGED sendEnabled

\* setOutbound(out) before the send; its failure is a certain one.
Store(m) ==
  /\ pc["handler"] = "store" /\ cur["handler"] = m
  /\ \/ /\ outbox' = m
        /\ Goto("handler", "send")
        /\ UNCHANGED <<report, sendEnabled, lock, cur, rec>>
     \/ HandlerReturns("certain") /\ UNCHANGED outbox
  /\ UNCHANGED <<world, row, timeline, inbox, crashes>>

SendAccepted ==
  /\ pc["handler"] = "send"
  /\ Accepted(cur["handler"])
  /\ Goto("handler", "saveRow")
  /\ UNCHANGED <<outbox, row, timeline, inbox, report, sendEnabled, lock, cur, rec, crashes>>

SendRejected ==
  /\ pc["handler"] = "send"
  /\ NotSent
  /\ Goto("handler", "reject")
  /\ UNCHANGED <<outbox, row, timeline, inbox, report, sendEnabled, lock, cur, rec, crashes>>

SendUncertain_Forgets ==
  /\ pc["handler"] = "send"
  /\ Uncertain(cur["handler"])
  /\ HandlerReturns("uncertain")
  /\ outbox' = None
  /\ UNCHANGED <<row, timeline, inbox, crashes>>
SendUncertain ==
  /\ pc["handler"] = "send"
  /\ Uncertain(cur["handler"])
  /\ HandlerReturns("uncertain")
  /\ UNCHANGED <<outbox, row, timeline, inbox, crashes>>

Reject_Keeps ==
  /\ pc["handler"] = "reject"
  /\ HandlerReturns("certain")
  /\ UNCHANGED <<world, outbox, row, timeline, inbox, crashes>>
Reject ==
  /\ pc["handler"] = "reject"
  /\ \/ outbox' = None /\ HandlerReturns("certain")
     \/ UNCHANGED outbox /\ HandlerReturns("uncertain")
  /\ UNCHANGED <<world, row, timeline, inbox, crashes>>

\* The framework inserts the returned row; a failure is only logged and the
\* save hook does not run, so the outbox keeps the association recoverable.
SaveRow ==
  /\ pc["handler"] = "saveRow"
  /\ \/ /\ row[cur["handler"]] = "absent"
        /\ row' = [row EXCEPT ![cur["handler"]] = "reply"]
        /\ Goto("handler", "postSave")
        /\ UNCHANGED <<report, sendEnabled, lock, cur, rec>>
     \/ HandlerReturns("success") /\ UNCHANGED row
  /\ UNCHANGED <<world, outbox, timeline, inbox, crashes>>

PostSave ==
  /\ pc["handler"] = "postSave"
  /\ outbox' \in {None, outbox}
  /\ HandlerReturns("success")
  /\ UNCHANGED <<world, row, timeline, inbox, crashes>>

Handler ==
  \/ \E m \in Msg : Refuse(m) \/ Take(m) \/ Store(m)
  \/ SendAccepted \/ SendRejected \/ SendUncertain
  \/ Reject \/ SaveRow \/ PostSave

-----------------------------------------------------------------------------
(***************************************************************************)
(* The poll thread.                                                        *)
(***************************************************************************)
\* A source message event enters the portal queue; PreHandle recovers first.
Dispatch_Unprepared(s) ==
  /\ s \in source
  /\ pc["poll"] = "idle" /\ lock = None
  /\ lock' = "poll"
  /\ cur' = [cur EXCEPT !["poll"] = s]
  /\ Goto("poll", "lookup")
  /\ UNCHANGED <<world, outbox, row, timeline, inbox, report, sendEnabled, rec, crashes>>
Dispatch(s) ==
  /\ s \in source
  /\ pc["poll"] = "idle" /\ lock = None
  /\ lock' = "poll"
  /\ cur' = [cur EXCEPT !["poll"] = s]
  /\ Goto("poll", "readOutbox")
  /\ UNCHANGED <<world, outbox, row, timeline, inbox, report, sendEnabled, rec, crashes>>

\* dispatchConversation on an Unchanged entry: recovery outside the queue.
RecoverUnchanged ==
  /\ FingerprintFeed
  /\ pc["poll"] = "idle"
  /\ Goto("poll", "readOutbox")
  /\ UNCHANGED <<world, outbox, row, timeline, inbox, report, sendEnabled, lock, cur, rec, crashes>>

\* The framework looks the source message up by its id: a known one is not posted.
Lookup ==
  /\ pc["poll"] = "lookup"
  /\ IF row[cur["poll"]] = "absent"
       THEN Goto("poll", "post") /\ UNCHANGED <<cur, rec, lock>>
       ELSE Leave("poll")
  /\ UNCHANGED <<world, outbox, row, timeline, inbox, report, sendEnabled, crashes>>

\* The transaction id is a function of the message: posting again adds nothing.
Post ==
  /\ pc["poll"] = "post"
  /\ \/ /\ timeline' = timeline \cup {cur["poll"]}
        /\ Goto("poll", "saveMirror")
        /\ UNCHANGED <<cur, rec, lock>>
     \/ UNCHANGED timeline /\ Leave("poll")
  /\ UNCHANGED <<world, outbox, row, inbox, report, sendEnabled, crashes>>

SaveMirror ==
  /\ pc["poll"] = "saveMirror"
  /\ \/ row[cur["poll"]] = "absent" /\ row' = [row EXCEPT ![cur["poll"]] = "mirror"]
     \/ UNCHANGED row
  /\ Leave("poll")
  /\ UNCHANGED <<world, outbox, timeline, inbox, report, sendEnabled, crashes>>

Poll ==
  \/ \E s \in Sourced : Dispatch(s)
  \/ RecoverUnchanged \/ Lookup \/ Post \/ SaveMirror

-----------------------------------------------------------------------------
\* The process dies and restarts, maybe with another send_enabled.  The event
\* being handled is delivered again or was already acknowledged and is lost.
Crash ==
  /\ crashes < MaxCrashes
  /\ crashes' = crashes + 1
  /\ \/ UNCHANGED inbox
     \/ /\ cur["handler"] # None
        /\ inbox' = inbox \cup {cur["handler"]}
  /\ sendEnabled' \in BOOLEAN
  /\ lock' = None
  /\ pc' = [t \in Thread |-> "idle"]
  /\ cur' = [t \in Thread |-> None]
  /\ rec' = [t \in Thread |-> None]
  /\ UNCHANGED <<world, outbox, row, timeline, report>>

Next ==
  \/ \E m \in Msg : Land(m)
  \/ \E s \in Remote : SourceWrites(s)
  \/ \E t \in Thread : Recovery(t)
  \/ Handler
  \/ Poll
  \/ Crash

Spec == Init /\ [][Next]_vars

-----------------------------------------------------------------------------
(***************************************************************************)
(* Safety.  Those that need the portal queue to be the only entry to       *)
(* recovery hold when the feed reports no fingerprints; MC runs with       *)
(* FingerprintFeed = TRUE show which survive without it.                   *)
(***************************************************************************)
\* A reply the source holds is associated with its Matrix event or still saved
\* for recovery, whatever crashed in between (outbound.go:24-26).
Associated == \A m \in Msg \cap source : row[m] = "reply" \/ outbox = m

\* The bridge never posts the owner's own reply back into the room
\* (docs/architecture.md:51-54).
NoEcho == timeline \cap Msg = {}

\* What the bridge concludes from a send is true: an association names a message
\* the source holds, and so does a success reported to the owner; both follow
\* only from an accepted receipt (outbound.go:108, 228).
ReceiptsAreTrue ==
  \A m \in Msg : row[m] = "reply" \/ report[m] = "success" => m \in source

\* "Nothing was submitted" stays true: once the attempt is reported as certainly
\* failed, no later step submits that message (outbound.go:221-233, 247-263).
CertainFailureFinal ==
  [][\A m \in Msg : report[m] = "certain" /\ m \in submitted' => m \in submitted]_vars

\* The saved send changes hands only when it is settled: an entry is never
\* overwritten, and it is removed only when its row exists or nothing of it was
\* ever submitted.
SavedUntilSettled ==
  [][outbox # None /\ outbox' # outbox =>
       outbox' = None /\ (row[outbox] = "reply" \/ outbox \notin submitted')]_vars

\* The room is paused while a send is unresolved: no source message is posted
\* as a new event while the outbox holds an entry (outbound.go:109).
PausedWhileUnresolved == [][timeline' # timeline => outbox = None]_vars

\* The threads together keep the room's promise about replies.
Linked == {m \in Msg : row[m] = "reply"}
Promise == INSTANCE SavedReply WITH
             Reply <- Msg, held <- outbox, prompts <- submitted,
             known <- source, linked <- Linked, posted <- timeline
KeepsPromise == Promise!Spec

-----------------------------------------------------------------------------
(***************************************************************************)
(* Liveness.  The poll loop never stops (sync.go:46-67) and returns to     *)
(* every selected conversation; statements, the homeserver and the sender  *)
(* fail now and then but not for ever, and crashes are finitely many.      *)
(***************************************************************************)
Fairness ==
  /\ \A t \in Thread : WF_vars(Recovery(t))
  /\ WF_vars(SendAccepted \/ SendRejected \/ SendUncertain)
  /\ WF_vars(Reject \/ SaveRow \/ PostSave \/ \E m \in Msg : Store(m))
  /\ WF_vars(\E s \in Sourced : Dispatch(s))
  /\ WF_vars(Lookup) /\ WF_vars(Post) /\ WF_vars(SaveMirror)
  /\ SF_vars(ReadEmpty("poll") \/ ReadSaved("poll"))
  /\ SF_vars(FindRow("poll"))
  /\ SF_vars(ResendAccepted("poll"))
  /\ SF_vars(Associate("poll"))
  /\ SF_vars(Settle("poll"))
  /\ SF_vars(Clear("poll"))

FairSpec == Spec /\ Fairness

\* A saved send the source holds is eventually associated, so the room resumes,
\* unless sending stays disabled (outbound.go:102).
RecoveryCompletes ==
  []<>sendEnabled =>
    \A m \in Msg : (outbox = m /\ m \in source) ~> (row[m] = "reply" /\ outbox # m)
=============================================================================
