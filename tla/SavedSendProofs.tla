-------------------------- MODULE SavedSendProofs --------------------------
(***************************************************************************)
(* Proofs about SavedSend, for every set of messages and number of         *)
(* crashes.  ReceiptInv, PauseInv and RowInv hold of every configuration;  *)
(* OutboxInv, and the refinement of SavedReply that follows from it, need  *)
(* the portal queue to be the only entry to recovery.                      *)
(***************************************************************************)
EXTENDS SavedSend, TLAPS

HoldsSaved == {"findRow", "resend", "associate", "settle", "clear"}

-----------------------------------------------------------------------------
(***************************************************************************)
(* What each control point knows, whoever else runs.                       *)
(***************************************************************************)
Identities ==
  /\ \A t \in Thread : pc[t] \in HoldsSaved => rec[t] \in Msg
  /\ pc["handler"] # "idle" => cur["handler"] \in Msg
  /\ cur["handler"] \in Msg \cup {None}
  /\ pc["poll"] \in MirrorPc => cur["poll"] \in source
  /\ cur["poll"] \in source \cup {None}

Receipts ==
  /\ \A t \in Thread : pc[t] = "associate" => rec[t] \in source
  /\ \A t \in Thread : pc[t] \in {"settle", "clear"} => row[rec[t]] = "reply"
  /\ pc["handler"] = "saveRow" => cur["handler"] \in source
  /\ pc["handler"] = "postSave" => row[cur["handler"]] = "reply"

ReceiptInv ==
  /\ TypeOK
  /\ Identities
  /\ Receipts
  /\ ReceiptsAreTrue

\* Every initial state satisfies the receipt invariant.
LEMMA ReceiptInit == Init => ReceiptInv
BY IdentityAssumption
   DEF Init, ReceiptInv, TypeOK, Identities, Receipts, ReceiptsAreTrue,
       Sourced, Thread, HoldsSaved, RecoveryPc, HandlerPc, MirrorPc

\* Every step of either thread, of the source and of a crash preserves it.
LEMMA ReceiptStep == ReceiptInv /\ [Next]_vars => ReceiptInv'
<1> SUFFICES ASSUME ReceiptInv, [Next]_vars PROVE ReceiptInv'
  OBVIOUS
<1> USE IdentityAssumption, BoundAssumption
    DEF Sourced, Thread, world, volatile, HoldsSaved, RecoveryPc, HandlerPc, MirrorPc,
        ReceiptInv, TypeOK, Identities, Receipts, ReceiptsAreTrue
<1>1. ASSUME NEW m \in Msg, Land(m) PROVE ReceiptInv'
  BY <1>1 DEF Land
<1>2. ASSUME NEW s \in Remote, SourceWrites(s) PROVE ReceiptInv'
  BY <1>2 DEF SourceWrites
<1>3. ASSUME NEW t \in Thread, ReadEmpty(t) PROVE ReceiptInv'
  BY <1>3 DEF ReadEmpty, Recovered, AfterRecovery, Goto
<1>4. ASSUME NEW t \in Thread, ReadSaved(t) PROVE ReceiptInv'
  BY <1>4 DEF ReadSaved, Goto
<1>5. ASSUME NEW t \in Thread, FindRow(t) PROVE ReceiptInv'
  BY <1>5 DEF FindRow, Goto
<1>6. ASSUME NEW t \in Thread, ResendAccepted(t) PROVE ReceiptInv'
  BY <1>6 DEF ResendAccepted, Accepted, Goto
<1>7. ASSUME NEW t \in Thread, ResendUnresolved(t) PROVE ReceiptInv'
  BY <1>7 DEF ResendUnresolved, NotSent, Uncertain, GiveUp, Tell, Leave, Goto
<1>8. ASSUME NEW t \in Thread, Associate(t) PROVE ReceiptInv'
  BY <1>8 DEF Associate, Goto
<1>9. ASSUME NEW t \in Thread, Settle(t) PROVE ReceiptInv'
  BY <1>9 DEF Settle, Tell, Goto
<1>10. ASSUME NEW t \in Thread, Clear(t) PROVE ReceiptInv'
  BY <1>10 DEF Clear, Recovered, AfterRecovery, Goto
<1>11. ASSUME NEW t \in Thread, RecoveryError(t) PROVE ReceiptInv'
  BY <1>11 DEF RecoveryError, GiveUp, Tell, Leave, Goto
<1>12. ASSUME NEW m \in Msg, Refuse(m) PROVE ReceiptInv'
  BY <1>12 DEF Refuse, Tell
<1>13. ASSUME NEW m \in Msg, Take(m) PROVE ReceiptInv'
  BY <1>13 DEF Take, Goto
<1>14. ASSUME NEW m \in Msg, Store(m) PROVE ReceiptInv'
  BY <1>14 DEF Store, HandlerReturns, Tell, Leave, Goto
<1>15. CASE SendAccepted
  BY <1>15 DEF SendAccepted, Accepted, Goto
<1>16. CASE SendRejected
  BY <1>16 DEF SendRejected, NotSent, Goto
<1>17. CASE SendUncertain
  BY <1>17 DEF SendUncertain, Uncertain, HandlerReturns, Tell, Leave, Goto
<1>18. CASE Reject
  BY <1>18 DEF Reject, HandlerReturns, Tell, Leave, Goto
<1>19. CASE SaveRow
  BY <1>19 DEF SaveRow, HandlerReturns, Tell, Leave, Goto
<1>20. CASE PostSave
  BY <1>20 DEF PostSave, HandlerReturns, Tell, Leave, Goto
<1>21. ASSUME NEW s \in Sourced, Dispatch(s) PROVE ReceiptInv'
  BY <1>21 DEF Dispatch, Goto
<1>22. CASE RecoverUnchanged
  BY <1>22 DEF RecoverUnchanged, Goto
<1>23. CASE Lookup
  BY <1>23 DEF Lookup, Leave, Goto
<1>24. CASE Post
  BY <1>24 DEF Post, Leave, Goto
<1>25. CASE SaveMirror
  BY <1>25 DEF SaveMirror, Leave, Goto
<1>26. CASE Crash
  BY <1>26 DEF Crash
<1>27. CASE UNCHANGED vars
  BY <1>27 DEF vars
<1> QED
  BY <1>1, <1>2, <1>3, <1>4, <1>5, <1>6, <1>7, <1>8, <1>9, <1>10, <1>11, <1>12,
     <1>13, <1>14, <1>15, <1>16, <1>17, <1>18, <1>19, <1>20, <1>21, <1>22,
     <1>23, <1>24, <1>25, <1>26, <1>27
  DEF Next, Recovery, Handler, Poll

\* Of every state, whatever the interleaving and the crashes.
LEMMA ReceiptAlways == Spec => []ReceiptInv
BY ReceiptInit, ReceiptStep, PTL DEF Spec

\* The outbox, the rows and both threads keep their types: in particular a thread
\* resumes with an entry exactly where recoverOutbound or the handler left it.
THEOREM Types == Spec => []TypeOK
<1>1. ReceiptInv => TypeOK
  BY DEF ReceiptInv
<1> QED
  BY <1>1, ReceiptAlways, PTL

\* Every association row and every reported success names a reply that the source
\* accepted (outbound.go:105-120, 224-235).
THEOREM ReceiptsSound == Spec => []ReceiptsAreTrue
<1>1. ReceiptInv => ReceiptsAreTrue
  BY DEF ReceiptInv
<1> QED
  BY <1>1, ReceiptAlways, PTL

-----------------------------------------------------------------------------
(***************************************************************************)
(* What the portal queue alone guarantees, also when an unchanged entry is *)
(* recovered outside of it: a thread that mirrors a message or handles a   *)
(* reply holds the queue, and it is the handler that fills the outbox.     *)
(***************************************************************************)
PauseInv ==
  /\ pc["handler"] # "idle" => lock = "handler"
  /\ cur["poll"] # None => lock = "poll"
  /\ pc["poll"] \in MirrorPc => cur["poll"] # None /\ outbox = None

LEMMA PauseStep == ReceiptInv /\ PauseInv /\ [Next]_vars => PauseInv'
<1> SUFFICES ASSUME ReceiptInv, PauseInv, [Next]_vars PROVE PauseInv'
  OBVIOUS
<1> USE IdentityAssumption
    DEF PauseInv, Sourced, Thread, volatile, HandlerPc, MirrorPc, RecoveryPc, ReceiptInv, TypeOK
<1>1. ASSUME NEW m \in Msg, Land(m) PROVE PauseInv'
  BY <1>1 DEF Land
<1>2. ASSUME NEW s \in Remote, SourceWrites(s) PROVE PauseInv'
  BY <1>2 DEF SourceWrites
<1>3. ASSUME NEW t \in Thread, ReadEmpty(t) PROVE PauseInv'
  BY <1>3 DEF ReadEmpty, Recovered, AfterRecovery, Goto
<1>4. ASSUME NEW t \in Thread, ReadSaved(t) PROVE PauseInv'
  BY <1>4 DEF ReadSaved, Goto
<1>5. ASSUME NEW t \in Thread, FindRow(t) PROVE PauseInv'
  BY <1>5 DEF FindRow, Goto
<1>6. ASSUME NEW t \in Thread, ResendAccepted(t) PROVE PauseInv'
  BY <1>6 DEF ResendAccepted, Accepted, Goto
<1>7. ASSUME NEW t \in Thread, ResendUnresolved(t) PROVE PauseInv'
  BY <1>7 DEF ResendUnresolved, NotSent, Uncertain, GiveUp, Tell, Leave, Goto
<1>8. ASSUME NEW t \in Thread, Associate(t) PROVE PauseInv'
  BY <1>8 DEF Associate, Goto
<1>9. ASSUME NEW t \in Thread, Settle(t) PROVE PauseInv'
  BY <1>9 DEF Settle, Tell, Goto
<1>10. ASSUME NEW t \in Thread, Clear(t) PROVE PauseInv'
  BY <1>10 DEF Clear, Recovered, AfterRecovery, Goto
<1>11. ASSUME NEW t \in Thread, RecoveryError(t) PROVE PauseInv'
  BY <1>11 DEF RecoveryError, GiveUp, Tell, Leave, Goto
<1>12. ASSUME NEW m \in Msg, Refuse(m) PROVE PauseInv'
  BY <1>12 DEF Refuse, Tell
<1>13. ASSUME NEW m \in Msg, Take(m) PROVE PauseInv'
  BY <1>13 DEF Take, Goto
<1>14. ASSUME NEW m \in Msg, Store(m) PROVE PauseInv'
  BY <1>14 DEF Store, HandlerReturns, Tell, Leave, Goto
<1>15. CASE SendAccepted
  BY <1>15 DEF SendAccepted, Accepted, Goto
<1>16. CASE SendRejected
  BY <1>16 DEF SendRejected, NotSent, Goto
<1>17. CASE SendUncertain
  BY <1>17 DEF SendUncertain, Uncertain, HandlerReturns, Tell, Leave, Goto
<1>18. CASE Reject
  BY <1>18 DEF Reject, HandlerReturns, Tell, Leave, Goto
<1>19. CASE SaveRow
  BY <1>19 DEF SaveRow, HandlerReturns, Tell, Leave, Goto
<1>20. CASE PostSave
  BY <1>20 DEF PostSave, HandlerReturns, Tell, Leave, Goto
<1>21. ASSUME NEW s \in Sourced, Dispatch(s) PROVE PauseInv'
  BY <1>21 DEF Dispatch, Goto
<1>22. CASE RecoverUnchanged
  BY <1>22 DEF RecoverUnchanged, Goto
<1>23. CASE Lookup
  BY <1>23 DEF Lookup, Leave, Goto
<1>24. CASE Post
  BY <1>24 DEF Post, Leave, Goto
<1>25. CASE SaveMirror
  BY <1>25 DEF SaveMirror, Leave, Goto
<1>26. CASE Crash
  BY <1>26 DEF Crash
<1>27. CASE UNCHANGED vars
  BY <1>27 DEF vars
<1> QED
  BY <1>1, <1>2, <1>3, <1>4, <1>5, <1>6, <1>7, <1>8, <1>9, <1>10, <1>11, <1>12,
     <1>13, <1>14, <1>15, <1>16, <1>17, <1>18, <1>19, <1>20, <1>21, <1>22,
     <1>23, <1>24, <1>25, <1>26, <1>27
  DEF Next, Recovery, Handler, Poll

LEMMA PauseAlways == Spec => []PauseInv
<1>1. Init => PauseInv
  BY DEF Init, PauseInv, Thread, MirrorPc
<1> QED
  BY <1>1, PauseStep, ReceiptAlways, PTL DEF Spec

\* No source message is posted into the room while an entry is unresolved, whoever
\* runs recovery (outbound.go:109).
THEOREM UnresolvedPauses == Spec => PausedWhileUnresolved
<1>1. Spec => []PauseInv
  BY PauseAlways
<1>2. ASSUME PauseInv, Next PROVE timeline' # timeline => outbox = None
  <2>1. CASE Post
    BY <1>2, <2>1 DEF Post, PauseInv, MirrorPc
  <2>2. CASE UNCHANGED timeline
    BY <2>2
  <2> QED
    BY <1>2, <2>1, <2>2
    DEF Next, Land, SourceWrites, Handler, Poll, Crash,
        Recovery, ReadEmpty, ReadSaved, FindRow, ResendAccepted, ResendUnresolved,
        Associate, Settle, Clear, RecoveryError,
        Refuse, Take, Store, SendAccepted, SendRejected, SendUncertain, Reject,
        SaveRow, PostSave, Dispatch, RecoverUnchanged, Lookup, SaveMirror
<1>3. PauseInv /\ [Next]_vars => [timeline' # timeline => outbox = None]_vars
  BY <1>2
<1>4. Spec => [][timeline' # timeline => outbox = None]_vars
  BY <1>1, <1>3, PTL DEF Spec
<1> QED
  BY <1>4 DEF PausedWhileUnresolved

-----------------------------------------------------------------------------
(***************************************************************************)
(* What a row stands for: the framework never posts a message that has     *)
(* one, so each row must be backed by an event or by the owner's reply.    *)
(***************************************************************************)
RowInv ==
  /\ \A s \in Sourced : row[s] = "mirror" => s \in timeline
  /\ \A s \in Sourced \ Msg : row[s] # "reply"
  /\ pc["poll"] = "saveMirror" => cur["poll"] \in timeline

LEMMA RowStep == ReceiptInv /\ RowInv /\ [Next]_vars => RowInv'
<1> SUFFICES ASSUME ReceiptInv, RowInv, [Next]_vars PROVE RowInv'
  OBVIOUS
<1> DEFINE Apart ==
      /\ UNCHANGED <<row, timeline>>
      /\ \/ pc'["poll"] # "saveMirror"
         \/ pc'["poll"] = pc["poll"] /\ cur'["poll"] = cur["poll"]
<1> USE IdentityAssumption DEF Thread, ReceiptInv, TypeOK
<1>1. ASSUME Apart PROVE RowInv'
  BY <1>1 DEF RowInv
<1>2. ASSUME NEW t \in Thread, Associate(t) PROVE RowInv'
  BY <1>2 DEF Associate, Goto, RowInv, Identities, HoldsSaved, Sourced
<1>3. CASE SaveRow
  BY <1>3 DEF SaveRow, HandlerReturns, Leave, Goto, RowInv, Identities, Sourced
<1>4. CASE Post
  BY <1>4 DEF Post, Leave, Goto, RowInv
<1>5. CASE SaveMirror
  BY <1>5 DEF SaveMirror, Leave, Goto, RowInv, Identities, MirrorPc
<1>6. ASSUME NEW t \in Thread, Recovery(t), ~Associate(t) PROVE Apart
  BY <1>6 DEF Recovery, ReadEmpty, ReadSaved, FindRow, ResendAccepted,
     ResendUnresolved, Settle, Clear, RecoveryError, Recovered, AfterRecovery,
     GiveUp, Leave, Goto
<1>7. ASSUME Handler, ~SaveRow PROVE Apart
  BY <1>7 DEF Handler, Refuse, Take, Store, SendAccepted, SendRejected,
     SendUncertain, Reject, PostSave, HandlerReturns, Leave, Goto, volatile
<1>8. ASSUME Poll, ~Post, ~SaveMirror PROVE Apart
  BY <1>8 DEF Poll, Dispatch, RecoverUnchanged, Lookup, Leave, Goto
<1>9. ASSUME \/ \E m \in Msg : Land(m)
             \/ \E s \in Remote : SourceWrites(s)
             \/ Crash
             \/ UNCHANGED vars
      PROVE  Apart
  BY <1>9 DEF Land, SourceWrites, Crash, vars, volatile
<1> QED
  BY <1>1, <1>2, <1>3, <1>4, <1>5, <1>6, <1>7, <1>8, <1>9 DEF Next

\* No message is taken for known without being in the room: one that has a row, and
\* is therefore never posted again, was posted or is the owner's own reply, accepted
\* by the source, whatever was lost or crashed (outbound.go:111-120, 234-239).
THEOREM KnownIsInRoom ==
  Spec => [](\A s \in Sourced : row[s] # "absent" => s \in timeline \/ s \in Msg \cap source)
<1>1. Init => RowInv
  BY DEF Init, RowInv, Thread
<1>2. ReceiptInv /\ RowInv =>
        \A s \in Sourced : row[s] # "absent" => s \in timeline \/ s \in Msg \cap source
  BY DEF ReceiptInv, RowInv, TypeOK, ReceiptsAreTrue
<1> QED
  BY <1>1, <1>2, RowStep, ReceiptAlways, PTL DEF Spec

-----------------------------------------------------------------------------
(***************************************************************************)
(* What they know while a recovery outside the portal queue meets nobody   *)
(* inside it.                                                              *)
(***************************************************************************)
\* A poll starts on a room whose queue is free, and while it recovers outside the
\* queue nobody enters it.
Alone ==
  /\ pc["poll"] = "idle" /\ pc'["poll"] # "idle" => lock = None
  /\ pc["poll"] # "idle" /\ lock = None => lock' = None

NoOverlap == [][Alone]_vars

\* One thread at a time is inside the outbox code; a poll that mirrors, and the
\* handler, hold the queue.
Serialized ==
  /\ \A t \in Thread : lock = t => pc[t] # "idle"
  /\ pc["handler"] # "idle" => lock = "handler"
  /\ pc["poll"] # "idle" => lock \in {"poll", None}
  /\ lock = "poll" <=> cur["poll"] # None

Recovering == \A t \in Thread : pc[t] \in HoldsSaved => rec[t] = outbox

Handling ==
  /\ pc["handler"] = "store" => outbox = None
  /\ pc["handler"] \in {"send", "reject", "saveRow", "postSave"} => outbox = cur["handler"]
  /\ pc["handler"] \in {"send", "reject"} /\ cur["handler"] \in submitted
       => row[cur["handler"]] = "reply"

Mirroring ==
  /\ pc["poll"] \in MirrorPc => outbox = None /\ cur["poll"] # None
  /\ pc["poll"] \in {"post", "saveMirror"} => cur["poll"] \notin Msg

\* The heart of the design, from the moment a prompt may have been submitted.
SavedOrLinked == \A m \in submitted : row[m] = "reply" \/ outbox = m

SourceIsSubmitted == Msg \cap source \subseteq submitted

QueueInv ==
  /\ Serialized
  /\ Recovering
  /\ Handling
  /\ Mirroring
  /\ SavedOrLinked
  /\ SourceIsSubmitted
  /\ NoEcho

OutboxInv == ReceiptInv /\ QueueInv

(***************************************************************************)
(* The theorems below come in two forms: for a feed without fingerprints,  *)
(* whose every recovery runs inside the portal queue, and for a feed with  *)
(* them as long as no recovery outside the queue overlaps with an event    *)
(* inside it (NoOverlap).  Nothing in the code provides the latter: with   *)
(* fingerprints alone they are false (MC run saved_send_unchanged_echo).   *)
(***************************************************************************)
LEMMA OutboxInit == Init => OutboxInv
BY ReceiptInit, IdentityAssumption
   DEF Init, OutboxInv, Serialized, Recovering, Handling, Mirroring, SavedOrLinked,
       SourceIsSubmitted, NoEcho, QueueInv, Sourced, Thread, HoldsSaved, RecoveryPc,
       HandlerPc, MirrorPc

\* A serialized step keeps the saved send, the rows and the control points of
\* both threads consistent.
LEMMA OutboxStep == OutboxInv /\ [Next]_vars /\ [Alone]_vars => OutboxInv'
<1> SUFFICES ASSUME OutboxInv, [Next]_vars, [Alone]_vars
             PROVE  QueueInv'
  BY ReceiptStep DEF OutboxInv
<1> USE IdentityAssumption, BoundAssumption
    DEF Sourced, Thread, world, volatile, HoldsSaved, RecoveryPc, HandlerPc, MirrorPc,
        QueueInv, OutboxInv, ReceiptInv, TypeOK, Identities, Receipts, ReceiptsAreTrue,
        Serialized, Recovering, Handling, Mirroring, SavedOrLinked,
        SourceIsSubmitted, NoEcho
<1>1. ASSUME NEW m \in Msg, Land(m) PROVE QueueInv'
  BY <1>1 DEF Land
<1>2. ASSUME NEW s \in Remote, SourceWrites(s) PROVE QueueInv'
  BY <1>2 DEF SourceWrites
<1>3. ASSUME NEW t \in Thread, ReadEmpty(t) PROVE QueueInv'
  BY <1>3 DEF ReadEmpty, Recovered, AfterRecovery, Goto
<1>4. ASSUME NEW t \in Thread, ReadSaved(t) PROVE QueueInv'
  BY <1>4 DEF ReadSaved, Goto
<1>5. ASSUME NEW t \in Thread, FindRow(t) PROVE QueueInv'
  BY <1>5 DEF FindRow, Goto
<1>6. ASSUME NEW t \in Thread, ResendAccepted(t) PROVE QueueInv'
  BY <1>6 DEF ResendAccepted, Accepted, Goto
<1>7. ASSUME NEW t \in Thread, ResendUnresolved(t) PROVE QueueInv'
  BY <1>7 DEF ResendUnresolved, NotSent, Uncertain, GiveUp, Tell, Leave, Goto
<1>8. ASSUME NEW t \in Thread, Associate(t) PROVE QueueInv'
  BY <1>8 DEF Associate, Goto
<1>9. ASSUME NEW t \in Thread, Settle(t) PROVE QueueInv'
  BY <1>9 DEF Settle, Tell, Goto
<1>10. ASSUME NEW t \in Thread, Clear(t) PROVE QueueInv'
  BY <1>10 DEF Clear, Recovered, AfterRecovery, Goto
<1>11. ASSUME NEW t \in Thread, RecoveryError(t) PROVE QueueInv'
  BY <1>11 DEF RecoveryError, GiveUp, Tell, Leave, Goto
<1>12. ASSUME NEW m \in Msg, Refuse(m) PROVE QueueInv'
  BY <1>12 DEF Refuse, Tell
<1>13. ASSUME NEW m \in Msg, Take(m) PROVE QueueInv'
  BY <1>13 DEF Take, Goto, Alone, vars
<1>14. ASSUME NEW m \in Msg, Store(m) PROVE QueueInv'
  BY <1>14 DEF Store, HandlerReturns, Tell, Leave, Goto
<1>15. CASE SendAccepted
  BY <1>15 DEF SendAccepted, Accepted, Goto
<1>16. CASE SendRejected
  BY <1>16 DEF SendRejected, NotSent, Goto
<1>17. CASE SendUncertain
  BY <1>17 DEF SendUncertain, Uncertain, HandlerReturns, Tell, Leave, Goto
<1>18. CASE Reject
  BY <1>18 DEF Reject, HandlerReturns, Tell, Leave, Goto
<1>19. CASE SaveRow
  BY <1>19 DEF SaveRow, HandlerReturns, Tell, Leave, Goto
<1>20. CASE PostSave
  BY <1>20 DEF PostSave, HandlerReturns, Tell, Leave, Goto
<1>21. ASSUME NEW s \in Sourced, Dispatch(s) PROVE QueueInv'
  BY <1>21 DEF Dispatch, Goto, Alone, vars
<1>22. CASE RecoverUnchanged
  BY <1>22 DEF RecoverUnchanged, Goto, Alone, vars
<1>23. CASE Lookup
  BY <1>23 DEF Lookup, Leave, Goto
<1>24. CASE Post
  BY <1>24 DEF Post, Leave, Goto
<1>25. CASE SaveMirror
  BY <1>25 DEF SaveMirror, Leave, Goto
<1>26. CASE Crash
  BY <1>26 DEF Crash
<1>27. CASE UNCHANGED vars
  BY <1>27 DEF vars
<1> QED
  BY <1>1, <1>2, <1>3, <1>4, <1>5, <1>6, <1>7, <1>8, <1>9, <1>10, <1>11, <1>12,
     <1>13, <1>14, <1>15, <1>16, <1>17, <1>18, <1>19, <1>20, <1>21, <1>22,
     <1>23, <1>24, <1>25, <1>26, <1>27
  DEF Next, Recovery, Handler, Poll

LEMMA OutboxAlways == Spec /\ NoOverlap => []OutboxInv
BY OutboxInit, OutboxStep, PTL DEF Spec, NoOverlap

\* Without fingerprints a poll that is not idle has the queue.
LEMMA QueueSerializes ==
  ASSUME ~FingerprintFeed
  PROVE  Spec => NoOverlap
<1> DEFINE Inside == pc["poll"] # "idle" => lock = "poll"
<1> USE IdentityAssumption DEF Thread
<1>1. Init => Inside
  BY DEF Init
<1>2. ReceiptInv /\ PauseInv /\ Inside /\ [Next]_vars => Inside' /\ [Alone]_vars
  <2> SUFFICES ASSUME ReceiptInv, PauseInv, Inside, [Next]_vars
               PROVE  Inside' /\ [Alone]_vars
    OBVIOUS
  <2> USE DEF ReceiptInv, TypeOK, PauseInv, Alone
  <2>1. CASE pc["poll"] = "idle" /\ pc'["poll"] # "idle"
    <3>1. PICK s \in Sourced : Dispatch(s)
      BY <2>1 DEF Next, vars, volatile, Land, SourceWrites, Handler, Poll, Crash,
         Recovery, ReadEmpty, ReadSaved, FindRow, ResendAccepted, ResendUnresolved,
         Associate, Settle, Clear, RecoveryError, Recovered, GiveUp, Leave, Goto,
         HandlerReturns, Refuse, Take, Store, SendAccepted, SendRejected, SendUncertain,
         Reject, SaveRow, PostSave, RecoverUnchanged, Lookup, Post, SaveMirror
    <3> QED
      BY <3>1 DEF Dispatch
  <2>2. CASE pc["poll"] # "idle"
    <3>1. lock' # lock => pc'["poll"] = "idle"
      BY <2>2 DEF Next, vars, volatile, Land, SourceWrites, Handler, Poll, Crash,
         Recovery, ReadEmpty, ReadSaved, FindRow, ResendAccepted, ResendUnresolved,
         Associate, Settle, Clear, RecoveryError, Recovered, AfterRecovery, GiveUp,
         Leave, Goto, HandlerReturns, Refuse, Take, Store, SendAccepted, SendRejected,
         SendUncertain, Reject, SaveRow, PostSave, Dispatch, RecoverUnchanged, Lookup,
         Post, SaveMirror
    <3> QED
      BY <2>2, <3>1
  <2>3. CASE pc["poll"] = "idle" /\ pc'["poll"] = "idle"
    BY <2>3
  <2> QED
    BY <2>1, <2>2, <2>3
<1> QED
  BY <1>1, <1>2, ReceiptAlways, PauseAlways, PTL DEF Spec, NoOverlap

\* A reply the source accepted is linked to its Matrix event or still saved.
LEMMA AssociatedAlone == Spec /\ NoOverlap => []Associated
<1>1. OutboxInv => Associated
  BY DEF OutboxInv, QueueInv, SavedOrLinked, SourceIsSubmitted, Associated
<1> QED
  BY <1>1, OutboxAlways, PTL

\* A reply typed in the room is never posted back into it.
LEMMA NoEchoAlone == Spec /\ NoOverlap => []NoEcho
<1>1. OutboxInv => NoEcho
  BY DEF OutboxInv, QueueInv
<1> QED
  BY <1>1, OutboxAlways, PTL

-----------------------------------------------------------------------------
(***************************************************************************)
(* What a step may never do.                                               *)
(***************************************************************************)
\* While an entry is unresolved it is neither overwritten nor dropped.
LEMMA KeptAlone == Spec /\ NoOverlap => SavedUntilSettled
<1> DEFINE Kept ==
      outbox # None /\ outbox' # outbox =>
        outbox' = None /\ (row[outbox] = "reply" \/ outbox \notin submitted')
<1>1. ASSUME OutboxInv, Next PROVE Kept
  <2> USE <1>1 DEF OutboxInv, QueueInv, ReceiptInv, Receipts, Recovering, Handling,
                   Thread, HoldsSaved
  <2>1. ASSUME NEW t \in Thread, Clear(t) PROVE Kept
    BY <2>1 DEF Clear
  <2>2. ASSUME NEW m \in Msg, Store(m) PROVE Kept
    BY <2>2 DEF Store
  <2>3. CASE Reject
    BY <2>3 DEF Reject, world
  <2>4. CASE PostSave
    BY <2>4 DEF PostSave
  <2>5. CASE UNCHANGED outbox
    BY <2>5
  <2> QED
    BY <2>1, <2>2, <2>3, <2>4, <2>5, <1>1
    DEF Next, Land, SourceWrites, Handler, Poll, Crash,
        Recovery, ReadEmpty, ReadSaved, FindRow, ResendAccepted, ResendUnresolved,
        Associate, Settle, RecoveryError,
        Refuse, Take, SendAccepted, SendRejected, SendUncertain, SaveRow,
        Dispatch, RecoverUnchanged, Lookup, Post, SaveMirror
<1>2. OutboxInv /\ [Next]_vars => [Kept]_vars
  BY <1>1
<1>3. Spec /\ NoOverlap => [][Kept]_vars
  BY <1>2, OutboxAlways, PTL DEF Spec
<1> QED
  BY <1>3 DEF SavedUntilSettled

-----------------------------------------------------------------------------
\* A message whose attempt was reported as certainly failed has left every place
\* from which the bridge could submit it; the one being handled is not waiting.
CertainInv ==
  /\ \A m \in Msg : report[m] = "certain" =>
       m \notin inbox /\ outbox # m /\ cur["handler"] # m
  /\ cur["handler"] \notin inbox

LEMMA CertainStep ==
  OutboxInv /\ CertainInv /\ [Next]_vars => CertainInv'
<1> SUFFICES ASSUME OutboxInv, CertainInv, [Next]_vars PROVE CertainInv'
  OBVIOUS
<1> USE IdentityAssumption
    DEF CertainInv, Sourced, Thread, world, volatile, HoldsSaved, RecoveryPc,
        HandlerPc, MirrorPc, OutboxInv, QueueInv, ReceiptInv, TypeOK, Identities,
        Recovering, Handling
<1>1. ASSUME NEW m \in Msg, Land(m) PROVE CertainInv'
  BY <1>1 DEF Land
<1>2. ASSUME NEW s \in Remote, SourceWrites(s) PROVE CertainInv'
  BY <1>2 DEF SourceWrites
<1>3. ASSUME NEW t \in Thread, ReadEmpty(t) PROVE CertainInv'
  BY <1>3 DEF ReadEmpty, Recovered, AfterRecovery, Goto
<1>4. ASSUME NEW t \in Thread, ReadSaved(t) PROVE CertainInv'
  BY <1>4 DEF ReadSaved, Goto
<1>5. ASSUME NEW t \in Thread, FindRow(t) PROVE CertainInv'
  BY <1>5 DEF FindRow, Goto
<1>6. ASSUME NEW t \in Thread, ResendAccepted(t) PROVE CertainInv'
  BY <1>6 DEF ResendAccepted, Accepted, Goto
<1>7. ASSUME NEW t \in Thread, ResendUnresolved(t) PROVE CertainInv'
  BY <1>7 DEF ResendUnresolved, NotSent, Uncertain, GiveUp, Tell, Leave, Goto
<1>8. ASSUME NEW t \in Thread, Associate(t) PROVE CertainInv'
  BY <1>8 DEF Associate, Goto
<1>9. ASSUME NEW t \in Thread, Settle(t) PROVE CertainInv'
  BY <1>9 DEF Settle, Tell, Goto
<1>10. ASSUME NEW t \in Thread, Clear(t) PROVE CertainInv'
  BY <1>10 DEF Clear, Recovered, AfterRecovery, Goto
<1>11. ASSUME NEW t \in Thread, RecoveryError(t) PROVE CertainInv'
  BY <1>11 DEF RecoveryError, GiveUp, Tell, Leave, Goto
<1>12. ASSUME NEW m \in Msg, Refuse(m) PROVE CertainInv'
  BY <1>12 DEF Refuse, Tell
<1>13. ASSUME NEW m \in Msg, Take(m) PROVE CertainInv'
  BY <1>13 DEF Take, Goto
<1>14. ASSUME NEW m \in Msg, Store(m) PROVE CertainInv'
  BY <1>14 DEF Store, HandlerReturns, Tell, Leave, Goto
<1>15. CASE SendAccepted
  BY <1>15 DEF SendAccepted, Accepted, Goto
<1>16. CASE SendRejected
  BY <1>16 DEF SendRejected, NotSent, Goto
<1>17. CASE SendUncertain
  BY <1>17 DEF SendUncertain, Uncertain, HandlerReturns, Tell, Leave, Goto
<1>18. CASE Reject
  BY <1>18 DEF Reject, HandlerReturns, Tell, Leave, Goto
<1>19. CASE SaveRow
  BY <1>19 DEF SaveRow, HandlerReturns, Tell, Leave, Goto
<1>20. CASE PostSave
  BY <1>20 DEF PostSave, HandlerReturns, Tell, Leave, Goto
<1>21. ASSUME NEW s \in Sourced, Dispatch(s) PROVE CertainInv'
  BY <1>21 DEF Dispatch, Goto
<1>22. CASE RecoverUnchanged
  BY <1>22 DEF RecoverUnchanged, Goto
<1>23. CASE Lookup
  BY <1>23 DEF Lookup, Leave, Goto
<1>24. CASE Post
  BY <1>24 DEF Post, Leave, Goto
<1>25. CASE SaveMirror
  BY <1>25 DEF SaveMirror, Leave, Goto
<1>26. CASE Crash
  BY <1>26 DEF Crash
<1>27. CASE UNCHANGED vars
  BY <1>27 DEF vars
<1> QED
  BY <1>1, <1>2, <1>3, <1>4, <1>5, <1>6, <1>7, <1>8, <1>9, <1>10, <1>11, <1>12,
     <1>13, <1>14, <1>15, <1>16, <1>17, <1>18, <1>19, <1>20, <1>21, <1>22,
     <1>23, <1>24, <1>25, <1>26, <1>27
  DEF Next, Recovery, Handler, Poll

\* A message once reported as certainly failed is never submitted afterwards.
LEMMA CertainAlone == Spec /\ NoOverlap => CertainFailureFinal
<1> DEFINE Unsent ==
      \A m \in Msg : report[m] = "certain" /\ m \in submitted' => m \in submitted
<1>1. Spec /\ NoOverlap => []CertainInv
  <2>1. Init => CertainInv
    BY IdentityAssumption DEF Init, CertainInv, Sourced, Thread
  <2> QED
    BY <2>1, CertainStep, OutboxAlways, PTL DEF Spec
<1>2. ASSUME OutboxInv, CertainInv, Next PROVE Unsent
  <2> USE <1>2 DEF OutboxInv, QueueInv, Recovering, Handling, CertainInv, HoldsSaved, Thread
  <2>1. ASSUME NEW t \in Thread, ResendAccepted(t) PROVE Unsent
    BY <2>1 DEF ResendAccepted, Accepted
  <2>2. ASSUME NEW t \in Thread, ResendUnresolved(t) PROVE Unsent
    BY <2>2 DEF ResendUnresolved, NotSent, Uncertain, world
  <2>3. CASE SendAccepted
    BY <2>3 DEF SendAccepted, Accepted
  <2>4. CASE SendUncertain
    BY <2>4 DEF SendUncertain, Uncertain, world
  <2>5. CASE UNCHANGED submitted
    BY <2>5
  <2> QED
    BY <2>1, <2>2, <2>3, <2>4, <2>5
    DEF Next, Land, SourceWrites, Handler, Poll, Crash, world,
        Recovery, ReadEmpty, ReadSaved, FindRow, Associate, Settle, Clear, RecoveryError,
        Refuse, Take, Store, SendRejected, NotSent, Reject, SaveRow, PostSave,
        Dispatch, RecoverUnchanged, Lookup, Post, SaveMirror
<1>3. OutboxInv /\ CertainInv /\ [Next]_vars => [Unsent]_vars
  BY <1>2
<1>4. Spec /\ NoOverlap => [][Unsent]_vars
  BY <1>1, <1>3, OutboxAlways, PTL DEF Spec
<1> QED
  BY <1>4 DEF CertainFailureFinal

-----------------------------------------------------------------------------
(***************************************************************************)
(* The threads implement the room's promise: each step of theirs is a step *)
(* of SavedReply or leaves its variables alone.                            *)
(***************************************************************************)
PromiseStep == Promise!Next \/ UNCHANGED Promise!vars

LEMMA PromiseSteps ==
  OutboxInv /\ [Next]_vars => PromiseStep
<1> SUFFICES ASSUME OutboxInv, [Next]_vars PROVE PromiseStep
  OBVIOUS
<1> USE IdentityAssumption
    DEF Sourced, Thread, world, volatile, HoldsSaved, MirrorPc,
        OutboxInv, QueueInv, ReceiptInv, TypeOK, Identities, Receipts, Recovering, Handling,
        Mirroring, SavedOrLinked, SourceIsSubmitted,
        Linked, PromiseStep, Promise!vars
\* The source acts on its own.
<1>1. ASSUME NEW m \in Msg, Land(m) PROVE PromiseStep
  BY <1>1 DEF Land, Promise!Next, Promise!Appear
<1>2. ASSUME NEW s \in Remote, SourceWrites(s) PROVE PromiseStep
  BY <1>2 DEF SourceWrites, Promise!Next, Promise!Appear
\* Recovery submits, links and releases what it read.
<1>3. ASSUME NEW t \in Thread, ResendAccepted(t) PROVE PromiseStep
  <2>1. Promise!Submit(rec[t])
    BY <1>3 DEF ResendAccepted, Accepted, Promise!Submit
  <2> QED
    BY <2>1, <1>3 DEF ResendAccepted, Promise!Next
<1>4. ASSUME NEW t \in Thread, ResendUnresolved(t) PROVE PromiseStep
  <2>1. Promise!Submit(rec[t]) \/ UNCHANGED Promise!vars
    BY <1>4 DEF ResendUnresolved, NotSent, Uncertain, Promise!Submit
  <2> QED
    BY <2>1, <1>4 DEF ResendUnresolved, Promise!Next
<1>5. ASSUME NEW t \in Thread, Associate(t) PROVE PromiseStep
  <2>1. PICK r \in Msg : r = rec[t] /\ r = outbox /\ r \in source
    BY <1>5 DEF Associate
  <2>2. \A m \in Msg : row'[m] = IF m = r THEN "reply" ELSE row[m]
    BY <1>5, <2>1 DEF Associate
  <2>3. Linked' = Linked \cup {r}
    BY <2>2
  <2>4. Promise!Link(r)
    BY <1>5, <2>1, <2>3 DEF Associate, Promise!Link
  <2> QED
    BY <2>4 DEF Promise!Next
<1>6. ASSUME NEW t \in Thread, Clear(t) PROVE PromiseStep
  BY <1>6 DEF Clear, Promise!Next, Promise!Release
\* The handler records, submits, links and releases its own message.
<1>7. ASSUME NEW m \in Msg, Store(m) PROVE PromiseStep
  BY <1>7 DEF Store, Promise!Next, Promise!Record
<1>8. CASE SendAccepted
  <2>1. cur["handler"] \in Msg /\ Promise!Submit(cur["handler"])
    BY <1>8 DEF SendAccepted, Accepted, Promise!Submit
  <2> QED
    BY <2>1 DEF Promise!Next
<1>9. CASE SendUncertain
  <2>1. cur["handler"] \in Msg /\ (Promise!Submit(cur["handler"]) \/ UNCHANGED Promise!vars)
    BY <1>9 DEF SendUncertain, Uncertain, Promise!Submit
  <2> QED
    BY <2>1 DEF Promise!Next
<1>10. CASE Reject
  BY <1>10 DEF Reject, Promise!Next, Promise!Release
<1>11. CASE SaveRow
  <2>1. PICK r \in Msg : r = cur["handler"] /\ r = outbox /\ r \in source
    BY <1>11 DEF SaveRow
  <2>2. CASE UNCHANGED row
    BY <1>11, <2>2 DEF SaveRow
  <2>3. CASE row' = [row EXCEPT ![r] = "reply"]
    <3>1. \A m \in Msg : row'[m] = IF m = r THEN "reply" ELSE row[m]
      BY <2>3
    <3>2. Linked' = Linked \cup {r}
      BY <3>1
    <3>3. Promise!Link(r)
      BY <1>11, <2>1, <3>2 DEF SaveRow, Promise!Link
    <3> QED
      BY <3>3 DEF Promise!Next
  <2> QED
    BY <1>11, <2>1, <2>2, <2>3 DEF SaveRow
<1>12. CASE PostSave
  BY <1>12 DEF PostSave, Promise!Next, Promise!Release
\* The poll thread mirrors; its rows for source messages link no reply.
<1>13. CASE Post
  BY <1>13 DEF Post, Promise!Next, Promise!Mirror
<1>14. CASE SaveMirror
  BY <1>14 DEF SaveMirror
<1>15. CASE UNCHANGED <<submitted, source, outbox, row, timeline>>
  BY <1>15
<1> QED
  BY <1>1, <1>2, <1>3, <1>4, <1>5, <1>6, <1>7, <1>8, <1>9, <1>10, <1>11, <1>12,
     <1>13, <1>14, <1>15
  DEF Next, vars, Recovery, Handler, Poll, ReadEmpty, ReadSaved, FindRow, Settle,
      RecoveryError, Refuse, Take, SendRejected, NotSent, Dispatch, RecoverUnchanged,
      Lookup, Crash

\* Replies are recorded before they are submitted, one at a time, stay recorded
\* until linked or known unsent, and never echo.
LEMMA PromiseAlone == Spec /\ NoOverlap => KeepsPromise
<1>1. Init => Promise!Init
  BY DEF Init, Promise!Init, Linked, Sourced
<1>2. OutboxInv /\ [Next]_vars => [Promise!Next]_(Promise!vars)
  BY PromiseSteps DEF PromiseStep
<1>3. Spec /\ NoOverlap => Promise!Spec
  BY <1>1, <1>2, OutboxAlways, PTL DEF Spec, Promise!Spec
<1> QED
  BY <1>3 DEF KeepsPromise

-----------------------------------------------------------------------------
(***************************************************************************)
(* What the room promises, with and without fingerprints.                  *)
(***************************************************************************)
\* Also with fingerprints, the outbox does all it promises as long as no recovery of
\* an Unchanged conversation overlaps with an event of its portal queue: the overlap
\* at connector.go:178 is the only thing that breaks it.
THEOREM OnlyOverlapBreaks ==
  Spec /\ NoOverlap =>
    /\ [](Associated /\ NoEcho)
    /\ SavedUntilSettled
    /\ CertainFailureFinal
    /\ KeepsPromise
BY AssociatedAlone, NoEchoAlone, KeptAlone, CertainAlone, PromiseAlone, PTL

\* A reply the source accepted is linked to its Matrix event or still saved
\* (outbound.go:24-26).
THEOREM AcceptedIsAssociated ==
  ASSUME ~FingerprintFeed
  PROVE  Spec => []Associated
BY QueueSerializes, AssociatedAlone, PTL

\* A reply typed in the room is never posted back into it (docs/architecture.md:51-54).
THEOREM RepliesDoNotEcho ==
  ASSUME ~FingerprintFeed
  PROVE  Spec => []NoEcho
BY QueueSerializes, NoEchoAlone, PTL

\* While an entry is unresolved it is neither overwritten nor dropped
\* (outbound.go:54-66, 217-240).
THEOREM UnsettledIsKept ==
  ASSUME ~FingerprintFeed
  PROVE  Spec => SavedUntilSettled
BY QueueSerializes, KeptAlone, PTL

\* A message once reported as certainly failed is never submitted afterwards
\* (outbound.go:228-233).
THEOREM CertainStaysUnsent ==
  ASSUME ~FingerprintFeed
  PROVE  Spec => CertainFailureFinal
BY QueueSerializes, CertainAlone, PTL

\* Replies are recorded before they are submitted, one at a time, stay recorded
\* until linked or known unsent, and never echo (outbound.go:24-34, 90-121, 217-240).
THEOREM PromiseKept ==
  ASSUME ~FingerprintFeed
  PROVE  Spec => KeepsPromise
BY QueueSerializes, PromiseAlone, PTL
=============================================================================
