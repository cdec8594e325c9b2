------------------------------- MODULE Mirror -------------------------------
(***************************************************************************)
(* How one source conversation is mirrored into its room                   *)
(* (pkg/connector/connector.go dispatch, events.go, reconcile.go,          *)
(* media.go, internal/delivery).  A poll takes a snapshot of the           *)
(* conversation and dispatches it item by item: a text or an attachment is *)
(* posted once, an edited text replaces its event, a branch change is      *)
(* announced.  The fingerprint of a completely delivered snapshot is       *)
(* saved, and a conversation that still has it is not dispatched again.    *)
(*                                                                         *)
(* Every request carries a transaction key that the homeserver runs once.  *)
(* A request may be accepted and its outcome never recorded: the answer is *)
(* lost, the process dies, or the database write fails.  The outbox that   *)
(* prepares the room before each event is SavedSend.                       *)
(***************************************************************************)
EXTENDS Naturals

CONSTANTS
  Last,        \* number of items the conversation may have, in its order
  File,        \* items that are attachments; the others are texts
  Text,        \* contents of a text; the source edits it if there are two
  Bytes,       \* content of an attachment
  None,        \* no content, no row, no checkpoint, no fingerprint
  MaxChanges   \* bound on the changes of the source

Item       == 1 .. Last
Content(i) == IF i \in File THEN {Bytes} ELSE Text
Contents   == Text \cup {Bytes}

ASSUME ItemAssumption == Last \in Nat /\ File \subseteq Item \ {1}

Branch == [ids : SUBSET Item, generation : Nat]
Row    == [hash : Contents, generation : Nat]

ASSUME NoneAssumption == None \notin Contents \cup Nat \cup Branch \cup Row
ASSUME BoundAssumption == MaxChanges \in Nat

VARIABLES
  \* the source
  text,        \* what the visible branch holds, None where an item is absent
  revision,    \* number of its changes; every change gives a new fingerprint
  \* the homeserver (external)
  used,        \* transaction keys it has run
  shown,       \* what the room shows of each item
  posted,      \* timeline events that introduced each item
  notices,     \* branch notices in the room
  \* the bridge's database
  row,         \* message table: source hash and edit generation of each item
  checkpoint,  \* branch checkpoint: visible items and generation
  delivered,   \* revision whose fingerprint is saved
  \* the running process and its poll
  syncEdits,   \* Config.SyncEdits
  pc,          \* next step of the dispatch, or "idle"
  feed,        \* the snapshot being dispatched
  feedRevision,
  next,        \* next item to dispatch
  failed,      \* an attachment was not accepted in this dispatch
  \* history
  contents,    \* contents the source ever gave each item
  unrecorded   \* items of which an accepted request went unrecorded

source == <<text, revision>>
room   == <<used, shown, posted, notices>>
db     == <<row, checkpoint, delivered>>
poll   == <<pc, feed, feedRevision, next, failed>>
past   == <<contents, unrecorded>>
vars   == <<text, revision, used, shown, posted, notices, row, checkpoint,
            delivered, syncEdits, pc, feed, feedRevision, next, failed,
            contents, unrecorded>>

Absent            == [i \in Item |-> None]
Snapshot          == [Item -> Contents \cup {None}]
Visible(snapshot) == {i \in Item \ File : snapshot[i] # None}

Key    == [item : Item, generation : Nat, hash : Contents \cup {None}]

TypeOK ==
  /\ text \in Snapshot
  /\ revision \in Nat
  /\ used \subseteq Key
  /\ shown \in Snapshot
  /\ posted \in [Item -> Nat]
  /\ notices \subseteq Branch
  /\ row \in [Item -> Row \cup {None}]
  /\ checkpoint \in Branch \cup {None}
  /\ delivered \in Nat \cup {None}
  /\ pc \in {"idle", "branch", "items", "saveBranch", "saveDelivered"}
  /\ feed \in Snapshot
  /\ feedRevision \in Nat
  /\ next \in 1 .. Last + 1
  /\ failed \in BOOLEAN
  /\ pc \in {"saveBranch", "saveDelivered"} => next = Last + 1
  /\ syncEdits \in BOOLEAN
  /\ contents \in [Item -> SUBSET Contents]
  /\ unrecorded \subseteq Item

Init ==
  /\ text = Absent
  /\ revision = 0
  /\ used = {}
  /\ shown = Absent
  /\ posted = [i \in Item |-> 0]
  /\ notices = {}
  /\ row = Absent
  /\ checkpoint = None
  /\ delivered = None
  /\ syncEdits \in BOOLEAN
  /\ pc = "idle"
  /\ feed = Absent
  /\ feedRevision = 0
  /\ next = 1
  /\ failed = FALSE
  /\ contents = [i \in Item |-> {}]
  /\ unrecorded = {}

-----------------------------------------------------------------------------
\* The attachments of a text follow it.
Attached(i) == {k \in File : k > i /\ i + 1 .. k \subseteq File}

\* An item appears or is edited.
SourceWrites(i, v) ==
  /\ revision < MaxChanges
  /\ v # text[i]
  /\ \A k \in Item \ File : i \in Attached(k) => text[k] # None
  /\ revision' = revision + 1
  /\ text' = [text EXCEPT ![i] = v]
  /\ contents' = [contents EXCEPT ![i] = @ \cup {v}]
  /\ UNCHANGED <<room, db, syncEdits, poll, unrecorded>>

\* A text leaves the visible branch with its attachments.
SourceHides(i) ==
  /\ revision < MaxChanges
  /\ text[i] # None
  /\ revision' = revision + 1
  /\ text' = [k \in Item |-> IF k \in Attached(i) \cup {i} THEN None ELSE text[k]]
  /\ UNCHANGED <<room, db, syncEdits, poll, past>>

\* The saved fingerprint, which the feed compares with the source's.
Known == delivered = revision

\* The feed reports a conversation whose saved fingerprint no longer matches.
Read ==
  /\ pc = "idle"
  /\ ~Known
  /\ feed' = text
  /\ feedRevision' = revision
  /\ next' = 1
  /\ failed' = FALSE
  /\ pc' = IF syncEdits THEN "branch" ELSE "items"
  /\ UNCHANGED <<source, room, db, syncEdits, past>>

\* An Unchanged entry: nothing is dispatched (its outbox recovery is SavedSend's).
Unchanged ==
  /\ pc = "idle"
  /\ Known
  /\ UNCHANGED vars

\* The dispatch ends; nothing of it is kept in memory.
Stop ==
  /\ pc' = "idle"
  /\ feed' = Absent
  /\ feedRevision' = 0
  /\ next' = 1
  /\ failed' = FALSE

\* An error is returned before anything was accepted (a refused edit among
\* them), or the poll is cancelled.
Abandon ==
  /\ pc # "idle"
  /\ Stop
  /\ UNCHANGED <<source, room, db, syncEdits, past>>

\* The process dies and starts again, maybe with another sync_edits.
Restart ==
  /\ syncEdits' \in BOOLEAN
  /\ Stop
  /\ UNCHANGED <<source, room, db, past>>

-----------------------------------------------------------------------------
\* branchState: a visible item of the checkpoint is gone from the snapshot.
BranchChanged == checkpoint # None /\ checkpoint.ids \ Visible(feed) # {}

BranchData ==
  [ids        |-> Visible(feed),
   generation |-> IF checkpoint = None THEN 0
                  ELSE checkpoint.generation + (IF BranchChanged THEN 1 ELSE 0)]

Enter(label) == pc' = label /\ UNCHANGED <<feed, feedRevision, next, failed>>

SameBranch_Always ==
  /\ pc = "branch"
  /\ Enter("items")
  /\ UNCHANGED <<source, room, db, syncEdits, past>>
SameBranch ==
  /\ pc = "branch"
  /\ ~BranchChanged
  /\ Enter("items")
  /\ UNCHANGED <<source, room, db, syncEdits, past>>

\* The notice's id is its branch: posting it again adds nothing.
Notice ==
  /\ pc = "branch"
  /\ BranchChanged
  /\ notices' = notices \cup {BranchData}
  /\ Enter("items") \/ Stop
  /\ UNCHANGED <<source, used, shown, posted, db, syncEdits, past>>

-----------------------------------------------------------------------------
(***************************************************************************)
(* The items in order.  The key of an original event names the item only;  *)
(* the key of an edit also names its generation and content.               *)
(***************************************************************************)
PostKey_Content(i, v) == [item |-> i, generation |-> 0, hash |-> v]
PostKey(i, v)         == [item |-> i, generation |-> 0, hash |-> None]
EditKey_Content(i, v) == [item |-> i, generation |-> 1, hash |-> v]
EditKey(i, v)         == [item |-> i, generation |-> row[i].generation + 1, hash |-> v]

Here(i) == pc = "items" /\ next = i

Advance(missed) ==
  /\ next' = next + 1
  /\ failed' = (failed \/ missed)
  /\ UNCHANGED <<pc, feed, feedRevision>>

Record(i, generation) ==
  /\ row' = [row EXCEPT ![i] = [hash |-> feed[i], generation |-> generation]]
  /\ Advance(FALSE)
  /\ UNCHANGED unrecorded

\* The answer is lost, the process dies, or the row is not saved; a lost answer
\* about an attachment does not end the dispatch.
Unrecorded(i) ==
  /\ unrecorded' = unrecorded \cup {i}
  /\ UNCHANGED row
  /\ Stop \/ Advance(FALSE) \/ (i \in File /\ Advance(TRUE))

Skip(i) ==
  /\ Here(i)
  /\ \/ feed[i] = None
     \/ row[i] # None /\ (i \in File \/ row[i].hash = feed[i])
  /\ Advance(FALSE)
  /\ UNCHANGED <<source, room, db, syncEdits, past>>

Post(i) ==
  /\ Here(i)
  /\ feed[i] # None /\ row[i] = None
  /\ used' = used \cup {PostKey(i, feed[i])}
  /\ IF PostKey(i, feed[i]) \in used
       THEN UNCHANGED <<shown, posted>>
       ELSE /\ shown' = [shown EXCEPT ![i] = feed[i]]
            /\ posted' = [posted EXCEPT ![i] = @ + 1]
  /\ Record(i, 0) \/ Unrecorded(i)
  /\ UNCHANGED <<source, notices, checkpoint, delivered, syncEdits, contents>>

\* applySourceEdit.  Without sync_edits an edited text is an error (Abandon).
Edit(i) ==
  /\ Here(i)
  /\ syncEdits
  /\ i \notin File
  /\ feed[i] # None /\ row[i] # None
  /\ row[i].hash # feed[i]
  /\ used' = used \cup {EditKey(i, feed[i])}
  /\ shown' = IF EditKey(i, feed[i]) \in used THEN shown
              ELSE [shown EXCEPT ![i] = feed[i]]
  /\ Record(i, row[i].generation + 1) \/ Unrecorded(i)
  /\ UNCHANGED <<source, posted, notices, checkpoint, delivered, syncEdits, contents>>

\* The file cannot be fetched or uploaded: the event is ignored, which the
\* framework reports as a success; a failed post is counted.
FileMissing_OrText(i) ==
  /\ Here(i)
  /\ feed[i] # None /\ row[i] = None
  /\ \E counted \in BOOLEAN : Advance(counted)
  /\ UNCHANGED <<source, room, db, syncEdits, past>>
FileMissing(i) ==
  /\ Here(i)
  /\ i \in File
  /\ feed[i] # None /\ row[i] = None
  /\ \E counted \in BOOLEAN : Advance(counted)
  /\ UNCHANGED <<source, room, db, syncEdits, past>>

-----------------------------------------------------------------------------
ItemsDone ==
  /\ pc = "items"
  /\ next = Last + 1
  /\ Enter(IF syncEdits THEN "saveBranch" ELSE "saveDelivered")
  /\ UNCHANGED <<source, room, db, syncEdits, past>>

SaveBranch ==
  /\ pc = "saveBranch"
  /\ checkpoint' = BranchData
  /\ Enter("saveDelivered")
  /\ UNCHANGED <<source, room, row, delivered, syncEdits, past>>

\* The fingerprint is kept back while an accepted attachment is missing.
SaveDelivered ==
  /\ pc = "saveDelivered"
  /\ delivered' = IF failed THEN delivered ELSE feedRevision
  /\ Stop
  /\ UNCHANGED <<source, room, row, checkpoint, syncEdits, past>>

Dispatch ==
  \/ SameBranch \/ Notice
  \/ \E i \in Item : Skip(i) \/ Post(i) \/ Edit(i) \/ FileMissing(i)
  \/ ItemsDone \/ SaveBranch \/ SaveDelivered

Next ==
  \/ \E i \in Item : \E v \in Content(i) : SourceWrites(i, v)
  \/ \E i \in Item \ File : SourceHides(i)
  \/ Read \/ Unchanged \/ Abandon \/ Restart \/ Dispatch

Spec == Init /\ [][Next]_vars

-----------------------------------------------------------------------------
\* An item enters the timeline at most once, whatever was lost on the way
\* (internal/delivery/transport.go:20-22).
OneEventPerItem == \A i \in Item : posted[i] <= 1

\* What is marked as delivered, and so not looked at again, is what the room
\* shows: with sync_edits, source edits update existing events (README.md:66-67).
Shows(i) == text[i] # None => shown[i] = text[i]

DeliveredIsShown == delivered = revision => \A i \in Item \ File : Shows(i)

\* The same, except for a text that was both rewritten at the source and had a
\* request accepted but not recorded: an edit alone, however often it returns to
\* an old content, and a lost outcome alone do not make the room wrong.
RecordedIsShown ==
  delivered = revision =>
    \A i \in Item \ File : i \notin unrecorded \/ contents[i] = {text[i]} => Shows(i)

\* A file that could not be fetched is tried again (media.go:26-28): a
\* conversation that is not looked at again has all its files.
FilesStayRetryable ==
  delivered = revision => \A i \in File : text[i] # None => posted[i] = 1

\* The checkpoint drops an item only after a notice told the reader so
\* (reconcile.go:88-89).
BranchNoticed ==
  [][checkpoint # None /\ checkpoint' # checkpoint
       /\ checkpoint.ids \ checkpoint'.ids # {} => checkpoint' \in notices]_vars

\* A text is posted after every visible text before it, so that a failure
\* never makes the room skip ahead (connector.go:256-262).
InOrder ==
  [][\A i \in Item \ File : posted'[i] > posted[i] =>
       \A k \in 1 .. i - 1 : feed[k] # None /\ k \notin File => posted[k] = 1]_vars

=============================================================================
