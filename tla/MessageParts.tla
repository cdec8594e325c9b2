----------------------------- MODULE MessageParts -----------------------------
(***************************************************************************)
(* One source message in its room (pkg/connector/events.go, splitting.go,  *)
(* formatting.go, reconcile.go).  A long message is split into parts, each *)
(* an event of its own with its own handler, row and transaction key.  A   *)
(* later revision may change the text, the number of parts, or only how    *)
(* the text is presented (a citation got its link).  With sync_edits every *)
(* change is an edit of the parts, and superseded parts are replaced by a  *)
(* tombstone; without it a changed text is an error and only an assistant's*)
(* presentation is updated.                                                *)
(*                                                                         *)
(* A request may be accepted and its outcome lost, the rows changed by a   *)
(* handler may not be saved, and the bridge may restart with another       *)
(* sync_edits.  A reply with attachments (reconcile.go:30) is left out.    *)
(* The order of several messages and their attachments, the branch and the *)
(* other errors of a dispatch are Mirror's.                                *)
(***************************************************************************)
EXTENDS Naturals, Sequences

CONSTANTS
  Rendered,     \* [hash, parts]: a source text and the contents it is split into
  Plain,        \* the same of an operator's message
  MaxParts,     \* bound on the number of parts
  Tombstone,    \* content of a part that was superseded
  None,
  MaxChanges    \* bound on the changes of the source

Part == 1 .. MaxParts

\* renderMessage and splitMessage: an operator's text is rendered as it is, so
\* its hash decides its parts; citations may change an assistant's rendering.
Version        == Rendered \cup Plain
Versions(role) == IF role = "assistant" THEN Rendered ELSE Plain

ASSUME VersionAssumption ==
  \A v \in Version : /\ DOMAIN v = {"hash", "parts"}
                      /\ Len(v.parts) \in Part /\ DOMAIN v.parts = 1 .. Len(v.parts)
ASSUME PlainAssumption == \A v, w \in Plain : v.hash = w.hash => v = w
ASSUME BoundAssumption == MaxParts \in Nat \ {0} /\ MaxChanges \in Nat

VARIABLES
  role,         \* Message.Role
  own,          \* the message is a reply sent from the room: its event has it all
  version,      \* the message at the source
  revision,     \* number of its changes; every change gives a new fingerprint
  used,         \* transaction keys the homeserver has run (external)
  shown,        \* what the event of each part shows: hash and content (external)
  posted,       \* timeline events that introduced each part (external)
  row,          \* message table: metadata of each part
  delivered,    \* revision whose fingerprint is saved
  syncEdits,    \* Config.SyncEdits
  feed, feedRevision, next,   \* the message being dispatched, its revision, the part come to
  returned,     \* parts whose content went back to an earlier one (history)
  given,        \* versions the message has had (history)
  relooked,     \* parts that had a presentation edit (history)
  unrecorded    \* parts of which an accepted request went unrecorded (history)

source == <<role, own, version, revision>>
room   == <<used, shown, posted>>
poll   == <<feed, feedRevision, next>>
past   == <<returned, given, relooked, unrecorded>>
vars   == <<source, room, row, delivered, syncEdits, poll, past>>

Contents(v) == {v.parts[k] : k \in DOMAIN v.parts}

Looks  == {Tombstone} \cup UNION {Contents(v) : v \in Version}
Hashes == {v.hash : v \in Version}
Row    == [hash : Hashes, look : Looks \cup {None}, count : 0 .. MaxParts, generation : Nat]

ASSUME NoneAssumption ==
  /\ None \notin Hashes \cup Looks \cup Version
  /\ None \notin Row /\ None \notin [hash : Hashes, look : Looks] /\ None \notin Nat

Key    == [part : Part, generation : Nat, hash : Hashes \cup {None}, look : Looks \cup {None}]

TypeOK ==
  /\ role \in {"assistant", "user"} /\ own \in BOOLEAN
  /\ version \in Versions(role) /\ revision \in Nat
  /\ used \subseteq Key
  /\ shown \in [Part -> [hash : Hashes, look : Looks] \cup {None}]
  /\ posted \in [Part -> Nat]
  /\ row \in [Part -> Row \cup {None}]
  /\ delivered \in Nat \cup {None}
  /\ syncEdits \in BOOLEAN
  /\ feed \in Versions(role) \cup {None} /\ feedRevision \in Nat
  /\ next \in 1 .. IF feed = None THEN 1 ELSE Len(feed.parts) + 1
  /\ returned \subseteq Part /\ given \subseteq Version
  /\ relooked \subseteq Part /\ unrecorded \subseteq Part

\* The row of a reply from the room has no parts (outbound.go:87-89).
Reply(v) == [hash |-> v.hash, look |-> None, count |-> 0, generation |-> 0]

Init ==
  /\ role \in {"assistant", "user"}
  /\ own \in {FALSE, role = "user"}
  /\ version \in Versions(role)
  /\ revision = 1
  /\ used = {}
  /\ shown = [k \in Part |-> None]
  /\ posted = [k \in Part |-> 0]
  /\ row = [k \in Part |-> IF own /\ k = 1 THEN Reply(version) ELSE None]
  /\ delivered = None
  /\ syncEdits \in BOOLEAN
  /\ feed = None /\ feedRevision = 0 /\ next = 1
  /\ returned = {} /\ given = {version}
  /\ relooked = {} /\ unrecorded = {}

-----------------------------------------------------------------------------
\* What part k of a version shows; a part it does not have is superseded.
Shown(v, k) == IF k <= Len(v.parts) THEN v.parts[k] ELSE Tombstone

SourceChanges(v) ==
  /\ revision < MaxChanges
  /\ v # version
  /\ version' = v
  /\ revision' = revision + 1
  /\ returned' = returned \cup
       {k \in Part : /\ Shown(v, k) # Shown(version, k)
                     /\ \E w \in given : Shown(w, k) = Shown(v, k)}
  /\ given' = given \cup {v}
  /\ UNCHANGED <<role, own, room, row, delivered, syncEdits, poll, relooked, unrecorded>>

\* A poll reports the message unless its saved fingerprint matches.
Read ==
  /\ feed = None
  /\ delivered # revision
  /\ feed' = version /\ feedRevision' = revision /\ next' = 1
  /\ UNCHANGED <<source, room, row, delivered, syncEdits, past>>

Stop == feed' = None /\ feedRevision' = 0 /\ next' = 1

Advance == next' = next + 1 /\ UNCHANGED <<feed, feedRevision>>

Restart ==
  /\ syncEdits' \in BOOLEAN
  /\ Stop
  /\ UNCHANGED <<source, room, row, delivered, returned, given, relooked, unrecorded>>

-----------------------------------------------------------------------------
(***************************************************************************)
(* The handler of part `next`.  It looks at the rows of all parts of the   *)
(* message, and may send several requests and change several rows.         *)
(***************************************************************************)
Count     == Len(feed.parts)
Wanted(k) == Shown(feed, k)

\* A reply from the room, or a one-part operator message, already shows it all.
Whole_Never == FALSE
Whole == role = "user" /\ row[1] # None /\ row[1].count = 0 /\ row[1].hash = feed.hash

\* messagePartUpsert: without sync_edits the text and the layout must be the same.
SameText_Exact ==
  \A k \in Part : row[k] # None => row[k].hash = feed.hash /\ row[k].count = Count
SameText ==
  \A k \in Part : row[k] # None =>
    row[k].hash = feed.hash /\ (row[k].count <= 1 \/ row[k].count = Count)

\* reconciledPartUpsert and applySourceEdit: an existing part that needs no edit.
Reconciled(k) ==
  /\ row[k].hash = feed.hash
  /\ \/ /\ row[k].look = Wanted(k)
        /\ \/ row[k].count = Count
           \/ k <= Count /\ Count = 1 /\ row[k].count = 0
     \/ k <= Count /\ role = "user" /\ row[k].look = None

\* presentationUpsert: only an assistant's part is updated.
Presented(k) == role = "user" \/ row[k].look = Wanted(k)

Recounted(k) == Count = 1 \/ row[k].count = Count

\* Superseded parts, which the handler of the first part replaces.
Superseded ==
  IF syncEdits /\ next = 1
    THEN {k \in Part : k > Count /\ row[k] # None /\ ~Reconciled(k)}
    ELSE {}

\* The parts the handler posts or edits, and those whose row it changes.
Sends ==
  IF Whole THEN {} ELSE
  Superseded \cup
    {k \in {next} : IF row[k] = None THEN TRUE
                    ELSE IF syncEdits THEN ~Reconciled(k) ELSE ~Presented(k)}
Changes ==
  IF Whole THEN {} ELSE
  Sends \cup {k \in {next} : ~syncEdits /\ row[k] # None /\ ~Recounted(k)}

PostKey_Hash(k) == [part |-> k, generation |-> 0, hash |-> feed.hash, look |-> None]
PostKey(k)      == [part |-> k, generation |-> 0, hash |-> None, look |-> None]
LookKey(k)      == [part |-> k, generation |-> 0, hash |-> None, look |-> Wanted(k)]
EditKey_Look(k) == LookKey(k)
EditKey(k)      ==
  [part |-> k, generation |-> row[k].generation + 1, hash |-> feed.hash, look |-> Wanted(k)]

RequestKey(k) ==
  IF row[k] = None THEN PostKey(k) ELSE IF syncEdits THEN EditKey(k) ELSE LookKey(k)

\* The row of a part after it was posted, edited, presented again, or recounted.
\* An operator's part is posted without a presentation; a presentation edit
\* starts the generations of later edits again.
NewRow(k) ==
  LET updated == [hash |-> feed.hash, look |-> Wanted(k), count |-> Count, generation |-> 0] IN
  CASE row[k] = None ->
         [updated EXCEPT !.look  = IF role = "user" THEN None ELSE @,
                         !.count = IF Count > 1 THEN Count ELSE 0]
    [] row[k] # None /\ syncEdits ->
         [updated EXCEPT !.generation = row[k].generation + 1]
    [] row[k] # None /\ ~syncEdits /\ ~Presented(k) ->
         [updated EXCEPT !.count = IF Count > 1 THEN Count ELSE row[k].count]
    [] row[k] # None /\ ~syncEdits /\ Presented(k) ->
         [row[k] EXCEPT !.count = Count]

\* The homeserver runs the requests for parts K whose keys are new.
Run(K) ==
  LET fresh == {k \in K : RequestKey(k) \notin used} IN
  /\ used' = used \cup {RequestKey(k) : k \in K}
  /\ shown' = [k \in Part |-> IF k \in fresh THEN [hash |-> feed.hash, look |-> Wanted(k)]
                              ELSE shown[k]]
  /\ posted' = [k \in Part |-> posted[k] + (IF k \in fresh /\ row[k] = None THEN 1 ELSE 0)]
  /\ relooked' = relooked \cup {k \in K : row[k] # None /\ ~syncEdits}

\* Rows K are changed in the database; the requests for the others of `done` are
\* not recorded.
Save(K, done) ==
  /\ row' = [k \in Part |-> IF k \in K THEN NewRow(k) ELSE row[k]]
  /\ unrecorded' = unrecorded \cup (done \ K)

Dispatching == feed # None /\ next <= Count
Accepts     == syncEdits \/ Whole \/ SameText

\* The part is handled: all its requests are accepted and its rows are saved.
Handle ==
  /\ Dispatching /\ Accepts
  /\ Run(Sends)
  /\ Save(Changes, Sends)
  /\ Advance
  /\ UNCHANGED <<source, delivered, syncEdits, returned, given>>

\* Some rows are not saved, which the framework does not report for every one.
HandleUnsaved ==
  /\ Dispatching /\ Accepts
  /\ Run(Sends)
  /\ \E saved \in SUBSET Changes : saved # Changes /\ Save(saved, Sends)
  /\ Advance \/ Stop
  /\ UNCHANGED <<source, delivered, syncEdits, returned, given>>

\* The handler refuses the message (also because sender or room are not those of the
\* row: reconcile.go:75, formatting.go:150), or a request fails, or its answer is lost.
\* Superseded parts come first; their rows are saved only if the handler itself
\* ended well and it is the new part that could not be posted.
Turn(k) == IF k = next THEN MaxParts + 1 ELSE k

HandleFails_Continues ==
  /\ Dispatching
  /\ \E done \in SUBSET (IF Accepts THEN Sends ELSE {}) : Run(done) /\ Save({}, done)
  /\ Advance \/ Stop
  /\ UNCHANGED <<source, delivered, syncEdits, returned, given>>
HandleFails ==
  /\ Dispatching
  /\ \E done \in SUBSET (IF Accepts THEN Sends ELSE {}) :
       /\ \A k \in done : \A j \in Sends : Turn(j) < Turn(k) => j \in done
       /\ Run(done)
       /\ \/ Save({}, done)
          \/ row[next] = None /\ Superseded \subseteq done /\ Save(Superseded, done)
  /\ Stop
  /\ UNCHANGED <<source, delivered, syncEdits, returned, given>>

\* Every part was handled: the fingerprint is saved.
SaveDelivered ==
  /\ feed # None
  /\ next = Count + 1
  /\ delivered' = feedRevision
  /\ Stop
  /\ UNCHANGED <<source, room, row, syncEdits, past>>

Next ==
  \/ \E v \in Versions(role) : SourceChanges(v)
  \/ Read \/ Restart
  \/ Handle \/ HandleUnsaved \/ HandleFails \/ SaveDelivered

\* Polls go on, and of repeated attempts at a part one succeeds in the end: sender and
\* room of the rows are those of the bridge, or every attempt would fail.
Fairness ==
  /\ WF_vars(Read)
  /\ \A k \in Part : SF_vars(next = k /\ Handle)
  /\ SF_vars(SaveDelivered)

Spec == Init /\ [][Next]_vars /\ Fairness

-----------------------------------------------------------------------------
\* However often a part fails, its outcome is lost or the layout changes, no part
\* enters the timeline twice (formatting.go:91-92).
OneEventPerPart == \A k \in Part : posted[k] <= 1

\* The split parts of a reply that was typed in the room are not posted next to
\* it, nor is it rewritten, before its text changes at the source
\* (formatting.go:104-107, reconcile.go:33-36).
OwnReplyIsWhole == own /\ given = {version} => used = {}

\* A message that counts as delivered is shown as the source has it: its parts,
\* and tombstones for the parts it no longer has (saveDelivered, applySourceEdit).
\* The reply typed in the room shows it as long as the bridge has no event of it.
\* A part may show something else only if an accepted request for it, or for the
\* first part of an operator's message, went unrecorded and the message changed,
\* or if it had a presentation edit and its content went back to an earlier one.
Excused(k) ==
  \/ given # {version} /\ (k \in unrecorded \/ (role = "user" /\ 1 \in unrecorded))
  \/ k \in relooked \cap returned

DeliveredIsShown ==
  delivered = revision =>
    \/ own /\ used = {} /\ row[1].hash = version.hash
    \/ \A k \in Part :
         \/ shown[k] = [hash |-> version.hash, look |-> Shown(version, k)]
         \/ shown[k] = None /\ k > Len(version.parts)
         \/ Excused(k)

\* The timeline has the parts in order: a part enters it only after every earlier
\* one, also when an attempt was cut short (dispatch stops at the first failure,
\* connector.go:254-259).
PartsInOrder ==
  [][\A k \in Part : posted'[k] > posted[k] =>
       \A j \in 1 .. k - 1 : posted[j] > 0 \/ (own /\ j = 1)]_vars

\* A message cut short between two parts is completed: with sync_edits whatever
\* its changes were, without it if its text and layout stay what they were.
Resumes ==
  <>[](syncEdits \/ \A v \in given : v.hash = version.hash /\ Len(v.parts) = Len(version.parts))
    => <>[](delivered = revision)

=============================================================================
