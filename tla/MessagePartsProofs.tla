-------------------------- MODULE MessagePartsProofs --------------------------
(***************************************************************************)
(* What the handlers of a message keep for any versions, number of parts   *)
(* and changes: no part enters the timeline twice or before an earlier     *)
(* one, a reply typed in the room stays as it was typed, and a message     *)
(* that counts as delivered is shown.                                      *)
(*                                                                         *)
(* A part's first event has a key of its own that names no content, so it  *)
(* is used exactly when the part is in the timeline.  IInv follows from    *)
(* that; SInv, further below, adds what the rows tell of the events.       *)
(***************************************************************************)
EXTENDS MessageParts, TLAPS

Posted(k) == PostKey(k) \in used

Posts ==
  \A k \in Part :
    /\ posted[k] = IF Posted(k) THEN 1 ELSE 0
    /\ row[k] # None => Posted(k) \/ (own /\ k = 1)

\* Every part before the one that is come to is in the timeline.
Before == \A j \in 1 .. next - 1 : Posted(j) \/ (own /\ j = 1)

Behind == feed # None => Whole \/ Before

\* A reply whose text did not change has its own row only, and no request was sent.
Typed ==
  /\ version \in given
  /\ own => role = "user"
  /\ feed # None => feed \in given
  /\ own /\ given = {version} =>
       used = {} /\ row = [k \in Part |-> IF k = 1 THEN Reply(version) ELSE None]

IInv == TypeOK /\ Posts /\ Behind /\ Typed

-----------------------------------------------------------------------------
LEMMA VersionParts ==
  ASSUME NEW v \in Version
  PROVE  /\ Len(v.parts) \in Part /\ v.hash \in Hashes
         /\ \A k \in Part : Shown(v, k) \in Looks
<1>1. Len(v.parts) \in Part /\ DOMAIN v.parts = 1 .. Len(v.parts)
  BY VersionAssumption
<1>2. v.hash \in Hashes
  BY DEF Hashes
<1>3. ASSUME NEW k \in Part PROVE Shown(v, k) \in Looks
  <2>1. CASE k <= Len(v.parts)
    <3>1. k \in DOMAIN v.parts
      BY <1>1, <2>1, BoundAssumption DEF Part
    <3>2. v.parts[k] \in Contents(v)
      BY <3>1 DEF Contents
    <3>3. Contents(v) \in {Contents(w) : w \in Version}
      OBVIOUS
    <3>4. v.parts[k] \in UNION {Contents(w) : w \in Version}
      BY <3>2, <3>3
    <3>5. v.parts[k] \in Looks
      BY <3>4 DEF Looks
    <3> QED
      BY <2>1, <3>5 DEF Shown
  <2>2. CASE ~(k <= Len(v.parts))
    BY <2>2 DEF Shown, Looks
  <2> QED
    BY <2>1, <2>2
<1> QED
  BY <1>1, <1>2, <1>3

LEMMA RoleVersions == ASSUME NEW r PROVE Versions(r) \subseteq Version
BY DEF Versions, Version

\* What the handlers work with while a message is dispatched.
LEMMA Dispatched ==
  ASSUME TypeOK, Dispatching
  PROVE  /\ feed \in Version /\ feed.hash \in Hashes /\ Count \in Part
         /\ next \in 1 .. Count /\ next \in Part
         /\ \A k \in Part : Wanted(k) \in Looks
         /\ Superseded \subseteq Part /\ Sends \subseteq Part /\ Changes \subseteq Part
         /\ \A k \in Superseded : row[k] # None
         /\ \A k \in Sends : k = next \/ row[k] # None
<1>1. feed \in Version
  BY RoleVersions DEF TypeOK, Dispatching
<1>2. Count \in Part /\ feed.hash \in Hashes /\ \A k \in Part : Wanted(k) \in Looks
  BY <1>1, VersionParts DEF Count, Wanted
<1>3. next \in 1 .. Count /\ next \in Part
  BY <1>2, BoundAssumption DEF TypeOK, Dispatching, Count, Part
<1>4. Superseded \subseteq Part /\ \A k \in Superseded : row[k] # None
  BY DEF Superseded
<1>5. Sends \subseteq Part /\ \A k \in Sends : k = next \/ row[k] # None
  BY <1>3, <1>4 DEF Sends
<1>6. Changes \subseteq Part
  BY <1>3, <1>5 DEF Changes
<1> QED
  BY <1>1, <1>2, <1>3, <1>4, <1>5, <1>6

LEMMA RequestTypes ==
  ASSUME TypeOK, Dispatching, NEW k \in Part
  PROVE  RequestKey(k) \in Key
<1>1. /\ feed.hash \in Hashes /\ Wanted(k) \in Looks
      /\ row[k] # None => row[k].generation + 1 \in Nat
  BY Dispatched DEF TypeOK, Row
<1> QED
  BY <1>1 DEF RequestKey, PostKey, EditKey, LookKey, Key

LEMMA RowTypes ==
  ASSUME TypeOK, Dispatching, NEW k \in Part
  PROVE  NewRow(k) \in Row
<1>1. /\ feed.hash \in Hashes /\ Wanted(k) \in Looks /\ Count \in 0 .. MaxParts
  BY Dispatched, BoundAssumption DEF Part
<1>2. row[k] # None => row[k] \in Row /\ row[k].generation + 1 \in Nat /\ row[k].count \in 0 .. MaxParts
  BY DEF TypeOK, Row
<1>3. 0 \in 0 .. MaxParts /\ 0 \in Nat
  BY BoundAssumption
<1>4. CASE row[k] = None
  BY <1>1, <1>3, <1>4 DEF NewRow, Row
<1>5. CASE row[k] # None /\ syncEdits
  BY <1>1, <1>2, <1>5 DEF NewRow, Row
<1>6. CASE row[k] # None /\ ~syncEdits /\ ~Presented(k)
  BY <1>1, <1>2, <1>3, <1>6 DEF NewRow, Row
<1>7. CASE row[k] # None /\ ~syncEdits /\ Presented(k)
  BY <1>1, <1>2, <1>7 DEF NewRow, Row
<1> QED
  BY <1>4, <1>5, <1>6, <1>7 DEF TypeOK

-----------------------------------------------------------------------------
\* What sending requests and saving rows does, for parts of the message.
LEMMA SendSave ==
  ASSUME TypeOK, Dispatching, NEW K \in SUBSET Part, NEW C \in SUBSET Part, Run(K), Save(C, K)
  PROVE  /\ used' \subseteq Key
         /\ shown' \in [Part -> [hash : Hashes, look : Looks] \cup {None}]
         /\ posted' \in [Part -> Nat] /\ row' \in [Part -> Row \cup {None}]
         /\ relooked' \subseteq Part /\ unrecorded' \subseteq Part
         /\ \A k \in Part : row'[k] = IF k \in C THEN NewRow(k) ELSE row[k]
<1>1. used' \subseteq Key
  BY RequestTypes DEF Run, TypeOK
<1>2. shown' \in [Part -> [hash : Hashes, look : Looks] \cup {None}]
  BY Dispatched DEF Run, TypeOK
<1>3. posted' \in [Part -> Nat]
  BY DEF Run, TypeOK
<1>4. row' \in [Part -> Row \cup {None}]
  BY RowTypes DEF Save, TypeOK
<1>5. relooked' \subseteq Part /\ unrecorded' \subseteq Part
  BY DEF Run, Save, TypeOK
<1> QED
  BY <1>1, <1>2, <1>3, <1>4, <1>5 DEF Save

\* The three outcomes of a handler are one step: some requests run, some rows are
\* saved, and the dispatch goes on or stops.
Attempt(K, C) ==
  /\ Dispatching
  /\ K \in SUBSET Sends /\ C \in SUBSET Changes
  /\ Run(K) /\ Save(C, K)
  /\ \/ Advance /\ K = Sends
     \/ Stop
  /\ C \cap Sends \subseteq K
  /\ Accepts \/ (Stop /\ K = {} /\ C = {})
  /\ UNCHANGED <<source, delivered, syncEdits, returned, given>>

LEMMA HandlerAttempts ==
  ASSUME TypeOK, Handle \/ HandleUnsaved \/ HandleFails
  PROVE  \E K, C : Attempt(K, C)
<1>1. CASE Handle
  <2>1. Attempt(Sends, Changes)
    BY <1>1 DEF Handle, Attempt
  <2> QED
    BY <2>1
<1>2. CASE HandleUnsaved
  <2>1. PICK saved \in SUBSET Changes : Save(saved, Sends)
    BY <1>2 DEF HandleUnsaved
  <2>2. Attempt(Sends, saved)
    BY <1>2, <2>1 DEF HandleUnsaved, Attempt
  <2> QED
    BY <2>2
<1>3. CASE HandleFails
  <2>1. PICK done \in SUBSET (IF Accepts THEN Sends ELSE {}) :
          /\ Run(done)
          /\ \/ Save({}, done)
             \/ row[next] = None /\ Superseded \subseteq done /\ Save(Superseded, done)
    BY <1>3 DEF HandleFails
  <2>2. done \subseteq Sends /\ (Accepts \/ done = {}) /\ Dispatching /\ Stop
    BY <1>3, <2>1 DEF HandleFails
  <2>3. CASE Save({}, done)
    <3>1. Attempt(done, {})
      BY <1>3, <2>1, <2>2, <2>3 DEF HandleFails, Attempt
    <3> QED
      BY <3>1
  <2>4. CASE Superseded \subseteq done /\ Save(Superseded, done)
    <3>1. done \subseteq Changes
      BY <2>2 DEF Changes, Sends
    <3>2. Accepts \/ (done = {} /\ Superseded = {})
      BY <2>2, <2>4
    <3>3. Attempt(done, Superseded)
      BY <1>3, <2>1, <2>2, <2>4, <3>1, <3>2 DEF HandleFails, Attempt
    <3> QED
      BY <3>3
  <2> QED
    BY <2>1, <2>3, <2>4
<1> QED
  BY <1>1, <1>2, <1>3

-----------------------------------------------------------------------------
\* Only a post uses the key of a part's first event.
LEMMA PostsUsePostKeys ==
  ASSUME TypeOK, Dispatching, NEW j \in Part, NEW k \in Part
  PROVE  RequestKey(j) = PostKey(k) <=> row[j] = None /\ j = k
<1>1. feed.hash # None /\ Wanted(j) # None
  BY Dispatched, NoneAssumption
<1> QED
  BY <1>1 DEF RequestKey, PostKey, EditKey, LookKey

LEMMA ReplyIsRow == ASSUME NEW v \in Version PROVE Reply(v) \in Row /\ Reply(v) # None
<1>1. v.hash \in Hashes /\ 0 \in 0 .. MaxParts /\ 0 \in Nat
  BY VersionParts, BoundAssumption
<1>2. Reply(v) \in Row
  BY <1>1 DEF Reply, Row
<1> QED
  BY <1>2, NoneAssumption

\* Nothing is done for a message that the room has as it was typed.
LEMMA WholeIsLeft ==
  ASSUME Whole
  PROVE  Sends = {} /\ Changes = {}
BY DEF Sends, Changes

LEMMA AttemptKeeps ==
  ASSUME IInv, NEW K, NEW C, Attempt(K, C)
  PROVE  IInv'
<1>1. TypeOK /\ Dispatching /\ K \in SUBSET Part /\ C \in SUBSET Part
      /\ K \subseteq Sends /\ C \subseteq Changes
  BY Dispatched DEF IInv, Attempt
<1>2. /\ used' \subseteq Key
      /\ shown' \in [Part -> [hash : Hashes, look : Looks] \cup {None}]
      /\ posted' \in [Part -> Nat] /\ row' \in [Part -> Row \cup {None}]
      /\ relooked' \subseteq Part /\ unrecorded' \subseteq Part
      /\ \A k \in Part : row'[k] = IF k \in C THEN NewRow(k) ELSE row[k]
  BY <1>1, SendSave DEF Attempt
<1>3. TypeOK'
  <2>1. feed' \in Versions(role) \cup {None} /\ feedRevision' \in Nat
    BY <1>1 DEF Attempt, Advance, Stop, TypeOK
  <2>2. next' \in 1 .. IF feed' = None THEN 1 ELSE Len(feed'.parts) + 1
    <3>1. CASE Advance
      BY <1>1, <3>1, Dispatched, BoundAssumption DEF Advance, Dispatching, Count, Part
    <3>2. CASE Stop
      BY <3>2 DEF Stop
    <3> QED
      BY <3>1, <3>2 DEF Attempt
  <2> QED
    BY <1>1, <1>2, <2>1, <2>2 DEF Attempt, TypeOK, source
<1>4. \A k \in Part : /\ Posted(k)' <=> Posted(k) \/ (k \in K /\ row[k] = None)
                      /\ posted'[k] = posted[k] + IF k \in K /\ row[k] = None /\ ~Posted(k) THEN 1 ELSE 0
  <2> SUFFICES ASSUME NEW k \in Part
               PROVE  /\ Posted(k)' <=> Posted(k) \/ (k \in K /\ row[k] = None)
                      /\ posted'[k] = posted[k] + IF k \in K /\ row[k] = None /\ ~Posted(k) THEN 1 ELSE 0
    OBVIOUS
  <2>1. PostKey(k) \in used' <=> PostKey(k) \in used \/ \E j \in K : RequestKey(j) = PostKey(k)
    BY DEF Attempt, Run
  <2>2. (\E j \in K : RequestKey(j) = PostKey(k)) <=> k \in K /\ row[k] = None
    BY <1>1, PostsUsePostKeys
  <2>3. Posted(k)' <=> PostKey(k) \in used'
    BY DEF Posted, PostKey
  <2>4. row[k] = None => RequestKey(k) = PostKey(k)
    BY <1>1, PostsUsePostKeys
  <2>5. posted'[k] = posted[k] + IF k \in K /\ RequestKey(k) \notin used /\ row[k] = None THEN 1 ELSE 0
    BY DEF Attempt, Run
  <2> QED
    BY <2>1, <2>2, <2>3, <2>4, <2>5 DEF Posted
<1>5. Posts'
  <2> SUFFICES ASSUME NEW k \in Part
               PROVE  /\ posted'[k] = IF Posted(k)' THEN 1 ELSE 0
                      /\ row'[k] # None => Posted(k)' \/ (own /\ k = 1)
    BY DEF Posts, Attempt, source
  <2>1. posted'[k] = IF Posted(k)' THEN 1 ELSE 0
    BY <1>4 DEF IInv, Posts
  <2>2. k \in C /\ row[k] = None => k \in K
    BY <1>1, Dispatched DEF Attempt, Changes
  <2>3. row'[k] # None => Posted(k)' \/ (own /\ k = 1)
    BY <1>2, <1>4, <2>2 DEF IInv, Posts
  <2> QED
    BY <2>1, <2>3
<1>6. Behind'
  <2>1. CASE Stop
    BY <2>1 DEF Behind, Stop
  <2>2. CASE Advance /\ K = Sends
    <3>1. CASE Whole
      <4>1. row' = row
        BY <1>1, <1>2, <3>1, WholeIsLeft DEF TypeOK
      <4> QED
        BY <2>2, <3>1, <4>1 DEF Behind, Whole, Advance, Attempt, source
    <3>2. CASE ~Whole
      <4> PICK n \in Part : n = next
        BY <1>1, Dispatched
      <4>1. \A j \in 1 .. n - 1 : Posted(j) \/ (own /\ j = 1)
        BY <1>1, <3>2 DEF IInv, Behind, Before, Dispatching
      <4>2. row[n] = None => n \in Sends
        BY <1>1, <3>2, Dispatched DEF Sends
      <4>3. Posted(n)' \/ (own /\ n = 1)
        BY <1>4, <2>2, <4>2 DEF IInv, Posts
      <4>4. 1 .. n - 1 \subseteq Part /\ next' = n + 1 /\ n \in Nat /\ own' = own
        BY <2>2, BoundAssumption DEF Part, Advance, Attempt, source
      <4>5. \A j \in 1 .. next' - 1 : Posted(j)' \/ (own' /\ j = 1)
        BY <1>4, <4>1, <4>3, <4>4
      <4> QED
        BY <4>5 DEF Behind, Before
    <3> QED
      BY <3>1, <3>2
  <2> QED
    BY <2>1, <2>2 DEF Attempt
<1>7. Typed'
  <2>1. UNCHANGED <<version, given, own, role>> /\ feed' \in {feed, None}
    BY DEF Attempt, source, Advance, Stop
  <2>2. ASSUME own, given = {version}
        PROVE  used' = used /\ row' = row
    <3>1. feed = version /\ version \in Version /\ role = "user"
      BY <1>1, <2>2, RoleVersions DEF IInv, Typed, Dispatching, TypeOK
    <3>2. row[1] = Reply(version) /\ 1 \in Part
      BY <2>2, BoundAssumption DEF IInv, Typed, Part
    <3>3. Whole
      BY <3>1, <3>2, ReplyIsRow DEF Whole, Reply
    <3>4. K = {} /\ C = {}
      BY <1>1, <3>3, WholeIsLeft
    <3> QED
      BY <1>1, <1>2, <3>4 DEF Attempt, Run, TypeOK
  <2> QED
    BY <2>1, <2>2, NoneAssumption DEF IInv, Typed, Reply
<1> QED
  BY <1>3, <1>5, <1>6, <1>7 DEF IInv

-----------------------------------------------------------------------------
\* The steps that touch neither the timeline nor the rows.
LEMMA SourceKeeps ==
  ASSUME IInv, NEW v \in Versions(role), SourceChanges(v)
  PROVE  IInv'
<1>1. UNCHANGED <<role, own, room, row, delivered, syncEdits, poll, relooked, unrecorded>>
      /\ version' = v /\ v # version /\ given' = given \cup {v} /\ revision' = revision + 1
      /\ returned' \subseteq Part
  BY DEF SourceChanges, IInv, TypeOK
<1>2. TypeOK'
  BY <1>1, RoleVersions DEF IInv, TypeOK, room, poll
<1>3. Posts' /\ Behind'
  BY <1>1 DEF IInv, Posts, Posted, PostKey, Behind, Before, Whole, room, poll
<1>4. Typed'
  BY <1>1 DEF IInv, Typed, poll, room
<1> QED
  BY <1>2, <1>3, <1>4 DEF IInv

LEMMA PollKeeps ==
  ASSUME IInv, Read \/ Restart \/ SaveDelivered \/ UNCHANGED vars
  PROVE  IInv'
<1>1. UNCHANGED <<source, room, row, given>>
  BY DEF Read, Restart, SaveDelivered, vars, past
<1>2. \/ feed' = version /\ next' = 1
      \/ feed' = None
      \/ UNCHANGED <<feed, next>>
  BY DEF Read, Restart, SaveDelivered, vars, poll, Stop
<1>3. TypeOK'
  <2>1. CASE Read
    <3>1. Len(version.parts) + 1 >= 1
      BY RoleVersions, VersionParts, BoundAssumption DEF IInv, TypeOK, Part
    <3> QED
      BY <2>1, <3>1, RoleVersions, VersionParts, BoundAssumption, NoneAssumption
      DEF Read, IInv, TypeOK, source, room, past, Part
  <2>2. CASE Restart
    BY <2>2 DEF Restart, Stop, IInv, TypeOK, source, room
  <2>3. CASE SaveDelivered
    BY <2>3 DEF SaveDelivered, Stop, IInv, TypeOK, source, room, past
  <2>4. CASE UNCHANGED vars
    BY <2>4 DEF vars, IInv, TypeOK, source, room, poll, past
  <2> QED
    BY <2>1, <2>2, <2>3, <2>4
<1>4. Posts'
  BY <1>1 DEF IInv, Posts, Posted, PostKey, source, room
<1>5. Behind'
  <2>1. CASE next' = 1
    BY <2>1 DEF Behind, Before
  <2>2. CASE feed' = None
    BY <2>2 DEF Behind
  <2>3. CASE UNCHANGED <<feed, next>>
    BY <1>1, <2>3 DEF IInv, Behind, Before, Whole, Posted, PostKey, source, room
  <2> QED
    BY <1>2, <2>1, <2>2, <2>3
<1>6. Typed'
  BY <1>1, <1>2 DEF IInv, Typed, Reply, source, room
<1> QED
  BY <1>3, <1>4, <1>5, <1>6 DEF IInv

LEMMA Inductive == IInv /\ [Next]_vars => IInv'
<1> SUFFICES ASSUME IInv, [Next]_vars PROVE IInv'
  OBVIOUS
<1>1. CASE Handle \/ HandleUnsaved \/ HandleFails
  BY <1>1, HandlerAttempts, AttemptKeeps DEF IInv
<1> QED
  BY <1>1, SourceKeeps, PollKeeps DEF Next

LEMMA Initial == Init => IInv
<1> SUFFICES ASSUME Init PROVE IInv
  OBVIOUS
<1>1. version \in Version
  BY RoleVersions DEF Init
<1>2. TypeOK
  <2>1. Reply(version) \in Row
    BY <1>1, ReplyIsRow
  <2>2. /\ row \in [Part -> Row \cup {None}] /\ posted \in [Part -> Nat]
        /\ shown \in [Part -> [hash : Hashes, look : Looks] \cup {None}]
    BY <2>1 DEF Init
  <2>3. next \in 1 .. IF feed = None THEN 1 ELSE Len(feed.parts) + 1
    BY DEF Init
  <2>4. role \in {"assistant", "user"} /\ own \in BOOLEAN /\ given \subseteq Version
    BY <1>1 DEF Init
  <2> QED
    BY <2>2, <2>3, <2>4 DEF Init, TypeOK
<1>3. \A k \in Part : row[k] # None => own /\ k = 1
  BY DEF Init
<1>4. Posts
  BY <1>3 DEF Init, Posts, Posted
<1>5. Behind /\ Typed
  BY DEF Init, Behind, Typed
<1> QED
  BY <1>2, <1>4, <1>5 DEF IInv

LEMMA Invariant == Spec => []IInv
BY Initial, Inductive, PTL DEF Spec

-----------------------------------------------------------------------------
\* Every variable keeps its type.
THEOREM PartTypes == Spec => []TypeOK
<1>1. IInv => TypeOK
  BY DEF IInv
<1> QED
  BY <1>1, Invariant, PTL

\* However often parts fail, are edited or change in number, each enters the timeline
\* at most once (formatting.go:91-92).
THEOREM PartsPostedOnce == Spec => []OneEventPerPart
<1>1. IInv => OneEventPerPart
  BY DEF IInv, Posts, OneEventPerPart
<1> QED
  BY <1>1, Invariant, PTL

\* The source copy of a reply typed in the room changes nothing before its text
\* changes (formatting.go:104-107).
THEOREM RepliesStayWhole == Spec => []OwnReplyIsWhole
<1>1. IInv => OwnReplyIsWhole
  BY DEF IInv, Typed, OwnReplyIsWhole
<1> QED
  BY <1>1, Invariant, PTL

\* No part is posted before one that precedes it (connector.go:254-259).
THEOREM PartsPostedInOrder == Spec => PartsInOrder
<1> DEFINE Step == \A k \in Part : posted'[k] > posted[k] =>
                     \A j \in 1 .. k - 1 : posted[j] > 0 \/ (own /\ j = 1)
<1>1. ASSUME IInv, NEW K, NEW C, Attempt(K, C) PROVE Step
  <2>1. TypeOK /\ Dispatching /\ K \subseteq Sends
    BY <1>1 DEF IInv, Attempt
  <2> SUFFICES ASSUME NEW k \in Part, posted'[k] > posted[k]
               PROVE  \A j \in 1 .. k - 1 : posted[j] > 0 \/ (own /\ j = 1)
    OBVIOUS
  <2>2. k \in K /\ row[k] = None
    <3>1. posted'[k] = posted[k] + IF k \in K /\ RequestKey(k) \notin used /\ row[k] = None THEN 1 ELSE 0
      BY <1>1 DEF Attempt, Run
    <3> QED
      BY <2>1, <3>1 DEF TypeOK
  <2>3. k = next
    BY <2>1, <2>2, Dispatched
  <2>4. ~Whole
    BY <2>1, <2>2, WholeIsLeft
  <2>5. \A j \in 1 .. k - 1 : Posted(j) \/ (own /\ j = 1)
    BY <1>1, <2>1, <2>3, <2>4 DEF IInv, Behind, Before, Dispatching
  <2>6. 1 .. k - 1 \subseteq Part
    BY BoundAssumption DEF Part
  <2> QED
    BY <1>1, <2>5, <2>6 DEF IInv, Posts
<1>2. ASSUME IInv, Next, Read \/ Restart \/ SaveDelivered \/ \E v \in Versions(role) : SourceChanges(v)
      PROVE  Step
  <2>1. posted' = posted /\ TypeOK
    BY <1>2 DEF IInv, Read, Restart, SaveDelivered, SourceChanges, room
  <2> QED
    BY <2>1 DEF TypeOK
<1>3. IInv /\ [Next]_vars => [Step]_vars
  BY <1>1, <1>2, HandlerAttempts DEF Next, IInv
<1> QED
  BY <1>3, Invariant, PTL DEF Spec, PartsInOrder

-----------------------------------------------------------------------------
(***************************************************************************)
(* Why a delivered message is shown.  A request is run once per key, so an *)
(* edit can be accepted and change nothing; a row can be behind what its   *)
(* event shows.  The row of a part tells what the part shows as long as    *)
(* all its requests were recorded and no presentation edit was repeated.   *)
(***************************************************************************)
Keys(k)   == {q \in used : q.part = k}
Traced(k) == k \notin unrecorded /\ k \notin relooked \cap returned

Showing(v, k) == [hash |-> v.hash, look |-> Shown(v, k)]

\* What is dispatched is a version the message has had, the latest if its revision is.
Following ==
  /\ given \subseteq Versions(role)
  /\ relooked # {} => role = "assistant"
  /\ own => row[1] # None
  /\ returned # {} => given # {version}
  /\ delivered # None => delivered <= revision
  /\ feed # None =>
       /\ feedRevision <= revision /\ delivered # revision
       /\ feedRevision = revision => feed = version

\* A part shows something once a request for it was run, and it has no row before
\* that, but for the reply's own.
KeysTell == \A k \in Part : shown[k] = None <=> Keys(k) = {}
RowsTell ==
  \A k \in Part : row[k] # None /\ shown[k] = None => own /\ k = 1 /\ row[1].count = 0

\* Everything shown, recorded or asked for was in some version.
FromSource ==
  \A k \in Part :
    /\ shown[k] # None => \E v \in given : shown[k] = Showing(v, k)
    /\ row[k] # None => \E v \in given : v.hash = row[k].hash
    /\ row[k] # None => (row[k].look = None /\ role = "user")
                          \/ \E v \in given : row[k].look = Shown(v, k)
    /\ \A q \in Keys(k) : q.look # None => \E v \in given : q.look = Shown(v, k)

RowsRecord ==
  \A k \in Part :
    /\ k \notin unrecorded /\ row[k] = None => shown[k] = None
    /\ Traced(k) /\ row[k] # None /\ shown[k] # None =>
         /\ shown[k].hash = row[k].hash
         /\ role = "user" \/ row[k].look = shown[k].look

\* A later part that is not a tombstone was recorded in a layout that had it.
LongEnough ==
  \A k \in Part \ {1} : row[k] # None /\ row[k].look # Tombstone => row[k].count >= k

\* Generations number the edits of a part, and start again with a presentation edit.
FreshEdits ==
  \A k \in Part : k \notin unrecorded \cup relooked =>
    \A q \in Keys(k) : q.generation <= row[k].generation

\* A content that did not return was asked for in this run of it only.
FreshLooks ==
  \A k \in Part : k \notin unrecorded \cup returned /\ role = "assistant" =>
    \A q \in Keys(k) :
      \/ q.look = None
      \/ q.look = row[k].look /\ q.generation <= row[k].generation
      \/ q.look # Shown(version, k) /\ (feed # None => q.look # Shown(feed, k))

NotYetAsked ==
  \A k \in Part :
    feed # None /\ k \notin returned /\ Shown(version, k) # Shown(feed, k) =>
      /\ \A q \in Keys(k) : q.look # Shown(version, k)
      /\ row[k] # None => row[k].look # Shown(version, k)

\* An operator's first part that counts as the whole message is all there is.
WholeRows ==
  role = "user" =>
    /\ 1 \notin unrecorded /\ (row[1] = None \/ row[1].count = 0) =>
         /\ \A k \in Part \ {1} : row[k] = None /\ shown[k] = None
         /\ own => used = {}
    /\ ~own /\ row[1] # None /\ row[1].count = 0 =>
         \A v \in Plain : v.hash = row[1].hash => Len(v.parts) = 1
FirstHandled ==
  role = "user" /\ feed # None /\ next > 1 /\ 1 \notin unrecorded =>
    row[1] # None /\ (row[1].count = 0 => row[1].hash = feed.hash)

\* The parts handled so far, and those that are superseded, show the message.
Settled(k) ==
  \/ shown[k] = Showing(feed, k)
  \/ shown[k] = None /\ k > Count
  \/ Excused(k)
Untouched == own /\ used = {} /\ row[1].hash = feed.hash
Progress ==
  feed # None /\ next > 1 =>
    Untouched \/ \A k \in Part : k < next \/ k > Count => Settled(k)

SInv ==
  /\ Following /\ KeysTell /\ RowsTell /\ FromSource /\ RowsRecord /\ LongEnough
  /\ FreshEdits /\ FreshLooks /\ NotYetAsked /\ WholeRows /\ FirstHandled
  /\ Progress /\ DeliveredIsShown

-----------------------------------------------------------------------------
\* The key of a request and the row it leaves, by the kind of the request.
LEMMA RequestKinds ==
  ASSUME TypeOK, Dispatching, NEW k \in Sends
  PROVE  LET q == RequestKey(k) IN
         /\ ~Whole /\ q.part = k
         /\ \/ row[k] = None /\ k = next /\ q.look = None /\ q.generation = 0
            \/ /\ row[k] # None /\ syncEdits
               /\ q.look = Wanted(k) /\ q.generation = row[k].generation + 1
            \/ /\ row[k] # None /\ ~syncEdits /\ ~Presented(k) /\ k = next
               /\ q.look = Wanted(k) /\ q.generation = 0
<1>1. ~Whole /\ (k = next \/ (row[k] # None /\ syncEdits))
  BY Dispatched DEF Sends, Superseded
<1>2. row[k] # None /\ ~syncEdits => ~Presented(k)
  BY <1>1 DEF Sends, Superseded
<1> QED
  BY <1>1, <1>2 DEF RequestKey, PostKey, EditKey, LookKey

LEMMA SavedRows ==
  ASSUME TypeOK, Dispatching, NEW k \in Changes
  PROVE  LET r == NewRow(k) IN
         /\ ~Whole /\ r # None
         /\ \/ /\ k \in Sends /\ row[k] = None /\ k = next
               /\ r.hash = feed.hash /\ r.look = IF role = "user" THEN None ELSE Wanted(k)
               /\ r.generation = 0 /\ r.count = IF Count > 1 THEN Count ELSE 0
            \/ /\ k \in Sends /\ row[k] # None /\ syncEdits
               /\ r.hash = feed.hash /\ r.look = Wanted(k)
               /\ r.generation = row[k].generation + 1 /\ r.count = Count
            \/ /\ k \in Sends /\ row[k] # None /\ ~syncEdits /\ ~Presented(k) /\ k = next
               /\ r.hash = feed.hash /\ r.look = Wanted(k)
               /\ r.generation = 0 /\ r.count = IF Count > 1 THEN Count ELSE row[k].count
            \/ /\ k \notin Sends /\ row[k] # None /\ ~syncEdits /\ k = next
               /\ r.hash = row[k].hash /\ r.look = row[k].look
               /\ r.generation = row[k].generation /\ r.count = Count
               /\ ~Recounted(k)
<1>1. k \in Part /\ ~Whole
  BY Dispatched DEF Changes
<1>2. NewRow(k) # None
  BY <1>1, RowTypes, NoneAssumption
<1>3. CASE k \in Sends /\ row[k] = None
  BY <1>1, <1>2, <1>3, RequestKinds DEF NewRow
<1>4. CASE k \in Sends /\ row[k] # None /\ syncEdits
  BY <1>1, <1>2, <1>4, RequestKinds DEF NewRow
<1>5. CASE k \in Sends /\ row[k] # None /\ ~syncEdits
  <2>1. ~Presented(k) /\ k = next
    BY <1>5, RequestKinds
  <2> QED
    BY <1>1, <1>2, <1>5, <2>1 DEF NewRow
<1>6. CASE k \notin Sends
  <2>1. k = next /\ ~syncEdits /\ row[k] # None /\ ~Recounted(k)
    BY <1>1, <1>6 DEF Changes
  <2>2. Presented(k)
    BY <1>1, <1>6, <2>1 DEF Sends
  <2>3. row[k] \in [hash : Hashes, look : Looks \cup {None}, count : 0 .. MaxParts, generation : Nat]
    BY <1>1, <2>1 DEF TypeOK, Row
  <2> QED
    BY <1>1, <1>2, <1>6, <2>1, <2>2, <2>3 DEF NewRow
<1> QED
  BY <1>3, <1>4, <1>5, <1>6

-----------------------------------------------------------------------------
\* What an attempt does to one part.
LEMMA PartStep ==
  ASSUME TypeOK, NEW K, NEW C, Attempt(K, C), NEW k \in Part
  PROVE  /\ Dispatching
         /\ Keys(k)' = Keys(k) \cup (IF k \in K THEN {RequestKey(k)} ELSE {})
         /\ shown'[k] = IF k \in K /\ RequestKey(k) \notin Keys(k) THEN Showing(feed, k) ELSE shown[k]
         /\ row'[k] = IF k \in C THEN NewRow(k) ELSE row[k]
         /\ k \in unrecorded' <=> k \in unrecorded \/ (k \in K /\ k \notin C)
         /\ k \in relooked' <=> k \in relooked \/ (k \in K /\ row[k] # None /\ ~syncEdits)
         /\ k \in K => k \in Sends
         /\ k \in C => k \in Changes /\ Accepts
         /\ k \in C /\ k \in Sends => k \in K
<1>1. Dispatching /\ K \subseteq Sends /\ C \subseteq Changes /\ K \subseteq Part /\ C \subseteq Part
  BY Dispatched DEF Attempt
<1>2. \A j \in K : RequestKey(j).part = j
  BY <1>1, RequestKinds
<1>3. used' = used \cup {RequestKey(j) : j \in K}
  BY DEF Attempt, Run
<1>4. Keys(k)' = Keys(k) \cup (IF k \in K THEN {RequestKey(k)} ELSE {})
  BY <1>2, <1>3 DEF Keys
<1>5. k \in K => (RequestKey(k) \in used <=> RequestKey(k) \in Keys(k))
  BY <1>2 DEF Keys
<1>6. shown'[k] = IF k \in K /\ RequestKey(k) \notin Keys(k) THEN Showing(feed, k) ELSE shown[k]
  BY <1>5 DEF Attempt, Run, Showing, Wanted
<1>7. row'[k] = IF k \in C THEN NewRow(k) ELSE row[k]
  BY DEF Attempt, Save
<1>8. k \in unrecorded' <=> k \in unrecorded \/ (k \in K /\ k \notin C)
  BY DEF Attempt, Save
<1>9. k \in relooked' <=> k \in relooked \/ (k \in K /\ row[k] # None /\ ~syncEdits)
  BY DEF Attempt, Run
<1>10. (k \in C => Accepts) /\ (k \in C /\ k \in Sends => k \in K)
  BY DEF Attempt
<1> QED
  BY <1>1, <1>4, <1>6, <1>7, <1>8, <1>9, <1>10

LEMMA AttemptLeaves ==
  ASSUME NEW K, NEW C, Attempt(K, C)
  PROVE  /\ UNCHANGED <<role, own, version, revision, delivered, syncEdits, returned, given>>
         /\ \/ /\ feed' = feed /\ feedRevision' = feedRevision /\ next' = next + 1
               /\ K = Sends /\ Accepts
            \/ feed' = None
BY DEF Attempt, source, Advance, Stop

\* A request for a part whose row still tells what it shows has a new key.
LEMMA RequestIsFresh ==
  ASSUME TypeOK, KeysTell, RowsRecord, FreshEdits, FreshLooks, Dispatching,
         relooked # {} => role = "assistant",
         NEW k \in Sends, k \notin unrecorded,
         k \in relooked \/ (row[k] # None /\ ~syncEdits) => k \notin returned
  PROVE  RequestKey(k) \notin Keys(k)
<1> DEFINE q == RequestKey(k)
<1>1. k \in Part /\ Wanted(k) # None /\ Wanted(k) = Shown(feed, k) /\ feed # None
  BY Dispatched, NoneAssumption DEF Wanted, Dispatching
<1>2. row[k] # None => row[k].generation \in Nat
  BY <1>1 DEF TypeOK, Row
<1>3. CASE row[k] = None
  BY <1>1, <1>3 DEF RowsRecord, KeysTell
<1>4. CASE row[k] # None /\ syncEdits /\ k \notin relooked
  <2>1. q.generation = row[k].generation + 1
    BY <1>4, RequestKinds
  <2>2. \A p \in Keys(k) : p.generation <= row[k].generation
    BY <1>1, <1>4 DEF FreshEdits
  <2> QED
    BY <1>2, <1>4, <2>1, <2>2
<1>5. CASE row[k] # None /\ (~syncEdits \/ k \in relooked)
  <2>1. role = "assistant"
    BY <1>5, RequestKinds DEF Presented, TypeOK
  <2>2. q.look = Wanted(k) /\ \/ syncEdits /\ q.generation = row[k].generation + 1
                              \/ ~Presented(k)
    BY <1>5, RequestKinds
  <2>3. ASSUME q \in Keys(k) PROVE q.look = row[k].look /\ q.generation <= row[k].generation
    BY <1>1, <1>5, <2>1, <2>2, <2>3 DEF FreshLooks
  <2>4. ~(q.look = row[k].look /\ ~Presented(k))
    BY <2>2 DEF Presented
  <2> QED
    BY <1>2, <1>5, <2>2, <2>3, <2>4
<1> QED
  BY <1>3, <1>4, <1>5

-----------------------------------------------------------------------------
LEMMA ShownIsNotNone == ASSUME NEW v \in Version, NEW k \in Part PROVE Showing(v, k) # None
<1>1. Showing(v, k) \in [hash : Hashes, look : Looks]
  BY VersionParts DEF Showing
<1> QED
  BY <1>1, NoneAssumption

LEMMA KeysTellKept ==
  ASSUME IInv, SInv, NEW K, NEW C, Attempt(K, C)
  PROVE  KeysTell'
<1> SUFFICES ASSUME NEW k \in Part PROVE (shown[k] = None <=> Keys(k) = {})'
  BY DEF KeysTell
<1>1. TypeOK /\ Dispatching /\ (shown[k] = None <=> Keys(k) = {})
  BY PartStep DEF IInv, SInv, KeysTell
<1>2. Showing(feed, k) # None
  BY <1>1, ShownIsNotNone, Dispatched
<1> QED
  BY <1>1, <1>2, PartStep

\* A reply that the room has as it was typed is left alone while its hash fits.
LEMMA ReplyIsWhole ==
  ASSUME IInv, RowsTell, Dispatching, NEW k \in Part, row[k] # None, shown[k] = None,
         row[k].hash = feed.hash
  PROVE  Whole
BY DEF IInv, Typed, RowsTell, Whole

LEMMA RowsTellKept ==
  ASSUME IInv, SInv, NEW K, NEW C, Attempt(K, C)
  PROVE  RowsTell'
<1> SUFFICES ASSUME NEW k \in Part, row'[k] # None, shown'[k] = None
             PROVE  own' /\ k = 1 /\ row'[1].count = 0
  BY DEF RowsTell
<1>1. TypeOK /\ Dispatching /\ RowsTell /\ KeysTell
  BY PartStep DEF IInv, SInv
<1>2. Showing(feed, k) # None
  BY <1>1, ShownIsNotNone, Dispatched
<1>3. k \notin K /\ shown[k] = None
  BY <1>1, <1>2, PartStep DEF KeysTell
<1>4. k \notin C
  <2> SUFFICES ASSUME k \in C PROVE FALSE
    OBVIOUS
  <2>1. k \in Changes /\ k \notin Sends /\ Accepts
    BY <1>1, <1>3, PartStep
  <2>2. row[k] # None /\ ~syncEdits /\ ~Whole
    BY <1>1, <2>1, SavedRows
  <2>3. row[k].hash = feed.hash
    BY <2>1, <2>2 DEF Accepts, SameText
  <2> QED
    BY <1>1, <1>3, <2>2, <2>3, ReplyIsWhole
<1> QED
  BY <1>1, <1>3, <1>4, PartStep, AttemptLeaves DEF RowsTell

LEMMA FromSourceKept ==
  ASSUME IInv, SInv, NEW K, NEW C, Attempt(K, C)
  PROVE  FromSource'
<1>1. TypeOK /\ Dispatching /\ given' = given /\ role' = role /\ feed \in given
  BY AttemptLeaves DEF IInv, Typed, Attempt, Dispatching
<1>2. ASSUME NEW k \in Part, shown'[k] # None
      PROVE  \E v \in given : shown'[k] = Showing(v, k)
  BY <1>1, <1>2, PartStep DEF SInv, FromSource
<1>3. ASSUME NEW k \in Part, row'[k] # None
      PROVE  /\ \E v \in given : v.hash = row'[k].hash
             /\ \/ row'[k].look = None /\ role = "user"
                \/ \E v \in given : row'[k].look = Shown(v, k)
  <2>1. CASE k \notin C
    BY <1>1, <1>3, <2>1, PartStep DEF SInv, FromSource
  <2>2. CASE k \in C
    <3>1. row'[k] = NewRow(k) /\ k \in Changes
      BY <1>1, <2>2, PartStep
    <3>2. row'[k].hash = feed.hash \/ (row[k] # None /\ row'[k].hash = row[k].hash)
      BY <1>1, <3>1, SavedRows
    <3>3. \/ row'[k].look = Wanted(k) \/ (row'[k].look = None /\ role = "user")
          \/ row[k] # None /\ row'[k].look = row[k].look
      BY <1>1, <3>1, SavedRows
    <3> QED
      BY <1>1, <3>2, <3>3 DEF SInv, FromSource, Wanted
  <2> QED
    BY <2>1, <2>2
<1>4. ASSUME NEW k \in Part, NEW q \in Keys(k)', q.look # None
      PROVE  \E v \in given : q.look = Shown(v, k)
  <2>1. CASE q \in Keys(k)
    BY <1>4, <2>1 DEF SInv, FromSource
  <2>2. CASE k \in K /\ q = RequestKey(k)
    <3>1. q.look = Wanted(k)
      BY <1>1, <1>4, <2>2, PartStep, RequestKinds
    <3> QED
      BY <1>1, <3>1 DEF Wanted
  <2> QED
    BY <1>1, <1>4, <2>1, <2>2, PartStep
<1> QED
  BY <1>1, <1>2, <1>3, <1>4 DEF FromSource, Showing

LEMMA RowsRecordKept ==
  ASSUME IInv, SInv, NEW K, NEW C, Attempt(K, C)
  PROVE  RowsRecord'
<1>1. TypeOK /\ Dispatching /\ RowsRecord /\ (relooked # {} => role = "assistant")
  BY DEF IInv, SInv, Following, Attempt
<1>2. UNCHANGED <<role, returned>>
  BY AttemptLeaves
<1>3. ASSUME NEW k \in Part, k \notin unrecorded', row'[k] = None
      PROVE  shown'[k] = None
  <2>1. k \notin C
    BY <1>1, <1>3, PartStep, SavedRows
  <2> QED
    BY <1>1, <1>3, <2>1, PartStep DEF RowsRecord
<1>4. ASSUME NEW k \in Part, Traced(k)', row'[k] # None, shown'[k] # None
      PROVE  /\ shown'[k].hash = row'[k].hash
             /\ role = "user" \/ row'[k].look = shown'[k].look
  <2>1. k \notin unrecorded' /\ k \notin unrecorded /\ Traced(k) /\ (k \in relooked' => k \notin returned)
    BY <1>1, <1>2, <1>4, PartStep DEF Traced
  <2>2. CASE k \notin K /\ k \notin C
    BY <1>1, <1>4, <2>1, <2>2, PartStep DEF RowsRecord
  <2>3. CASE k \notin K /\ k \in C
    <3>1. k \notin Sends /\ row'[k] = NewRow(k) /\ shown'[k] = shown[k] /\ k \in Changes
      BY <1>1, <2>3, PartStep
    <3>2. row[k] # None /\ row'[k].hash = row[k].hash /\ row'[k].look = row[k].look
      BY <1>1, <3>1, SavedRows
    <3> QED
      BY <1>1, <1>4, <2>1, <3>1, <3>2 DEF RowsRecord
  <2>4. CASE k \in K
    <3>1. k \in C /\ k \in Sends /\ k \in Changes /\ row'[k] = NewRow(k)
      BY <1>1, <2>1, <2>4, PartStep
    <3>2. k \in relooked \/ (row[k] # None /\ ~syncEdits) => k \notin returned
      BY <1>1, <2>1, <2>4, PartStep
    <3>3. RequestKey(k) \notin Keys(k)
      BY <1>1, <2>1, <3>1, <3>2, RequestIsFresh DEF SInv
    <3>4. shown'[k] = Showing(feed, k)
      BY <1>1, <2>4, <3>3, PartStep
    <3>5. row'[k].hash = feed.hash /\ (role = "user" \/ row'[k].look = Wanted(k))
      BY <1>1, <3>1, SavedRows
    <3> QED
      BY <3>4, <3>5 DEF Showing, Wanted
  <2> QED
    BY <2>2, <2>3, <2>4
<1> QED
  BY <1>2, <1>3, <1>4 DEF RowsRecord

LEMMA LongEnoughKept ==
  ASSUME IInv, SInv, NEW K, NEW C, Attempt(K, C)
  PROVE  LongEnough'
<1> SUFFICES ASSUME NEW k \in Part \ {1}, row'[k] # None, row'[k].look # Tombstone
             PROVE  row'[k].count >= k
  BY DEF LongEnough
<1>1. TypeOK /\ Dispatching /\ k \in Nat /\ k > 1 /\ Count \in Nat /\ next <= Count
  BY Dispatched, BoundAssumption DEF IInv, Attempt, Part
<1>2. CASE k \notin C
  BY <1>1, <1>2, PartStep DEF SInv, LongEnough
<1>3. CASE k \in C
  <2>1. k \in Changes /\ row'[k] = NewRow(k)
    BY <1>1, <1>3, PartStep
  <2>2. k <= Count => row'[k].count = Count
    BY <1>1, <2>1, SavedRows
  <2>3. k = next \/ row'[k].look = Wanted(k)
    BY <1>1, <2>1, SavedRows
  <2>4. k <= Count
    BY <1>1, <2>3 DEF Wanted, Shown, Count
  <2> QED
    BY <1>1, <2>2, <2>4
<1> QED
  BY <1>2, <1>3

LEMMA FreshEditsKept ==
  ASSUME IInv, SInv, NEW K, NEW C, Attempt(K, C)
  PROVE  FreshEdits'
<1> SUFFICES ASSUME NEW k \in Part, k \notin unrecorded' \cup relooked', NEW q \in Keys(k)'
             PROVE  q.generation <= row'[k].generation
  BY DEF FreshEdits
<1>1. TypeOK /\ Dispatching /\ k \notin unrecorded \cup relooked /\ (k \in K => k \in C)
  BY PartStep DEF IInv, SInv, Attempt
<1>2. \A p \in Keys(k) : p.generation <= row[k].generation /\ p.generation \in Nat
  BY <1>1 DEF SInv, FreshEdits, Keys, TypeOK, Key
<1>3. row[k] = None => Keys(k) = {}
  BY <1>1 DEF SInv, RowsRecord, KeysTell
<1>4. row[k] # None => row[k].generation \in Nat
  BY <1>1 DEF TypeOK, Row
<1>5. CASE k \notin C
  BY <1>1, <1>2, <1>5, PartStep
<1>6. CASE k \in C /\ k \notin K
  <2>1. k \in Changes /\ k \notin Sends /\ row'[k] = NewRow(k) /\ q \in Keys(k)
    BY <1>1, <1>6, PartStep
  <2>2. row'[k].generation = row[k].generation
    BY <1>1, <2>1, SavedRows
  <2> QED
    BY <1>2, <2>1, <2>2
<1>7. CASE k \in C /\ k \in K
  <2>1. /\ k \in Changes /\ k \in Sends /\ row'[k] = NewRow(k)
        /\ q \in Keys(k) \/ q = RequestKey(k)
        /\ row[k] = None \/ syncEdits
    BY <1>1, <1>7, PartStep
  <2>2. CASE row[k] = None
    <3>1. q = RequestKey(k)
      BY <1>3, <2>1, <2>2
    <3>2. q.generation = 0 /\ row'[k].generation = 0
      BY <1>1, <2>1, <2>2, <3>1, SavedRows, RequestKinds
    <3> QED
      BY <3>2
  <2>3. CASE row[k] # None
    <3>1. row'[k].generation = row[k].generation + 1
      BY <1>1, <2>1, <2>3, SavedRows
    <3>2. q = RequestKey(k) => q.generation = row[k].generation + 1
      BY <1>1, <2>1, <2>3, RequestKinds
    <3> QED
      BY <1>2, <1>4, <2>1, <2>3, <3>1, <3>2
  <2> QED
    BY <2>2, <2>3
<1> QED
  BY <1>1, <1>5, <1>6, <1>7

LEMMA FreshLooksKept ==
  ASSUME IInv, SInv, NEW K, NEW C, Attempt(K, C)
  PROVE  FreshLooks'
<1> SUFFICES ASSUME NEW k \in Part, k \notin unrecorded' \cup returned', role' = "assistant",
                    NEW q \in Keys(k)', q.look # None
             PROVE  \/ q.look = row'[k].look /\ q.generation <= row'[k].generation
                    \/ q.look # Shown(version', k) /\ (feed' # None => q.look # Shown(feed', k))
  BY DEF FreshLooks
<1>1. /\ TypeOK /\ Dispatching /\ role = "assistant" /\ feed # None
      /\ k \notin unrecorded /\ k \notin returned /\ (k \in K => k \in C)
      /\ version' = version /\ (feed' = feed \/ feed' = None)
  BY PartStep, AttemptLeaves DEF IInv, SInv, Attempt, Dispatching
<1>2. row[k] = None => Keys(k) = {}
  BY <1>1 DEF SInv, RowsRecord, KeysTell
<1>3. row[k] # None => row[k].generation \in Nat
  BY <1>1 DEF TypeOK, Row
<1>4. ASSUME q \in Keys(k)
      PROVE  \/ q.look = row[k].look /\ q.generation <= row[k].generation /\ q.generation \in Nat
             \/ q.look # Shown(version, k) /\ q.look # Shown(feed, k)
  BY <1>1, <1>4 DEF SInv, FreshLooks, Keys, TypeOK, Key
<1>5. CASE k \notin C
  BY <1>1, <1>4, <1>5, PartStep
<1>6. CASE k \in C /\ k \notin K
  <2>1. k \in Changes /\ k \notin Sends /\ row'[k] = NewRow(k) /\ q \in Keys(k)
    BY <1>1, <1>6, PartStep
  <2>2. row'[k].generation = row[k].generation /\ row'[k].look = row[k].look
    BY <1>1, <2>1, SavedRows
  <2> QED
    BY <1>1, <1>4, <2>1, <2>2
<1>7. CASE k \in C /\ k \in K
  <2>1. /\ k \in Changes /\ k \in Sends /\ row'[k] = NewRow(k)
        /\ q \in Keys(k) \/ q = RequestKey(k)
    BY <1>1, <1>7, PartStep
  <2>2. row'[k].look = Wanted(k) /\ Wanted(k) = Shown(feed, k)
    BY <1>1, <2>1, SavedRows DEF Wanted
  <2>3. CASE q = RequestKey(k)
    <3>1. q.look = Wanted(k) /\ q.generation = row'[k].generation /\ q.generation \in Nat
      BY <1>1, <1>3, <2>1, <2>3, SavedRows, RequestKinds
    <3> QED
      BY <2>2, <3>1
  <2>4. CASE q \in Keys(k) /\ q.look = row[k].look /\ row[k].look = Wanted(k)
    <3>1. row[k] # None /\ Presented(k)
      BY <1>2, <2>4 DEF Presented
    <3>2. row'[k].generation = row[k].generation + 1
      BY <1>1, <2>1, <3>1, SavedRows
    <3>3. q.generation <= row[k].generation /\ q.generation \in Nat
      BY <1>4, <2>2, <2>4
    <3> QED
      BY <1>3, <2>2, <2>4, <3>1, <3>2, <3>3
  <2>5. CASE q \in Keys(k) /\ ~(q.look = row[k].look /\ row[k].look = Wanted(k))
    <3>1. row[k] # None
      BY <1>2, <2>5
    <3>2. q.look # Shown(feed, k)
      BY <1>4, <2>2, <2>5
    <3>3. q.look # Shown(version, k)
      <4>1. CASE Shown(version, k) = Shown(feed, k)
        BY <3>2, <4>1
      <4>2. CASE Shown(version, k) # Shown(feed, k)
        BY <1>1, <2>5, <4>2 DEF SInv, NotYetAsked
      <4> QED
        BY <4>1, <4>2
    <3> QED
      BY <1>1, <3>2, <3>3
  <2> QED
    BY <2>1, <2>3, <2>4, <2>5
<1> QED
  BY <1>1, <1>5, <1>6, <1>7

LEMMA NotYetAskedKept ==
  ASSUME IInv, SInv, NEW K, NEW C, Attempt(K, C)
  PROVE  NotYetAsked'
<1> SUFFICES ASSUME NEW k \in Part, feed' # None, k \notin returned',
                    Shown(version', k) # Shown(feed', k)
             PROVE  /\ \A q \in Keys(k)' : q.look # Shown(version', k)
                    /\ row'[k] # None => row'[k].look # Shown(version', k)
  BY DEF NotYetAsked
<1>1. /\ TypeOK /\ Dispatching /\ feed # None /\ feed' = feed /\ version' = version
      /\ k \notin returned /\ Shown(version, k) # Shown(feed, k)
  BY AttemptLeaves DEF IInv, SInv, Attempt, Dispatching
<1>2. /\ \A q \in Keys(k) : q.look # Shown(version, k)
      /\ row[k] # None => row[k].look # Shown(version, k)
  BY <1>1 DEF SInv, NotYetAsked
<1>3. Shown(version, k) # None /\ Shown(version, k) # Wanted(k)
  BY <1>1, RoleVersions, VersionParts, NoneAssumption DEF Wanted, TypeOK
<1>4. k \in K => RequestKey(k).look \in {None, Wanted(k)}
  BY <1>1, PartStep, RequestKinds
<1>5. ASSUME k \in C
      PROVE  row'[k].look \in {None, Wanted(k)} \/ (row[k] # None /\ row'[k].look = row[k].look)
  <2>1. k \in Changes /\ row'[k] = NewRow(k)
    BY <1>1, <1>5, PartStep
  <2> QED
    BY <1>1, <2>1, SavedRows
<1>6. row'[k] # None => row'[k].look # Shown(version, k)
  BY <1>1, <1>2, <1>3, <1>5, PartStep
<1>7. \A q \in Keys(k)' : q.look # Shown(version, k)
  BY <1>1, <1>2, <1>3, <1>4, PartStep
<1> QED
  BY <1>1, <1>6, <1>7

-----------------------------------------------------------------------------
\* Operator's messages: the hash decides the parts.
LEMMA PlainVersion ==
  ASSUME IInv, Following, role = "user", feed # None, NEW v \in given, v.hash = feed.hash
  PROVE  v = feed
BY PlainAssumption DEF IInv, Typed, TypeOK, Following, Versions

\* The rows that an attempt at an operator's message changes.
LEMMA FirstRow ==
  ASSUME IInv, SInv, NEW K, NEW C, Attempt(K, C), role = "user", 1 \in C
  PROVE  /\ row'[1] # None
         /\ \/ row[1] = None /\ row'[1].count = IF Count > 1 THEN Count ELSE 0
            \/ row'[1].count = Count /\ Count > 0
         /\ row[1] = None => row'[1].hash = feed.hash
<1>1. TypeOK /\ Dispatching /\ 1 \in Part /\ Count > 0
  BY Dispatched, BoundAssumption DEF IInv, Attempt, Part
<1>2. 1 \in Changes /\ row'[1] = NewRow(1)
  BY <1>1, PartStep
<1> QED
  BY <1>1, <1>2, SavedRows DEF Presented

LEMMA WholeRowsKept ==
  ASSUME IInv, SInv, NEW K, NEW C, Attempt(K, C)
  PROVE  WholeRows'
<1> SUFFICES ASSUME role' = "user" PROVE WholeRows'
  BY DEF WholeRows
<1>1. /\ TypeOK /\ Dispatching /\ 1 \in Part /\ role = "user" /\ own' = own
      /\ Count \in Nat /\ Count > 0
  BY Dispatched, AttemptLeaves, BoundAssumption DEF IInv, Attempt, Part
<1>2. 1 \notin unrecorded' => 1 \notin unrecorded /\ (1 \in K => 1 \in C)
  BY <1>1, PartStep
<1>3. row'[1] = None \/ row'[1].count = 0 => row[1] = None \/ (row[1].count = 0 /\ 1 \notin C)
  <2>1. CASE 1 \in C
    BY <1>1, <2>1, FirstRow
  <2>2. CASE 1 \notin C
    BY <1>1, <2>2, PartStep
  <2> QED
    BY <2>1, <2>2
<1>4. ASSUME 1 \notin unrecorded', row'[1] = None \/ row'[1].count = 0
      PROVE  (\A k \in Part \ {1} : row'[k] = None /\ shown'[k] = None) /\ (own => used' = {})
  <2>1. /\ \A k \in Part \ {1} : row[k] = None /\ shown[k] = None
        /\ own => used = {}
    BY <1>1, <1>2, <1>3, <1>4 DEF SInv, WholeRows
  <2>2. ASSUME NEW k \in Part \ {1} PROVE k \notin K /\ k \notin C
    <3>1. CASE Whole
      BY <1>1, <3>1, PartStep, WholeIsLeft
    <3>2. CASE ~Whole
      <4>1. next = 1
        <5>1. next \in Nat /\ (next = 1 \/ next > 1)
          BY <1>1, Dispatched, BoundAssumption DEF Part
        <5>2. next > 1 => Whole
          BY <1>1, <1>2, <1>3, <1>4 DEF SInv, FirstHandled, Whole, Dispatching
        <5> QED
          BY <3>2, <5>1, <5>2
      <4>2. k \notin Sends /\ k \notin Changes
        BY <2>1, <4>1 DEF Sends, Changes, Superseded
      <4> QED
        BY <1>1, <4>2, PartStep
    <3> QED
      BY <3>1, <3>2
  <2>3. own => 1 \notin K
    BY <1>1, <1>2, <1>3, <1>4 DEF SInv, Following
  <2>4. own => K = {}
    BY <1>1, <2>2, <2>3, Dispatched DEF Attempt
  <2>5. own => used' = {}
    BY <2>1, <2>4 DEF Attempt, Run
  <2> QED
    BY <1>1, <2>1, <2>2, <2>5, PartStep
<1>5. ASSUME ~own, row'[1] # None, row'[1].count = 0, NEW v \in Plain, v.hash = row'[1].hash
      PROVE  Len(v.parts) = 1
  <2>1. CASE 1 \notin C
    BY <1>1, <1>5, <2>1, PartStep DEF SInv, WholeRows
  <2>2. CASE 1 \in C
    <3>1. v.hash = feed.hash /\ ~(Count > 1)
      BY <1>1, <1>5, <2>2, FirstRow
    <3>2. feed \in Plain
      BY <1>1 DEF TypeOK, Versions, Dispatching
    <3>3. v = feed
      BY <3>1, <3>2, PlainAssumption
    <3>4. Count = 1
      BY <1>1, <3>1
    <3> QED
      BY <3>3, <3>4 DEF Count
  <2> QED
    BY <2>1, <2>2
<1> QED
  BY <1>1, <1>4, <1>5 DEF WholeRows

LEMMA FirstHandledKept ==
  ASSUME IInv, SInv, NEW K, NEW C, Attempt(K, C)
  PROVE  FirstHandled'
<1> SUFFICES ASSUME role' = "user", feed' # None, next' > 1, 1 \notin unrecorded'
             PROVE  row'[1] # None /\ (row'[1].count = 0 => row'[1].hash = feed'.hash)
  BY DEF FirstHandled
<1>1. /\ TypeOK /\ Dispatching /\ 1 \in Part /\ role = "user" /\ feed # None /\ feed' = feed
      /\ K = Sends /\ Accepts /\ next \in Part /\ next \in Nat
  BY Dispatched, AttemptLeaves, BoundAssumption DEF IInv, Attempt, Part, Dispatching
<1>2. 1 \notin unrecorded /\ (1 \in Sends => 1 \in C)
  BY <1>1, PartStep
<1>3. CASE Whole
  <2>1. row'[1] = row[1]
    BY <1>1, <1>3, PartStep, WholeIsLeft
  <2> QED
    BY <1>1, <1>3, <2>1 DEF Whole
<1>4. CASE ~Whole /\ next # 1
  <2>1. row[1] # None /\ (row[1].count = 0 => row[1].hash = feed.hash) /\ next > 1
    BY <1>1, <1>2, <1>4, BoundAssumption DEF SInv, FirstHandled, Part
  <2>2. 1 \notin Changes
    BY <1>4 DEF Changes, Sends, Superseded
  <2> QED
    BY <1>1, <2>1, <2>2, PartStep
<1>5. CASE ~Whole /\ next = 1
  <2>1. CASE 1 \in Sends
    <3>1. row'[1] = NewRow(1) /\ 1 \in Changes
      BY <1>1, <1>2, <2>1, PartStep
    <3>2. row'[1] # None /\ row'[1].hash = feed.hash
      BY <1>1, <2>1, <3>1, SavedRows
    <3> QED
      BY <1>1, <3>2
  <2>2. CASE 1 \notin Sends
    <3>1. row[1] # None /\ (syncEdits => Reconciled(1))
      BY <1>1, <1>5, <2>2 DEF Sends
    <3>2. row[1].hash = feed.hash
      BY <1>1, <1>5, <3>1 DEF Reconciled, Accepts, SameText
    <3>3. row'[1] # None /\ row'[1].hash = row[1].hash
      <4>1. CASE 1 \in C
        BY <1>1, <2>2, <4>1, PartStep, SavedRows
      <4>2. CASE 1 \notin C
        BY <1>1, <3>1, <4>2, PartStep
      <4> QED
        BY <4>1, <4>2
    <3> QED
      BY <1>1, <3>2, <3>3
  <2> QED
    BY <2>1, <2>2
<1> QED
  BY <1>3, <1>4, <1>5

-----------------------------------------------------------------------------
LEMMA FollowingKept ==
  ASSUME IInv, SInv, NEW K, NEW C, Attempt(K, C)
  PROVE  Following'
<1>1. /\ TypeOK /\ Dispatching /\ Following /\ K \subseteq Part /\ 1 \in Part
      /\ UNCHANGED <<role, own, version, revision, delivered, syncEdits, returned, given>>
      /\ \/ feed' = feed /\ feedRevision' = feedRevision
         \/ feed' = None
  BY Dispatched, AttemptLeaves, BoundAssumption DEF IInv, SInv, Attempt, Part
<1>2. relooked' # {} => role = "assistant"
  <2> SUFFICES ASSUME NEW k \in relooked', relooked = {} PROVE role = "assistant"
    BY <1>1 DEF Following
  <2>1. k \in Part
    BY <1>1 DEF Attempt, Run
  <2>2. k \in Sends /\ row[k] # None /\ ~syncEdits
    BY <1>1, <2>1, PartStep
  <2>3. ~Presented(k)
    BY <1>1, <2>2, RequestKinds
  <2> QED
    BY <1>1, <2>3 DEF Presented, TypeOK
<1>3. own => row'[1] # None
  BY <1>1, PartStep, SavedRows DEF Following
<1> QED
  BY <1>1, <1>2, <1>3 DEF Following

\* An unexcused part that needs no request already shows the message.
LEMMA NeedsNoRequest ==
  ASSUME IInv, SInv, Dispatching, Accepts, ~Whole, NEW k \in Part, k \notin Sends,
         k = next \/ (next = 1 /\ k > Count), Traced(k)
  PROVE  shown[k] = Showing(feed, k) \/ (shown[k] = None /\ k > Count)
<1>1. /\ TypeOK /\ next \in 1 .. Count /\ feed # None /\ feed \in given /\ Count \in Nat /\ k \in Nat
      /\ k \notin unrecorded
  BY Dispatched, BoundAssumption DEF IInv, Typed, Dispatching, Part, Traced
<1>2. CASE row[k] = None
  BY <1>1, <1>2 DEF Sends, SInv, RowsRecord
<1>3. CASE row[k] # None
  <2>1. IF syncEdits THEN Reconciled(k) ELSE k = next => Presented(k)
    BY <1>1, <1>3 DEF Sends, Superseded
  <2>2. row[k].hash = feed.hash
    BY <1>3, <2>1 DEF Reconciled, Accepts, SameText
  <2>3. shown[k] # None
    BY <1>3, <2>2, ReplyIsWhole DEF SInv
  <2>4. shown[k].hash = feed.hash
    BY <1>3, <2>2, <2>3 DEF SInv, RowsRecord
  <2>5. PICK v \in given : shown[k] = Showing(v, k)
    BY <2>3 DEF SInv, FromSource
  <2>6. CASE role = "user"
    <3>1. v = feed
      BY <1>1, <2>4, <2>5, <2>6, PlainVersion DEF SInv, Showing
    <3> QED
      BY <2>5, <3>1
  <2>7. CASE role = "assistant"
    <3>1. shown[k].look = row[k].look
      BY <1>3, <2>3, <2>7 DEF SInv, RowsRecord
    <3>2. row[k].look = Wanted(k)
      <4>1. CASE syncEdits \/ k = next
        BY <2>1, <2>7, <4>1 DEF Reconciled, Presented
      <4>2. CASE ~syncEdits /\ k # next
        <5>1. k > Count /\ k # 1 /\ (row[k].count <= 1 \/ row[k].count = Count)
          BY <1>1, <1>3, <4>2 DEF Accepts, SameText
        <5>2. row[k].count \in Nat
          BY <1>1, <1>3, BoundAssumption DEF TypeOK, Row
        <5>3. ~(row[k].count >= k)
          BY <1>1, <5>1, <5>2
        <5>4. row[k].look = Tombstone
          BY <1>3, <5>1, <5>3 DEF SInv, LongEnough
        <5> QED
          BY <1>1, <5>1, <5>4 DEF Wanted, Shown, Count
      <4> QED
        BY <4>1, <4>2
    <3> QED
      BY <2>4, <2>5, <3>1, <3>2 DEF Showing, Wanted
  <2> QED
    BY <1>1, <2>6, <2>7 DEF TypeOK
<1> QED
  BY <1>2, <1>3

\* A message left as it was typed, or shown by the one event it has.
LEMMA WholeIsShown ==
  ASSUME IInv, SInv, Dispatching, Whole
  PROVE  Untouched \/ \A k \in Part : Settled(k)
<1>1. /\ TypeOK /\ role = "user" /\ row[1] # None /\ row[1].count = 0 /\ row[1].hash = feed.hash
      /\ feed # None /\ feed \in given /\ 1 \in Part /\ version \in given /\ Following
  BY BoundAssumption DEF IInv, SInv, Typed, Dispatching, Whole, Part
<1>2. feed \in Plain
  BY <1>1 DEF TypeOK, Versions
<1>3. CASE own
  <2>1. CASE 1 \notin unrecorded \/ given = {version}
    BY <1>1, <1>3, <2>1 DEF SInv, WholeRows, IInv, Typed, Untouched
  <2>2. CASE 1 \in unrecorded /\ given # {version}
    BY <1>1, <2>2 DEF Settled, Excused
  <2> QED
    BY <2>1, <2>2
<1>4. CASE ~own
  <2>1. Count = 1
    BY <1>1, <1>2, <1>4 DEF SInv, WholeRows, Count
  <2>2. shown[1] # None
    BY <1>1, <1>4 DEF SInv, RowsTell
  <2>3. CASE 1 \in unrecorded /\ given # {version}
    BY <1>1, <2>3 DEF Settled, Excused
  <2>4. CASE given = {version}
    <3>1. \A k \in Part : shown[k] = None \/ shown[k] = Showing(feed, k)
      BY <1>1, <2>4 DEF SInv, FromSource
    <3>2. \A k \in Part : k = 1 \/ k > Count
      BY <2>1, BoundAssumption DEF Part
    <3> QED
      BY <2>2, <3>1, <3>2 DEF Settled
  <2>5. CASE 1 \notin unrecorded
    <3>1. \A k \in Part \ {1} : shown[k] = None /\ k > Count
      BY <1>1, <2>1, <2>5, BoundAssumption DEF SInv, WholeRows, Part
    <3>2. Traced(1)
      BY <1>1, <2>5 DEF Following, Traced
    <3>3. shown[1].hash = feed.hash
      BY <1>1, <2>2, <3>2 DEF SInv, RowsRecord
    <3>4. PICK v \in given : shown[1] = Showing(v, 1)
      BY <1>1, <2>2 DEF SInv, FromSource
    <3>5. v = feed
      BY <1>1, <3>3, <3>4, PlainVersion DEF Showing
    <3> QED
      BY <3>1, <3>4, <3>5 DEF Settled
  <2> QED
    BY <2>3, <2>4, <2>5
<1> QED
  BY <1>3, <1>4

LEMMA ProgressKept ==
  ASSUME IInv, SInv, NEW K, NEW C, Attempt(K, C), KeysTell', FromSource'
  PROVE  Progress'
<1> SUFFICES ASSUME feed' # None
             PROVE  \/ Untouched'
                    \/ \A k \in Part : k < next + 1 \/ k > Count => Settled(k)'
  BY AttemptLeaves DEF Progress, Count
<1>1. /\ TypeOK /\ Dispatching /\ Following /\ feed' = feed /\ K = Sends /\ Accepts
      /\ UNCHANGED <<role, own, version, given, returned>>
      /\ feed \in given /\ version \in given /\ 1 \in Part
      /\ next \in Nat /\ Count \in Nat /\ next <= Count /\ next >= 1 /\ next \in Part
  BY Dispatched, AttemptLeaves, BoundAssumption DEF IInv, SInv, Typed, Attempt, Part, Dispatching
<1>2. \A k \in Part : Settled(k)' <=> \/ shown'[k] = Showing(feed, k)
                                      \/ shown'[k] = None /\ k > Count
                                      \/ Excused(k)'
  BY <1>1 DEF Settled, Showing, Count
<1>3. ASSUME NEW k \in Part, Excused(k) PROVE Excused(k)'
  BY <1>1, <1>3, PartStep DEF Excused
<1>4. CASE Whole
  <2>1. K = {} /\ Changes = {}
    BY <1>1, <1>4, WholeIsLeft
  <2>2. used' = used /\ row'[1] = row[1] /\ \A k \in Part : shown'[k] = shown[k]
    BY <1>1, <2>1, PartStep DEF Attempt, Run
  <2>3. Untouched => Untouched'
    BY <1>1, <2>2 DEF Untouched
  <2>4. \A k \in Part : Settled(k) => Settled(k)'
    BY <1>2, <1>3, <2>2 DEF Settled
  <2> QED
    BY <1>1, <1>4, <2>3, <2>4, WholeIsShown
<1>5. CASE ~Whole
  <2> SUFFICES ASSUME NEW k \in Part, k < next + 1 \/ k > Count, ~Excused(k)'
               PROVE  shown'[k] = Showing(feed, k) \/ (shown'[k] = None /\ k > Count)
    BY <1>2
  <2>1. k \in Nat /\ (k > Count \/ k = next \/ k < next)
    BY <1>1, BoundAssumption DEF Part
  <2>2. \A j \in Part : row[j] # None /\ row[j].hash = feed.hash => shown[j] # None
    BY <1>1, <1>5, ReplyIsWhole DEF SInv
  <2>3. CASE given = {version}
    <3>1. shown'[k] = None \/ shown'[k] = Showing(feed, k)
      BY <1>1, <2>3 DEF FromSource, Showing
    <3>2. \A j \in Part : row[j] # None => row[j].hash = feed.hash
      BY <1>1, <2>3 DEF SInv, FromSource
    <3>3. Keys(k) # {} => shown'[k] # None
      BY <1>1, PartStep DEF KeysTell
    <3>4. CASE k = next
      <4>1. row[k] = None => k \in K
        BY <1>1, <1>5, <3>4 DEF Sends
      <4>2. k \in K => Keys(k)' # {}
        BY <1>1, PartStep
      <4>3. row[k] # None => Keys(k) # {}
        BY <2>2, <3>2 DEF SInv, KeysTell
      <4>4. shown'[k] # None
        BY <3>3, <4>1, <4>2, <4>3 DEF KeysTell
      <4> QED
        BY <3>1, <4>4
    <3>5. CASE k < next
      <4>1. k \in 1 .. next - 1
        BY <1>1, <2>1, <3>5, BoundAssumption DEF Part
      <4>2. Posted(k) \/ (own /\ k = 1)
        BY <1>1, <1>5, <4>1 DEF IInv, Behind, Before, Dispatching
      <4>3. Posted(k) => Keys(k) # {}
        BY DEF Posted, PostKey, Keys
      <4>4. own => Keys(1) # {}
        BY <1>1, <2>2, <3>2 DEF Following, SInv, KeysTell
      <4> QED
        BY <3>1, <3>3, <4>2, <4>3, <4>4
    <3> QED
      BY <2>1, <3>1, <3>4, <3>5
  <2>4. CASE given # {version}
    <3>1. /\ k \notin unrecorded' /\ (k \in relooked' => k \notin returned)
          /\ ~Excused(k) /\ Traced(k)
      BY <1>1, <1>3, <2>4, PartStep DEF Excused, Traced
    <3>2. CASE k = next \/ (next = 1 /\ k > Count)
      <4>1. CASE k \notin Sends
        BY <1>1, <1>5, <3>1, <3>2, <4>1, PartStep, NeedsNoRequest
      <4>2. CASE k \in Sends
        <5>1. k \in relooked \/ (row[k] # None /\ ~syncEdits) => k \notin returned
          BY <1>1, <3>1, <4>2, PartStep
        <5>2. RequestKey(k) \notin Keys(k)
          BY <1>1, <3>1, <4>2, <5>1, RequestIsFresh DEF SInv, Following, Traced
        <5> QED
          BY <1>1, <4>2, <5>2, PartStep
      <4> QED
        BY <4>1, <4>2
    <3>3. CASE k # next /\ next # 1
      <4>1. k \notin K /\ next > 1
        BY <1>1, <3>3 DEF Sends, Superseded
      <4>2. shown'[k] = shown[k]
        BY <1>1, <4>1, PartStep
      <4>3. ~Untouched
        <5>1. Untouched => Keys(1) = {}
          BY DEF Untouched, Keys
        <5> QED
          BY <1>1, <2>2, <5>1 DEF Untouched, SInv, KeysTell, Following
      <4>4. Settled(k)
        BY <1>1, <2>1, <3>3, <4>1, <4>3 DEF SInv, Progress
      <4> QED
        BY <3>1, <4>2, <4>4 DEF Settled
    <3> QED
      BY <1>1, <2>1, <3>2, <3>3, BoundAssumption DEF Part
  <2> QED
    BY <2>3, <2>4
<1> QED
  BY <1>4, <1>5

\* Nothing is dispatched while the latest revision counts as delivered.
LEMMA AttemptKeepsShown ==
  ASSUME IInv, SInv, NEW K, NEW C, Attempt(K, C)
  PROVE  SInv'
<1>1. DeliveredIsShown'
  <2>1. delivered # revision /\ delivered' = delivered /\ revision' = revision
    BY AttemptLeaves DEF SInv, Following, Attempt, Dispatching
  <2> QED
    BY <2>1 DEF DeliveredIsShown
<1> QED
  BY <1>1, FollowingKept, KeysTellKept, RowsTellKept, FromSourceKept, RowsRecordKept,
     LongEnoughKept, FreshEditsKept, FreshLooksKept, NotYetAskedKept, WholeRowsKept,
     FirstHandledKept, ProgressKept DEF SInv

-----------------------------------------------------------------------------
\* A change of the source: what was asked for before is not what it has now,
\* unless the content of the part returned.
LEMMA SourceKeepsShown ==
  ASSUME IInv, SInv, NEW v \in Versions(role), SourceChanges(v)
  PROVE  SInv'
<1>1. /\ TypeOK /\ Following
      /\ UNCHANGED <<role, own, used, shown, posted, row, delivered, syncEdits, feed, feedRevision,
                     next, relooked, unrecorded>>
      /\ version' = v /\ v # version /\ revision' = revision + 1 /\ given' = given \cup {v}
      /\ version \in given /\ returned \subseteq returned' /\ revision \in Nat
      /\ \A k \in Part : Keys(k)' = Keys(k)
  BY DEF IInv, SInv, Typed, TypeOK, SourceChanges, room, poll, Keys
<1>2. ASSUME NEW k \in Part, k \notin returned'
      PROVE  \/ Shown(v, k) = Shown(version, k)
             \/ \A w \in given : Shown(w, k) # Shown(v, k)
  BY <1>2 DEF SourceChanges
<1>3. given' # {version'} /\ \A k \in Part : Excused(k) => Excused(k)'
  BY <1>1 DEF Excused
<1>4. delivered' # revision'
  <2>1. revision + 1 \in Nat /\ ~(revision + 1 <= revision)
    BY <1>1
  <2>2. delivered # revision + 1
    BY <1>1, <2>1, NoneAssumption DEF Following
  <2> QED
    BY <1>1, <2>2
<1>5. Following'
  BY <1>1, <1>3, <1>4 DEF Following, TypeOK
<1>6. KeysTell' /\ RowsTell' /\ LongEnough' /\ FreshEdits' /\ WholeRows' /\ FirstHandled'
  BY <1>1 DEF SInv, KeysTell, RowsTell, LongEnough, FreshEdits, WholeRows, FirstHandled
<1>7. FromSource'
  BY <1>1 DEF SInv, FromSource
<1>8. RowsRecord'
  BY <1>1 DEF SInv, RowsRecord, Traced
<1>9. ASSUME NEW k \in Part, k \notin returned', Shown(v, k) # Shown(version, k)
      PROVE  /\ \A q \in Keys(k) : q.look # Shown(v, k)
             /\ row[k] # None => row[k].look # Shown(v, k)
  <2>1. Shown(v, k) # None
    BY RoleVersions, VersionParts, NoneAssumption
  <2> QED
    BY <1>2, <1>9, <2>1 DEF SInv, FromSource
<1>10. FreshLooks'
  <2> SUFFICES ASSUME NEW k \in Part, k \notin unrecorded \cup returned', role = "assistant",
                      NEW q \in Keys(k), q.look # None,
                      ~(q.look = row[k].look /\ q.generation <= row[k].generation)
               PROVE  q.look # Shown(v, k) /\ (feed # None => q.look # Shown(feed, k))
    BY <1>1 DEF FreshLooks
  <2>1. q.look # Shown(version, k) /\ (feed # None => q.look # Shown(feed, k))
    BY <1>1 DEF SInv, FreshLooks
  <2> QED
    BY <1>9, <2>1
<1>11. NotYetAsked'
  <2> SUFFICES ASSUME NEW k \in Part, feed # None, k \notin returned', Shown(v, k) # Shown(feed, k)
               PROVE  /\ \A q \in Keys(k) : q.look # Shown(v, k)
                      /\ row[k] # None => row[k].look # Shown(v, k)
    BY <1>1 DEF NotYetAsked
  <2>1. CASE Shown(v, k) = Shown(version, k)
    BY <1>1, <2>1 DEF SInv, NotYetAsked
  <2> QED
    BY <1>9, <2>1
<1>12. Progress'
  BY <1>1, <1>3 DEF SInv, Progress, Settled, Untouched, Count
<1>13. DeliveredIsShown'
  BY <1>4 DEF DeliveredIsShown
<1> QED
  BY <1>5, <1>6, <1>7, <1>8, <1>10, <1>11, <1>12, <1>13 DEF SInv

\* A poll starts, ends or is cut off; what is shown and recorded stays.
LEMMA PollKeepsShown ==
  ASSUME IInv, SInv, Read \/ Restart \/ SaveDelivered \/ UNCHANGED vars
  PROVE  SInv'
<1>1. /\ TypeOK /\ Following /\ version \in given
      /\ UNCHANGED <<role, own, version, revision, used, shown, row, returned, given, relooked, unrecorded>>
      /\ \A k \in Part : Keys(k)' = Keys(k) /\ (Excused(k)' <=> Excused(k))
  BY DEF IInv, SInv, Typed, Read, Restart, SaveDelivered, vars, source, room, past, Keys, Excused
<1>2. KeysTell' /\ RowsTell' /\ FromSource' /\ RowsRecord' /\ LongEnough' /\ FreshEdits' /\ WholeRows'
  BY <1>1 DEF SInv, KeysTell, RowsTell, FromSource, RowsRecord, Traced, LongEnough, FreshEdits, WholeRows
<1>3. CASE Read
  <2>1. delivered # revision /\ delivered' = delivered /\ feed' = version /\ feedRevision' = revision
        /\ next' = 1 /\ version # None
    BY <1>1, <1>3, RoleVersions, NoneAssumption DEF Read, TypeOK
  <2>2. Following' /\ DeliveredIsShown'
    BY <1>1, <2>1 DEF Following, DeliveredIsShown, TypeOK
  <2>3. FreshLooks' /\ NotYetAsked'
    BY <1>1, <2>1 DEF SInv, FreshLooks, NotYetAsked
  <2>4. FirstHandled' /\ Progress'
    BY <2>1 DEF FirstHandled, Progress
  <2> QED
    BY <1>2, <2>2, <2>3, <2>4 DEF SInv
<1>4. CASE Restart
  <2>1. delivered' = delivered /\ feed' = None
    BY <1>4 DEF Restart, Stop
  <2> QED
    BY <1>1, <1>2, <2>1 DEF SInv, Following, DeliveredIsShown, FreshLooks, NotYetAsked, FirstHandled,
       Progress
<1>5. CASE SaveDelivered
  <2>1. delivered' = feedRevision /\ feed' = None /\ feed # None /\ next = Count + 1
    BY <1>5 DEF SaveDelivered, Stop
  <2>2. feedRevision <= revision
    BY <1>1, <2>1 DEF Following
  <2>3. Following'
    BY <1>1, <2>1, <2>2 DEF Following
  <2>4. DeliveredIsShown'
    <3> SUFFICES ASSUME feedRevision = revision
                 PROVE  \/ own /\ used = {} /\ row[1].hash = version.hash
                        \/ \A k \in Part : \/ shown[k] = Showing(version, k)
                                           \/ shown[k] = None /\ k > Len(version.parts)
                                           \/ Excused(k)
      BY <1>1, <2>1 DEF DeliveredIsShown, Showing
    <3>1. feed = version /\ Count \in Nat /\ Count >= 1
      BY <1>1, <2>1, RoleVersions, VersionParts, BoundAssumption DEF Following, TypeOK, Count, Part
    <3>2. next > 1 /\ \A k \in Part : k < next \/ k > Count
      BY <2>1, <3>1, BoundAssumption DEF Part
    <3> QED
      BY <2>1, <3>1, <3>2 DEF SInv, Progress, Untouched, Settled, Count
  <2>5. FreshLooks' /\ NotYetAsked' /\ FirstHandled' /\ Progress'
    BY <1>1, <2>1 DEF SInv, FreshLooks, NotYetAsked, FirstHandled, Progress
  <2> QED
    BY <1>2, <2>3, <2>4, <2>5 DEF SInv
<1>6. CASE UNCHANGED vars
  <2>1. UNCHANGED <<delivered, feed, feedRevision, next>>
    BY <1>6 DEF vars, poll
  <2> QED
    BY <1>1, <1>2, <2>1 DEF SInv, Following, DeliveredIsShown, FreshLooks, NotYetAsked, FirstHandled,
       Progress, Settled, Untouched, Count
<1> QED
  BY <1>3, <1>4, <1>5, <1>6

LEMMA ShownInductive == IInv /\ SInv /\ [Next]_vars => SInv'
<1> SUFFICES ASSUME IInv, SInv, [Next]_vars PROVE SInv'
  OBVIOUS
<1>1. CASE Handle \/ HandleUnsaved \/ HandleFails
  BY <1>1, HandlerAttempts, AttemptKeepsShown DEF IInv
<1> QED
  BY <1>1, SourceKeepsShown, PollKeepsShown DEF Next

LEMMA ShownInitially == Init => SInv
<1> SUFFICES ASSUME Init PROVE SInv
  OBVIOUS
<1>1. version \in Versions(role) /\ version \in Version /\ 1 \in Part
  BY RoleVersions, BoundAssumption DEF Init, Part
<1>2. Reply(version) # None
  BY <1>1, ReplyIsRow
<1>3. \A k \in Part : /\ shown[k] = None /\ Keys(k) = {}
                      /\ row[k] # None => own /\ role = "user" /\ k = 1 /\ row[k] = Reply(version)
  BY DEF Init, Keys
<1>4. Following
  BY <1>1, <1>2, NoneAssumption DEF Init, Following
<1>5. KeysTell /\ RowsTell /\ RowsRecord /\ LongEnough /\ FreshEdits /\ FreshLooks /\ NotYetAsked
  BY <1>3 DEF Init, KeysTell, RowsTell, RowsRecord, LongEnough, FreshEdits, FreshLooks, NotYetAsked, Reply
<1>6. FromSource
  BY <1>3 DEF Init, FromSource, Reply
<1>7. WholeRows
  BY <1>1, <1>3 DEF Init, WholeRows
<1>8. FirstHandled /\ Progress
  BY DEF Init, FirstHandled, Progress
<1>9. DeliveredIsShown
  BY NoneAssumption DEF Init, DeliveredIsShown
<1> QED
  BY <1>4, <1>5, <1>6, <1>7, <1>8, <1>9 DEF SInv

\* A message that counts as delivered is shown as the source has it, whatever was
\* lost, refused or cut short on the way: its parts and a tombstone for each part
\* it no longer has, but for the parts whose requests went unrecorded or whose
\* presentation was edited back (saveDelivered, applySourceEdit).
THEOREM DeliveredMessagesAreShown == Spec => []DeliveredIsShown
<1>1. Spec => [](IInv /\ SInv)
  <2>1. Init => IInv /\ SInv
    BY Initial, ShownInitially
  <2>2. IInv /\ SInv /\ [Next]_vars => IInv' /\ SInv'
    BY Inductive, ShownInductive
  <2> QED
    BY <2>1, <2>2, PTL DEF Spec
<1>2. SInv => DeliveredIsShown
  BY DEF SInv
<1> QED
  BY <1>1, <1>2, PTL
=============================================================================
