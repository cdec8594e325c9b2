----------------------------- MODULE MirrorProofs -----------------------------
(***************************************************************************)
(* Safety of Mirror for any number of items, contents and source changes.  *)
(* Three facts carry it: a transaction key is used exactly when its item   *)
(* was posted; a dispatch knows what became of the items behind it; and an *)
(* item none of whose outcomes was lost has its row, its event and its     *)
(* edit keys in step.                                                      *)
(***************************************************************************)
EXTENDS Mirror, TLAPS

Posted(i) == PostKey(i, None) \in used

\* The key of the original event, the timeline and the event's content agree.
Posts ==
  \A i \in Item :
    /\ posted[i] = IF Posted(i) THEN 1 ELSE 0
    /\ row[i] # None => Posted(i)
    /\ Posted(i) => shown[i] # None

\* Contents come from the source.
Sources ==
  \A i \in Item :
    /\ text[i] # None => text[i] \in contents[i]
    /\ feed[i] # None => feed[i] \in contents[i]
    /\ shown[i] # None => shown[i] \in contents[i]

\* A snapshot is as old as its revision says, and it is not the delivered one.
Revisions ==
  /\ feedRevision <= revision
  /\ delivered # None => delivered <= revision
  /\ pc # "idle" => delivered # revision
  /\ pc # "idle" /\ feedRevision = revision => feed = text

\* While every outcome was recorded, the row says what the room shows, and no
\* key of a later edit is used.
InStep(i) ==
  /\ row[i] = None => ~Posted(i)
  /\ row[i] # None => shown[i] = row[i].hash
  /\ \A k \in used : k.item = i /\ k.hash # None =>
                       row[i] # None /\ k.generation <= row[i].generation

Steps == \A i \in Item : i \notin unrecorded => InStep(i)

\* What a dispatch of snapshot s left behind it at item i.
Done(i, s) ==
  s[i] # None =>
    /\ Posted(i)
    /\ i \notin unrecorded => row[i] # None /\ row[i].hash = s[i]

Behind ==
  pc \in {"items", "saveBranch", "saveDelivered"} =>
    \A i \in Item \ File : i < next => Done(i, feed)

Delivered ==
  delivered = revision => \A i \in Item \ File : Done(i, text)

Branching == pc \in {"idle", "branch"} => next = 1

Noticed ==
  /\ pc = "saveBranch" => syncEdits
  /\ pc = "branch" => syncEdits
  /\ pc \in {"items", "saveBranch"} /\ syncEdits /\ BranchChanged => BranchData \in notices

IInv ==
  /\ TypeOK /\ Posts /\ Sources /\ Revisions
  /\ Steps /\ Behind /\ Delivered /\ Noticed /\ Branching

-----------------------------------------------------------------------------
LEMMA InvInit == Init => IInv
<1> SUFFICES ASSUME Init PROVE IInv
  OBVIOUS
<1> USE ItemAssumption, NoneAssumption, BoundAssumption
    DEF Init, Item, Content, Contents, Absent
<1>1. TypeOK
  <2>1. Absent \in Snapshot /\ Absent \in [Item -> Row \cup {None}]
    BY DEF Snapshot
  <2>2. posted \in [Item -> Nat] /\ contents \in [Item -> SUBSET Contents]
    OBVIOUS
  <2>3. next \in 1 .. Last + 1
    OBVIOUS
  <2> QED
    BY <2>1, <2>2, <2>3 DEF TypeOK
<1>2. Posts /\ Sources /\ Revisions
  BY DEF Posts, Posted, PostKey, Sources, Revisions
<1>3. Steps /\ Behind /\ Delivered /\ Noticed /\ Branching
  BY DEF Steps, InStep, Posted, Behind, Delivered, Noticed, Branching
<1> QED
  BY <1>1, <1>2, <1>3 DEF IInv

\* The source writes and hides.
LEMMA SourceStep ==
  ASSUME IInv,
         \/ \E i \in Item : \E v \in Content(i) : SourceWrites(i, v)
         \/ \E i \in Item \ File : SourceHides(i)
  PROVE  IInv'
<1> USE ItemAssumption, NoneAssumption, BoundAssumption
    DEF IInv, room, db, poll, past, Item
<1>1. ASSUME NEW i \in Item, NEW v \in Content(i), SourceWrites(i, v)
      PROVE  IInv'
  <2> USE <1>1 DEF SourceWrites
  <2>1. TypeOK'
    BY DEF TypeOK, Snapshot, Content, Contents
  <2>2. Posts'
    BY DEF Posts, Posted, PostKey
  <2>3. Sources' /\ Revisions'
    BY DEF TypeOK, Snapshot, Sources, Revisions
  <2>4. Steps' /\ Behind'
    BY DEF TypeOK, Steps, InStep, Posted, PostKey, Behind, Done
  <2>5. Delivered' /\ Noticed' /\ Branching'
    BY DEF TypeOK, Revisions, Delivered, Noticed, BranchChanged, BranchData, Visible, Branching
  <2> QED
    BY <2>1, <2>2, <2>3, <2>4, <2>5
<1>2. ASSUME NEW i \in Item \ File, SourceHides(i)
      PROVE  IInv'
  <2> USE <1>2 DEF SourceHides
  <2>1. TypeOK'
    BY DEF TypeOK, Snapshot
  <2>2. Posts'
    BY DEF Posts, Posted, PostKey
  <2>3. Sources' /\ Revisions'
    BY DEF TypeOK, Snapshot, Sources, Revisions
  <2>4. Steps' /\ Behind'
    BY DEF TypeOK, Steps, InStep, Posted, PostKey, Behind, Done
  <2>5. Delivered' /\ Noticed' /\ Branching'
    BY DEF TypeOK, Revisions, Delivered, Noticed, BranchChanged, BranchData, Visible, Branching
  <2> QED
    BY <2>1, <2>2, <2>3, <2>4, <2>5
<1> QED
  BY <1>1, <1>2

LEMMA Stutter == IInv /\ UNCHANGED vars => IInv'
<1> SUFFICES ASSUME IInv, UNCHANGED vars PROVE IInv'
  OBVIOUS
<1> USE DEF IInv, vars
<1>1. TypeOK'
  BY DEF TypeOK
<1>2. Posts' /\ Sources' /\ Revisions'
  BY DEF Posts, Posted, PostKey, Sources, Revisions
<1>3. Steps' /\ Behind' /\ Delivered'
  BY DEF Steps, InStep, Behind, Delivered, Done, Posted, PostKey
<1>4. Noticed' /\ Branching'
  BY DEF Noticed, BranchChanged, BranchData, Visible, Branching
<1> QED
  BY <1>1, <1>2, <1>3, <1>4

\* A poll starts or ends early.
LEMMA PollStep ==
  ASSUME IInv, Read \/ Unchanged \/ Abandon \/ Restart
  PROVE  IInv'
<1> USE ItemAssumption, NoneAssumption, BoundAssumption
    DEF IInv, source, room, db, poll, past, Item
<1>1. CASE Read
  <2> USE <1>1 DEF Read, Known
  <2>1. TypeOK'
    <3>1. pc' \in {"branch", "items"} /\ next' \in 1 .. Last + 1
      OBVIOUS
    <3> QED
      BY <3>1 DEF TypeOK
  <2>2. Posts' /\ Sources' /\ Revisions'
    BY DEF TypeOK, Posts, Posted, PostKey, Sources, Revisions
  <2>3. Steps' /\ Behind' /\ Delivered'
    <3>1. Steps'
      BY DEF Steps, InStep, Posted, PostKey
    <3>2. next' = 1 /\ \A i \in Item : ~(i < 1)
      OBVIOUS
    <3>3. Behind'
      BY <3>2 DEF Behind
    <3>4. Delivered'
      BY DEF Delivered, Done, Posted, PostKey
    <3> QED
      BY <3>1, <3>3, <3>4
  <2>4. Noticed' /\ Branching'
    BY DEF Noticed, Branching
  <2> QED
    BY <2>1, <2>2, <2>3, <2>4
<1>2. CASE Unchanged
  BY <1>2, Stutter DEF Unchanged
<1>3. CASE Abandon \/ Restart
  <2> USE <1>3 DEF Abandon, Restart, Stop
  <2>1. TypeOK'
    <3>1. Absent \in Snapshot /\ 1 \in 1 .. Last + 1
      BY DEF Absent, Snapshot
    <3>2. pc' = "idle" /\ feed' \in Snapshot /\ feedRevision' = 0 /\ next' \in 1 .. Last + 1
          /\ failed' = FALSE /\ syncEdits' \in BOOLEAN
          /\ UNCHANGED <<source, room, db, past>>
      BY <3>1 DEF TypeOK
    <3> QED
      BY <3>2 DEF TypeOK
  <2>2. Posts' /\ Sources' /\ Revisions'
    BY DEF TypeOK, Posts, Posted, PostKey, Sources, Revisions, Absent
  <2>3. Steps' /\ Behind' /\ Delivered' /\ Noticed' /\ Branching'
    BY DEF TypeOK, Steps, InStep, Posted, PostKey, Behind, Done, Delivered, Noticed, Branching
  <2> QED
    BY <2>1, <2>2, <2>3
<1> QED
  BY <1>1, <1>2, <1>3

-----------------------------------------------------------------------------
\* The branch stage, and the ends of a dispatch.
LEMMA EndsStep ==
  ASSUME IInv, SameBranch \/ Notice \/ ItemsDone \/ SaveBranch \/ SaveDelivered
  PROVE  IInv'
<1> USE ItemAssumption, NoneAssumption
    DEF IInv, source, room, db, poll, past, Enter
<1>1. CASE SameBranch
  <2> USE <1>1 DEF SameBranch
  <2>1. TypeOK' /\ Posts' /\ Sources' /\ Revisions'
    BY DEF TypeOK, Posts, Posted, PostKey, Sources, Revisions
  <2>2. next = 1
    BY DEF Branching
  <2>3. Steps' /\ Delivered' /\ Noticed'
    BY DEF Steps, InStep, Posted, PostKey, Done, Delivered, Noticed,
           BranchChanged, BranchData, Visible
  <2>4. Behind' /\ Branching'
    BY <2>2 DEF Behind, Branching, Item
  <2> QED
    BY <2>1, <2>3, <2>4
<1>2. CASE Notice
  <2> USE <1>2 DEF Notice
  <2>1. TypeOK'
    <3>1. BranchData \in Branch
      BY DEF BranchData, Branch, Visible, TypeOK
    <3>2. Absent \in Snapshot /\ 1 \in 1 .. Last + 1
      BY DEF Absent, Snapshot, Item
    <3>3. pc' \in {"idle", "items"} /\ feed' \in Snapshot /\ feedRevision' \in Nat
          /\ next' \in 1 .. Last + 1 /\ failed' \in BOOLEAN
      <4>1. CASE Enter("items")
        BY <4>1 DEF TypeOK
      <4>2. CASE Stop
        BY <4>2, <3>2 DEF Stop
      <4> QED
        BY <4>1, <4>2
    <3>4. notices' \subseteq Branch
      BY <3>1 DEF TypeOK
    <3> QED
      BY <3>3, <3>4 DEF TypeOK
  <2>2. Posts' /\ Sources' /\ Revisions'
    BY DEF TypeOK, Posts, Posted, PostKey, Sources, Revisions, Absent, Stop
  <2>3. next' = 1 /\ Branching'
    BY DEF Branching, Stop
  <2>4. Steps' /\ Delivered'
    BY DEF Steps, InStep, Posted, PostKey, Done, Delivered
  <2>5. Noticed'
    BY DEF Noticed, BranchChanged, BranchData, Visible, Stop
  <2>6. Behind'
    BY <2>3 DEF Behind, Item
  <2> QED
    BY <2>1, <2>2, <2>3, <2>4, <2>5, <2>6
<1>3. CASE ItemsDone
  <2> USE <1>3 DEF ItemsDone
  <2>1. TypeOK' /\ Posts' /\ Sources' /\ Revisions'
    BY DEF TypeOK, Posts, Posted, PostKey, Sources, Revisions
  <2>2. Steps' /\ Behind' /\ Delivered'
    BY DEF Steps, InStep, Posted, PostKey, Behind, Done, Delivered
  <2>3. Noticed' /\ Branching'
    BY DEF Noticed, BranchChanged, BranchData, Visible, Branching, TypeOK
  <2> QED
    BY <2>1, <2>2, <2>3
<1>4. CASE SaveBranch
  <2> USE <1>4 DEF SaveBranch
  <2>1. TypeOK'
    <3>1. BranchData \in Branch
      BY DEF BranchData, Branch, Visible, TypeOK
    <3> QED
      BY <3>1 DEF TypeOK
  <2>2. Posts' /\ Sources' /\ Revisions'
    BY DEF Posts, Posted, PostKey, Sources, Revisions
  <2>3. Steps' /\ Behind' /\ Delivered'
    BY DEF Steps, InStep, Posted, PostKey, Behind, Done, Delivered
  <2>4. Noticed' /\ Branching'
    BY DEF Noticed, Branching
  <2> QED
    BY <2>1, <2>2, <2>3, <2>4
<1>5. CASE SaveDelivered
  <2> USE <1>5 DEF SaveDelivered, Stop
  <2>1. TypeOK'
    <3>1. Absent \in Snapshot /\ 1 \in 1 .. Last + 1
      BY DEF Absent, Snapshot, Item
    <3> QED
      BY <3>1 DEF TypeOK
  <2>2. Posts' /\ Sources'
    BY DEF Posts, Posted, PostKey, Sources, Absent
  <2>3. Revisions' /\ Branching'
    BY DEF TypeOK, Revisions, Branching
  <2>4. Steps' /\ Behind' /\ Noticed'
    BY DEF Steps, InStep, Posted, PostKey, Behind, Noticed
  <2>5. Delivered'
    <3> SUFFICES ASSUME delivered' = revision', NEW i \in Item \ File
                 PROVE  Done(i, text)'
      BY DEF Delivered
    <3>1. ~failed /\ feedRevision = revision
      BY DEF TypeOK, Revisions
    <3>2. feed = text /\ next = Last + 1
      BY <3>1 DEF Revisions, TypeOK
    <3>3. Done(i, text)
      BY <3>2 DEF Behind, Item
    <3> QED
      BY <3>3 DEF Done, Posted, PostKey
  <2> QED
    BY <2>1, <2>2, <2>3, <2>4, <2>5
<1> QED
  BY <1>1, <1>2, <1>3, <1>4, <1>5

\* An item is skipped, its file is missing, or it is posted or edited.
LEMMA PassStep ==
  ASSUME IInv, NEW i \in Item, Skip(i) \/ FileMissing(i)
  PROVE  IInv'
<1> USE ItemAssumption, NoneAssumption
    DEF IInv, source, room, db, past, Here, Advance, Item
<1> SUFFICES ASSUME NEW counted \in BOOLEAN,
                    Here(i), Advance(counted),
                    UNCHANGED <<source, room, db, syncEdits, past>>,
                    \/ i \in File
                    \/ feed[i] = None
                    \/ row[i] # None /\ row[i].hash = feed[i]
             PROVE  IInv'
  BY DEF Skip, FileMissing
<1>1. TypeOK' /\ Posts' /\ Sources' /\ Revisions'
  BY DEF TypeOK, Posts, Posted, PostKey, Sources, Revisions
<1>2. Steps' /\ Delivered'
  BY DEF Steps, InStep, Posted, PostKey, Done, Delivered
<1>3. Behind'
  BY DEF Behind, Done, Posts, Posted, PostKey, TypeOK
<1>4. Noticed' /\ Branching'
  BY DEF Noticed, Branching, BranchChanged, BranchData, Visible
<1> QED
  BY <1>1, <1>2, <1>3, <1>4

\* The control part of an accepted request, recorded or not.
LEMMA AfterRequest ==
  ASSUME IInv, NEW i \in Item, Here(i), feed[i] # None, NEW g \in Nat,
         Record(i, g) \/ Unrecorded(i)
  PROVE  /\ pc' \in {"idle", "items"}
         /\ feed' \in Snapshot /\ feedRevision' \in Nat
         /\ next' \in 1 .. Last + 1 /\ failed' \in BOOLEAN
         /\ row' \in [Item -> Row \cup {None}] /\ unrecorded' \subseteq Item
         /\ pc' = "items" => next' = i + 1 /\ UNCHANGED <<feed, feedRevision>>
         /\ pc' = "idle" => feed' = Absent /\ feedRevision' = 0 /\ next' = 1
         /\ \A k \in Item \ {i} : row'[k] = row[k] /\ (k \in unrecorded' <=> k \in unrecorded)
         /\ i \notin unrecorded' => row'[i] = [hash |-> feed[i], generation |-> g]
         /\ row'[i] \in {row[i], [hash |-> feed[i], generation |-> g]}
         /\ [hash |-> feed[i], generation |-> g] \in Row
<1> USE ItemAssumption, NoneAssumption DEF IInv, TypeOK, Here, Advance, Item
<1>1. Absent \in Snapshot /\ 1 \in 1 .. Last + 1
  BY DEF Absent, Snapshot
<1>2. [hash |-> feed[i], generation |-> g] \in Row
  BY DEF Snapshot, Row
<1>3. CASE Record(i, g)
  BY <1>2, <1>3 DEF Record
<1>4. CASE Unrecorded(i)
  <2>1. unrecorded' = unrecorded \cup {i} /\ row' = row
    BY <1>4 DEF Unrecorded
  <2>2. CASE Stop
    BY <1>1, <1>2, <2>1, <2>2 DEF Stop
  <2>3. CASE Advance(FALSE) \/ Advance(TRUE)
    <3>1. failed' \in BOOLEAN
      BY <2>3
    <3>2. pc' = "items" /\ next' = i + 1 /\ UNCHANGED <<feed, feedRevision>>
      BY <2>3
    <3>3. next' \in 1 .. Last + 1 /\ unrecorded' \subseteq Item
      BY <2>1, <3>2
    <3>4. /\ row' \in [Item -> Row \cup {None}]
          /\ row'[i] \in {row[i], [hash |-> feed[i], generation |-> g]}
      BY <2>1
    <3>5. \A k \in Item \ {i} : row'[k] = row[k] /\ (k \in unrecorded' <=> k \in unrecorded)
      BY <2>1
    <3>6. i \in unrecorded'
      BY <2>1
    <3>7. feed' \in Snapshot /\ feedRevision' \in Nat
      BY <3>2
    <3> HIDE DEF TypeOK, IInv, Advance
    <3> QED
      BY <1>2, <3>1, <3>2, <3>3, <3>4, <3>5, <3>6, <3>7
  <2> QED
    BY <1>4, <2>2, <2>3 DEF Unrecorded
<1> QED
  BY <1>3, <1>4

LEMMA PostStep ==
  ASSUME IInv, NEW i \in Item, Post(i)
  PROVE  IInv'
<1> USE ItemAssumption, NoneAssumption DEF IInv, source
<1> USE DEF Post
<1> DEFINE key == PostKey(i, feed[i])
<1>0. key = PostKey(i, None) /\ key \in Key /\ 0 \in Nat
  BY DEF PostKey, Key
<1>1. Here(i) /\ feed[i] # None /\ row[i] = None /\ (Record(i, 0) \/ Unrecorded(i))
  OBVIOUS
<1>2. /\ pc' \in {"idle", "items"}
      /\ feed' \in Snapshot /\ feedRevision' \in Nat
      /\ next' \in 1 .. Last + 1 /\ failed' \in BOOLEAN
      /\ row' \in [Item -> Row \cup {None}] /\ unrecorded' \subseteq Item
      /\ pc' = "items" => next' = i + 1 /\ UNCHANGED <<feed, feedRevision>>
      /\ pc' = "idle" => feed' = Absent /\ feedRevision' = 0 /\ next' = 1
      /\ \A k \in Item \ {i} : row'[k] = row[k] /\ (k \in unrecorded' <=> k \in unrecorded)
      /\ i \notin unrecorded' => row'[i] = [hash |-> feed[i], generation |-> 0]
      /\ row'[i] \in {row[i], [hash |-> feed[i], generation |-> 0]}
      /\ [hash |-> feed[i], generation |-> 0] \in Row
  BY <1>0, <1>1, AfterRequest
<1>3. /\ used' = used \cup {key}
      /\ shown' \in Snapshot
      /\ posted' \in [Item -> Nat]
      /\ \A k \in Item \ {i} : shown'[k] = shown[k] /\ posted'[k] = posted[k]
      /\ Posted(i) => shown' = shown /\ posted' = posted
      /\ ~Posted(i) => shown'[i] = feed[i] /\ posted'[i] = posted[i] + 1
  BY <1>0 DEF TypeOK, Snapshot, Posted
<1>4. \A k \in Item : Posted(k)' <=> Posted(k) \/ k = i
  BY <1>3 DEF Posted, PostKey
<1> HIDE DEF key
<1>5. TypeOK'
  BY <1>0, <1>2, <1>3 DEF TypeOK
<1>6. Posts'
  BY <1>1, <1>2, <1>3, <1>4 DEF Posts, TypeOK
<1>7. Sources' /\ Revisions'
  BY <1>1, <1>2, <1>3, <1>4 DEF Sources, Revisions, TypeOK, Absent, Here
<1>8. Steps'
  <2> SUFFICES ASSUME NEW k \in Item, k \notin unrecorded' PROVE InStep(k)'
    BY DEF Steps
  <2>1. CASE k # i
    BY <2>1, <1>0, <1>2, <1>3, <1>4 DEF Steps, InStep, PostKey
  <2>2. CASE k = i
    <3>1. k \notin unrecorded
      BY <2>2 DEF Record, Unrecorded
    <3>2. InStep(i) /\ ~Posted(i)
      BY <3>1, <2>2, <1>1 DEF Steps, InStep
    <3>3. row'[i] # None /\ shown'[i] = row'[i].hash
      BY <2>2, <3>2, <1>2, <1>3
    <3>4. \A j \in used' : j.item = i => j.hash = None
      BY <3>2, <1>0, <1>1, <1>3 DEF InStep, PostKey
    <3> QED
      BY <2>2, <3>3, <3>4 DEF InStep
  <2> QED
    BY <2>1, <2>2
<1>9. Behind'
  <2> SUFFICES ASSUME pc' = "items", NEW k \in Item \ File, k < i + 1
               PROVE  Done(k, feed)'
    BY <1>2 DEF Behind
  <2>1. CASE k = i
    BY <2>1, <1>2, <1>4 DEF Done
  <2>2. CASE k # i
    <3>1. Done(k, feed)
      BY <2>2, <1>1 DEF Behind, Here, Item, TypeOK
    <3> QED
      BY <3>1, <2>2, <1>2, <1>4 DEF Done
  <2> QED
    BY <2>1, <2>2
<1>10. Delivered' /\ Noticed' /\ Branching'
  BY <1>1, <1>2 DEF Delivered, Noticed, Branching, Revisions, Here, BranchChanged,
     BranchData, Visible
<1> QED
  BY <1>5, <1>6, <1>7, <1>8, <1>9, <1>10

LEMMA EditStep ==
  ASSUME IInv, NEW i \in Item, Edit(i)
  PROVE  IInv'
<1> USE ItemAssumption, NoneAssumption DEF IInv, source
<1> USE DEF Edit
<1> DEFINE key == EditKey(i, feed[i])
           g   == row[i].generation + 1
<1>1. Here(i) /\ feed[i] # None /\ row[i] # None /\ (Record(i, g) \/ Unrecorded(i))
  OBVIOUS
<1>2. row[i] \in Row /\ row[i].generation \in Nat /\ g \in Nat
  BY <1>1 DEF TypeOK, Row
<1>3. key \in Key /\ key.item = i /\ key.generation = g /\ key.hash = feed[i]
  BY <1>2 DEF EditKey, Key, TypeOK, Snapshot
<1> HIDE DEF g
<1>4. /\ pc' \in {"idle", "items"}
      /\ feed' \in Snapshot /\ feedRevision' \in Nat
      /\ next' \in 1 .. Last + 1 /\ failed' \in BOOLEAN
      /\ row' \in [Item -> Row \cup {None}] /\ unrecorded' \subseteq Item
      /\ pc' = "items" => next' = i + 1 /\ UNCHANGED <<feed, feedRevision>>
      /\ pc' = "idle" => feed' = Absent /\ feedRevision' = 0 /\ next' = 1
      /\ \A k \in Item \ {i} : row'[k] = row[k] /\ (k \in unrecorded' <=> k \in unrecorded)
      /\ i \notin unrecorded' => row'[i] = [hash |-> feed[i], generation |-> g]
      /\ row'[i] \in {row[i], [hash |-> feed[i], generation |-> g]}
      /\ [hash |-> feed[i], generation |-> g] \in Row
  BY <1>1, <1>2, AfterRequest
<1>5. /\ used' = used \cup {key}
      /\ shown' \in Snapshot
      /\ posted' = posted
      /\ \A k \in Item \ {i} : shown'[k] = shown[k]
      /\ shown'[i] \in {shown[i], feed[i]}
      /\ key \notin used => shown'[i] = feed[i]
  BY DEF TypeOK, Snapshot
<1> HIDE DEF key
<1>6. \A k \in Item : Posted(k)' <=> Posted(k)
  BY <1>1, <1>3, <1>5 DEF Posted, PostKey
<1>7. TypeOK'
  BY <1>3, <1>4, <1>5 DEF TypeOK
<1>8. Posts'
  BY <1>1, <1>4, <1>5, <1>6 DEF Posts
<1>9. Sources' /\ Revisions'
  BY <1>1, <1>4, <1>5 DEF Sources, Revisions, TypeOK, Absent, Here
<1>10. Steps'
  <2> SUFFICES ASSUME NEW k \in Item, k \notin unrecorded' PROVE InStep(k)'
    BY DEF Steps
  <2>1. CASE k # i
    BY <2>1, <1>3, <1>4, <1>5, <1>6 DEF Steps, InStep
  <2>2. CASE k = i
    <3>1. k \notin unrecorded
      BY <2>2 DEF Record, Unrecorded
    <3>2. \A j \in used : j.item = i /\ j.hash # None => j.generation <= row[i].generation
      BY <3>1, <2>2, <1>1 DEF Steps, InStep
    <3>3. key \notin used
      BY <3>2, <1>1, <1>2, <1>3 DEF g
    <3>4. row'[i] # None /\ row'[i].hash = shown'[i] /\ row'[i].generation = g
      BY <2>2, <3>3, <1>4, <1>5
    <3>5. \A j \in used' : j.item = i /\ j.hash # None => j.generation <= row'[i].generation
      BY <3>2, <3>4, <1>2, <1>3, <1>5 DEF g, TypeOK, Key
    <3> QED
      BY <2>2, <3>4, <3>5 DEF InStep
  <2> QED
    BY <2>1, <2>2
<1>11. Behind'
  <2> SUFFICES ASSUME pc' = "items", NEW k \in Item \ File, k < i + 1
               PROVE  Done(k, feed)'
    BY <1>4 DEF Behind
  <2>1. CASE k = i
    BY <2>1, <1>1, <1>4, <1>6 DEF Done, Posts
  <2>2. CASE k # i
    <3>1. Done(k, feed)
      BY <2>2, <1>1 DEF Behind, Here, Item, TypeOK
    <3> QED
      BY <3>1, <2>2, <1>4, <1>6 DEF Done
  <2> QED
    BY <2>1, <2>2
<1>12. Delivered' /\ Noticed' /\ Branching'
  BY <1>1, <1>4 DEF Delivered, Noticed, Branching, Revisions, Here, BranchChanged,
     BranchData, Visible
<1> QED
  BY <1>7, <1>8, <1>9, <1>10, <1>11, <1>12

LEMMA InvStep == IInv /\ [Next]_vars => IInv'
<1> SUFFICES ASSUME IInv, [Next]_vars PROVE IInv'
  OBVIOUS
<1>1. CASE \/ \E i \in Item : \E v \in Content(i) : SourceWrites(i, v)
           \/ \E i \in Item \ File : SourceHides(i)
  BY <1>1, SourceStep
<1>2. CASE Read \/ Unchanged \/ Abandon \/ Restart
  BY <1>2, PollStep
<1>3. CASE SameBranch \/ Notice \/ ItemsDone \/ SaveBranch \/ SaveDelivered
  BY <1>3, EndsStep
<1>4. CASE \E i \in Item : Skip(i) \/ Post(i) \/ Edit(i) \/ FileMissing(i)
  BY <1>4, PassStep, PostStep, EditStep
<1>5. CASE UNCHANGED vars
  BY <1>5, Stutter
<1> QED
  BY <1>1, <1>2, <1>3, <1>4, <1>5 DEF Next, Dispatch

THEOREM Inductive == Spec => []IInv
BY InvInit, InvStep, PTL DEF Spec

-----------------------------------------------------------------------------
\* The variables keep their types, for any number of items.
THEOREM Types == Spec => []TypeOK
<1>1. IInv => TypeOK
  BY DEF IInv
<1> QED
  BY <1>1, Inductive, PTL

\* Whatever was lost, whoever restarted and however the source changed, an item
\* is in the timeline at most once.
THEOREM PostedOnce == Spec => []OneEventPerItem
<1>1. IInv => OneEventPerItem
  BY DEF IInv, Posts, OneEventPerItem
<1> QED
  BY <1>1, Inductive, PTL

\* A text that was not both rewritten and left unrecorded is shown as the
\* source has it once its revision counts as delivered.
THEOREM DeliveredTexts == Spec => []RecordedIsShown
<1>1. IInv => RecordedIsShown
  <2> SUFFICES ASSUME IInv, delivered = revision, NEW i \in Item \ File,
                      i \notin unrecorded \/ contents[i] = {text[i]}, text[i] # None
               PROVE  shown[i] = text[i]
    BY DEF RecordedIsShown, Shows
  <2>1. Done(i, text)
    BY DEF IInv, Delivered
  <2>2. CASE i \notin unrecorded
    BY <2>1, <2>2 DEF IInv, Done, Steps, InStep
  <2>3. CASE contents[i] = {text[i]}
    BY <2>1, <2>3 DEF IInv, Done, Posts, Sources
  <2> QED
    BY <2>2, <2>3
<1> QED
  BY <1>1, Inductive, PTL

\* No item leaves the checkpoint unless the room was told that the branch changed.
THEOREM Announced == Spec => BranchNoticed
<1>1. IInv /\ [Next]_vars =>
        [checkpoint # None /\ checkpoint' # checkpoint
           /\ checkpoint.ids \ checkpoint'.ids # {} => checkpoint' \in notices]_vars
  <2> SUFFICES ASSUME IInv, Next, checkpoint # None, checkpoint' # checkpoint,
                      checkpoint.ids \ checkpoint'.ids # {}
               PROVE  checkpoint' \in notices
    OBVIOUS
  <2>1. SaveBranch
    BY DEF Next, Dispatch, SourceWrites, SourceHides, Read, Unchanged, Abandon, Restart,
       SameBranch, Notice, Skip, Post, Edit, FileMissing, ItemsDone, SaveDelivered,
       vars, db
  <2>2. checkpoint' = BranchData /\ checkpoint'.ids = Visible(feed)
    BY <2>1 DEF SaveBranch, BranchData
  <2> QED
    BY <2>1, <2>2 DEF IInv, Noticed, SaveBranch, BranchChanged
<1> QED
  BY <1>1, Inductive, PTL DEF Spec, BranchNoticed

\* No text is posted while a text before it is missing.
THEOREM Ordered == Spec => InOrder
<1>1. IInv /\ [Next]_vars =>
        [\A i \in Item \ File : posted'[i] > posted[i] =>
           \A k \in 1 .. i - 1 : feed[k] # None /\ k \notin File => posted[k] = 1]_vars
  <2> SUFFICES ASSUME IInv, Next, NEW i \in Item \ File, posted'[i] > posted[i],
                      NEW k \in 1 .. i - 1, feed[k] # None, k \notin File
               PROVE  posted[k] = 1
    OBVIOUS
  <2>0. posted' # posted
    BY DEF IInv, TypeOK
  <2>1. PICK j \in Item : Post(j)
    BY <2>0 DEF Next, Dispatch, SourceWrites, SourceHides, Read, Unchanged,
       Abandon, Restart, SameBranch, Notice, Skip, Edit, FileMissing, ItemsDone,
       SaveBranch, SaveDelivered, vars, room
  <2>2. j = i
    BY <2>0, <2>1 DEF Post, IInv, TypeOK
  <2>3. k \in Item /\ k < i
    BY ItemAssumption DEF Item
  <2>4. Done(k, feed)
    BY <2>1, <2>2, <2>3 DEF IInv, Behind, Post, Here
  <2> QED
    BY <2>3, <2>4 DEF IInv, Done, Posts
<1> QED
  BY <1>1, Inductive, PTL DEF Spec, InOrder
=============================================================================
