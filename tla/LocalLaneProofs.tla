--------------------------- MODULE LocalLaneProofs ---------------------------
(***************************************************************************)
(* What the active set and the local lane keep for any bound, cap,         *)
(* conversations and times.  First ActiveSet on its own: the heart is Top. *)
(* An element that is not among the first Limit of a set is outranked by   *)
(* Limit elements that are, so any subset that still has the first Limit   *)
(* has the same first Limit.                                               *)
(*                                                                         *)
(* Then the lane: its cache behaves as ActiveSet, a saved fingerprint hides*)
(* nothing, and messages are posted in the order of the file.  The idea of *)
(* the fingerprint: a rollout only grows, so if it has as many lines after *)
(* a read as before, it had them during the read, every line was complete  *)
(* when the reader came to it, and all were decoded.                       *)
(***************************************************************************)
EXTENDS LocalLane, FiniteSetTheorems, WellFoundedInduction, TLAPS

(***************************************************************************)
(* The active set.                                                         *)
(***************************************************************************)
\* The order of selectActive is a strict order.
LEMMA AboveOrder ==
  /\ \A x \in Chat : ~Above(x, x)
  /\ \A x, y, z \in Chat : Above(x, y) /\ Above(y, z) => Above(x, z)
<1>1. \A x \in Chat : x.updatedAt \in Nat /\ x.id \in Nat /\ x.running \in BOOLEAN
  BY ChatAssumption, TimeAssumption DEF Chat, Chats, Owned, Id
<1>2. \A x \in Chat : ~Above(x, x)
  BY <1>1 DEF Above
<1>3. ASSUME NEW x \in Chat, NEW y \in Chat, NEW z \in Chat, Above(x, y), Above(y, z)
      PROVE  Above(x, z)
  BY <1>1, <1>3 DEF Above
<1> QED
  BY <1>2, <1>3

\* What outranks a higher element outranks a lower one too, and is less.
LEMMA OutrankShrinks ==
  ASSUME NEW S \in SUBSET Chat, NEW x \in S, NEW y \in Outrank(x, S)
  PROVE  /\ Outrank(y, S) \subseteq Outrank(x, S)
         /\ Outrank(y, S) # Outrank(x, S)
<1>1. y \in S /\ Above(y, x)
  BY DEF Outrank
<1>2. Outrank(y, S) \subseteq Outrank(x, S)
  BY <1>1, AboveOrder DEF Outrank
<1>3. y \notin Outrank(y, S)
  BY <1>1, AboveOrder DEF Outrank
<1> QED
  BY <1>2, <1>3

\* Among some elements of a finite set there is one of which all that outranks
\* it is not among them.
LEMMA HighestExists ==
  ASSUME NEW S \in SUBSET Chat, IsFiniteSet(S), NEW C \in SUBSET S, C # {}
  PROVE  \E y \in C : Outrank(y, S) \cap C = {}
<1> DEFINE T == {Outrank(z, S) : z \in C}
           R == StrictSubsetOrdering(S)
<1>1. T \subseteq FiniteSubsetsOf(S)
  <2>1. \A z \in C : Outrank(z, S) \in SUBSET S
    BY DEF Outrank
  <2> QED
    BY <2>1, FS_Subset DEF FiniteSubsetsOf
<1>2. IsWellFoundedOn(R, FiniteSubsetsOf(S))
  BY FS_StrictSubsetOrderingWellFounded
<1>3. T # {}
  OBVIOUS
<1>4. PICK least \in T : \A U \in T : <<U, least>> \notin R
  <2> HIDE DEF T, R
  <2> QED
    BY <1>1, <1>2, <1>3, WFMin
<1>5. PICK y \in C : least = Outrank(y, S)
  OBVIOUS
<1>6. ASSUME NEW z \in Outrank(y, S) \cap C
      PROVE  FALSE
  <2>1. Outrank(z, S) \subseteq Outrank(y, S) /\ Outrank(z, S) # Outrank(y, S)
    BY OutrankShrinks
  <2>2. Outrank(z, S) \in SUBSET S /\ Outrank(y, S) \in SUBSET S
    BY DEF Outrank
  <2>3. <<Outrank(z, S), Outrank(y, S)>> \in R
    BY <2>1, <2>2 DEF StrictSubsetOrdering
  <2> QED
    BY <1>4, <1>5, <2>3
<1> QED
  BY <1>6

\* Some element of a nonempty finite set is above no element of it.
LEMMA LowestExists ==
  ASSUME NEW S \in SUBSET Chat, IsFiniteSet(S), S # {}
  PROVE  \E x \in S : \A y \in S : ~Above(x, y)
<1> DEFINE Under(z) == {y \in S : Above(z, y)}
           T == {Under(z) : z \in S}
           R == StrictSubsetOrdering(S)
<1>1. T \subseteq FiniteSubsetsOf(S)
  BY FS_Subset DEF FiniteSubsetsOf
<1>2. IsWellFoundedOn(R, FiniteSubsetsOf(S))
  BY FS_StrictSubsetOrderingWellFounded
<1>3. T # {}
  OBVIOUS
<1>4. PICK least \in T : \A U \in T : <<U, least>> \notin R
  <2> HIDE DEF T, R
  <2> QED
    BY <1>1, <1>2, <1>3, WFMin
<1>5. PICK x \in S : least = Under(x)
  OBVIOUS
<1>6. ASSUME NEW y \in S, Above(x, y)
      PROVE  FALSE
  <2>1. Under(y) \subseteq Under(x) /\ y \in Under(x) /\ y \notin Under(y)
    BY <1>6, AboveOrder
  <2>2. <<Under(y), Under(x)>> \in R
    BY <2>1 DEF StrictSubsetOrdering
  <2> QED
    BY <1>4, <1>5, <2>2
<1> QED
  BY <1>6

\* Of two different conversations one is above the other.
LEMMA DistinctOrdered ==
  \A x, y \in Chat : x.id # y.id => Above(x, y) \/ Above(y, x)
<1>1. \A x \in Chat : x.updatedAt \in Nat /\ x.id \in Nat /\ x.running \in BOOLEAN
  BY ChatAssumption, TimeAssumption DEF Chat, Chats, Owned, Id
<1> QED
  BY <1>1 DEF Above

\* A smaller set outranks an element less.
LEMMA OutrankMonotone ==
  ASSUME NEW S, IsFiniteSet(S), NEW T \in SUBSET S, NEW x
  PROVE  /\ Cardinality(Outrank(x, S)) \in Nat
         /\ Cardinality(Outrank(x, T)) \in Nat
         /\ Cardinality(Outrank(x, T)) <= Cardinality(Outrank(x, S))
<1>1. Outrank(x, S) \in SUBSET S /\ Outrank(x, T) \in SUBSET Outrank(x, S)
  BY DEF Outrank
<1>2. IsFiniteSet(Outrank(x, S))
  BY <1>1, FS_Subset
<1>3. IsFiniteSet(Outrank(x, T))
  BY <1>1, <1>2, FS_Subset
<1> QED
  BY <1>1, <1>2, <1>3, FS_Subset, FS_CardinalityType

\* A part of a set that holds its first Limit elements has the same first ones.
THEOREM TopOfPart ==
  ASSUME NEW S \in SUBSET Chat, IsFiniteSet(S),
         NEW T \in SUBSET S, Top(S) \subseteq T
  PROVE  Top(T) = Top(S)
<1>1. Top(S) \subseteq Top(T)
  <2> SUFFICES ASSUME NEW x \in Top(S) PROVE x \in Top(T)
    OBVIOUS
  <2>1. x \in T /\ Cardinality(Outrank(x, S)) < Limit
    BY DEF Top
  <2> QED
    BY <2>1, OutrankMonotone, LimitAssumption DEF Top
<1>2. ASSUME NEW x \in Top(T), x \notin Top(S)
      PROVE  FALSE
  <2> DEFINE C == (Outrank(x, S) \cup {x}) \ Top(S)
  <2>1. x \in S /\ x \in T
    BY DEF Top
  <2>2. PICK y \in C : Outrank(y, S) \cap C = {}
    <3>1. C \in SUBSET S /\ C # {}
      BY <1>2, <2>1 DEF Outrank
    <3> HIDE DEF C
    <3> QED
      BY <3>1, HighestExists
  <2>3. Outrank(y, S) \subseteq Outrank(x, S)
    BY <2>1, OutrankShrinks
  <2>4. Outrank(y, S) \subseteq Outrank(x, T)
    <3>1. Outrank(y, S) \subseteq Top(S)
      BY <2>2, <2>3
    <3> QED
      BY <2>3, <3>1 DEF Outrank
  <2>5. y \in S /\ y \notin Top(S)
    BY <2>1 DEF Outrank
  <2>6. ~(Cardinality(Outrank(y, S)) < Limit)
    BY <2>5 DEF Top
  <2>7. IsFiniteSet(Outrank(x, T))
    <3>1. Outrank(x, T) \in SUBSET S
      BY DEF Outrank
    <3> QED
      BY <3>1, FS_Subset
  <2>8. /\ Cardinality(Outrank(y, S)) <= Cardinality(Outrank(x, T))
        /\ Cardinality(Outrank(y, S)) \in Nat
        /\ Cardinality(Outrank(x, T)) \in Nat
    BY <2>4, <2>7, FS_Subset, FS_CardinalityType
  <2>9. Cardinality(Outrank(x, T)) < Limit
    BY DEF Top
  <2> QED
    BY <2>6, <2>8, <2>9, LimitAssumption
<1> QED
  BY <1>1, <1>2

\* An element of a part that is among the first of the whole is among the first
\* of the part.
LEMMA TopOfWhole ==
  ASSUME NEW S, IsFiniteSet(S), NEW T \in SUBSET S, NEW x \in T, x \in Top(S)
  PROVE  x \in Top(T)
<1>1. Cardinality(Outrank(x, S)) < Limit
  BY DEF Top
<1> QED
  BY <1>1, OutrankMonotone, LimitAssumption DEF Top

\* The first elements of a set of distinct conversations are at most Limit.
THEOREM TopIsCapped ==
  ASSUME NEW S \in SUBSET Chat, IsFiniteSet(S), Distinct(S)
  PROVE  IsFiniteSet(Top(S)) /\ Cardinality(Top(S)) <= Limit
<1>1. IsFiniteSet(Top(S)) /\ Cardinality(Top(S)) \in Nat
  <2>1. Top(S) \in SUBSET S
    BY DEF Top
  <2> QED
    BY <2>1, FS_Subset, FS_CardinalityType
<1>2. CASE Top(S) = {}
  BY <1>2, FS_EmptySet, LimitAssumption
<1>3. CASE Top(S) # {}
  <2>1. PICK x \in Top(S) : \A y \in Top(S) : ~Above(x, y)
    <3>1. Top(S) \in SUBSET Chat
      BY DEF Top
    <3> QED
      BY <1>1, <1>3, <3>1, LowestExists
  <2>2. Top(S) \ {x} \subseteq Outrank(x, S)
    <3> SUFFICES ASSUME NEW y \in Top(S), y # x
                 PROVE  y \in Outrank(x, S)
      OBVIOUS
    <3>1. x \in S /\ y \in S /\ y.id # x.id
      BY DEF Top, Distinct
    <3>2. Above(y, x)
      BY <2>1, <3>1, DistinctOrdered
    <3> QED
      BY <3>1, <3>2 DEF Outrank
  <2>3. IsFiniteSet(Outrank(x, S)) /\ Cardinality(Outrank(x, S)) \in Nat
    <3>1. Outrank(x, S) \in SUBSET S
      BY DEF Outrank
    <3> QED
      BY <3>1, FS_Subset, FS_CardinalityType
  <2>4. Cardinality(Top(S) \ {x}) <= Cardinality(Outrank(x, S))
    BY <2>2, <2>3, FS_Subset
  <2>5. Cardinality(Top(S) \ {x}) = Cardinality(Top(S)) - 1
    BY <1>1, FS_RemoveElement
  <2>6. Cardinality(Outrank(x, S)) < Limit
    BY DEF Top
  <2> QED
    BY <1>1, <2>3, <2>4, <2>5, <2>6, LimitAssumption
<1> QED
  BY <1>2, <1>3

-----------------------------------------------------------------------------
(***************************************************************************)
(* The state of the cache: each lane keeps the best of its last read, and  *)
(* the active conversations are the best of what both lanes keep.          *)
(***************************************************************************)
Kept == UNION {candidates[l] : l \in Lane}
Seen == UNION {seen[l] : l \in Lane}

CacheInv ==
  /\ candidates \in [Lane -> SUBSET Chat]
  /\ seen \in [Lane -> SUBSET Chat]
  /\ \A l \in Lane : seen[l] \in Exports[l] /\ candidates[l] = SelectActive(seen[l])
  /\ active = Ids(SelectActive(Kept))

LEMMA SelectIsPart == \A S : SelectActive(S) \subseteq S
BY DEF SelectActive, Top, Eligible

LEMMA CacheInit == Init => CacheInv
<1> SUFFICES ASSUME Init PROVE CacheInv
  OBVIOUS
<1> USE DEF Init
<1>1. SelectActive({}) = {}
  BY SelectIsPart
<1>2. \A l \in Lane : {} \in Exports[l]
  BY FS_EmptySet DEF Exports, Distinct
<1>3. Kept = {}
  BY DEF Kept
<1>4. Ids({}) = {}
  BY DEF Ids
<1> QED
  BY <1>1, <1>2, <1>3, <1>4 DEF CacheInv

LEMMA CacheStep == CacheInv /\ [Next]_vars => CacheInv'
<1> SUFFICES ASSUME CacheInv, [Next]_vars PROVE CacheInv'
  OBVIOUS
<1>1. CASE Restart
  <2> USE <1>1 DEF Restart
  <2>1. SelectActive({}) = {}
    BY SelectIsPart
  <2>2. \A l \in Lane : {} \in Exports[l]
    BY FS_EmptySet DEF Exports, Distinct
  <2>3. Kept' = {}
    BY DEF Kept
  <2>4. Ids({}) = {}
    BY DEF Ids
  <2> QED
    BY <2>1, <2>2, <2>3, <2>4 DEF CacheInv
<1>2. ASSUME NEW l \in Lane, NEW chats \in Exports[l], UpdateCache(l, chats)
      PROVE  CacheInv'
  <2> DEFINE best == SelectActive(chats)
             kept == UNION {candidates[k] : k \in Lane \ {l}}
  <2>1. /\ candidates' = [candidates EXCEPT ![l] = best]
        /\ active' = Ids(SelectActive(best \cup kept))
        /\ seen' = [seen EXCEPT ![l] = chats]
    BY <1>2 DEF UpdateCache
  <2>2. chats \in SUBSET Chat
    BY DEF Exports, Chat, Lane
  <2>3. best \in SUBSET Chat
    BY <2>2, SelectIsPart
  <2>4. Kept' = best \cup kept
    <3> HIDE DEF best
    <3> QED
      BY <2>1 DEF Kept, CacheInv
  <2>5. \A k \in Lane : seen'[k] \in Exports[k] /\ candidates'[k] = SelectActive(seen'[k])
    BY <2>1 DEF CacheInv
  <2>6. candidates' \in [Lane -> SUBSET Chat] /\ seen' \in [Lane -> SUBSET Chat]
    <3> HIDE DEF best
    <3> QED
      BY <2>1, <2>2, <2>3 DEF CacheInv
  <2>7. active' = Ids(SelectActive(Kept'))
    BY <2>1, <2>4
  <2> QED
    BY <2>5, <2>6, <2>7 DEF CacheInv
<1>3. CASE UNCHANGED vars
  BY <1>3 DEF CacheInv, Kept, vars
<1> QED
  BY <1>1, <1>2, <1>3 DEF Next

\* What both lanes returned is a finite set of distinct conversations.
LEMMA SeenIsDistinct ==
  ASSUME CacheInv
  PROVE  Seen \in SUBSET Chat /\ IsFiniteSet(Seen) /\ Distinct(Seen)
<1>1. Seen = seen["remote"] \cup seen["local"]
  BY DEF Seen, Lane
<1>2. \A l \in Lane : /\ seen[l] \in SUBSET Chats(l)
                      /\ IsFiniteSet(seen[l])
                      /\ Distinct(seen[l])
  BY DEF CacheInv, Exports
<1>3. IsFiniteSet(Seen)
  BY <1>1, <1>2, FS_Union DEF Lane
<1>4. Seen \in SUBSET Chat
  BY <1>1, <1>2 DEF Lane, Chat
<1>5. ASSUME NEW x \in Seen, NEW y \in Seen, x.id = y.id
      PROVE  x = y
  <2>1. \A l \in Lane : \A z \in seen[l] : z.id \in Owned(l)
    BY <1>2 DEF Chats
  <2>2. PICK k \in Lane, l \in Lane : x \in seen[k] /\ y \in seen[l]
    BY DEF Seen
  <2>3. k = l
    BY <1>5, <2>1, <2>2, ChatAssumption DEF Owned, Lane
  <2> QED
    BY <1>2, <1>5, <2>2, <2>3 DEF Distinct
<1> QED
  BY <1>3, <1>4, <1>5 DEF Distinct

LEMMA KeptDecides ==
  ASSUME CacheInv
  PROVE  SelectActive(Kept) = SelectActive(Seen)
<1> DEFINE S == Eligible(Seen)
           T == Eligible(Kept)
<1>1. S \in SUBSET Chat /\ IsFiniteSet(S)
  <2>1. S \in SUBSET Seen
    BY DEF Eligible
  <2> QED
    BY <2>1, SeenIsDistinct, FS_Subset
<1>2. T \in SUBSET S
  BY SelectIsPart DEF Kept, Seen, CacheInv, Eligible
<1>3. Top(S) \subseteq T
  <2> SUFFICES ASSUME NEW x \in Top(S) PROVE x \in T
    OBVIOUS
  <2>1. x \in S
    BY DEF Top
  <2>2. PICK l \in Lane : x \in seen[l]
    BY <2>1 DEF Eligible, Seen
  <2>3. Eligible(seen[l]) \in SUBSET S /\ x \in Eligible(seen[l])
    BY <2>1, <2>2 DEF Eligible, Seen
  <2>4. x \in candidates[l]
    BY <1>1, <2>3, TopOfWhole DEF SelectActive, CacheInv
  <2> QED
    BY <2>1, <2>4 DEF Kept, Eligible
<1> HIDE DEF S, T
<1>4. Top(T) = Top(S)
  BY <1>1, <1>2, <1>3, TopOfPart
<1> QED
  BY <1>4 DEF SelectActive, S, T

-----------------------------------------------------------------------------
\* The active set is the cap applied to everything both lanes last returned,
\* although each keeps only its own best (sync.go:213-238).
THEOREM ActiveIsTop == Spec => []ActiveIsCombinedTop
<1>1. CacheInv => ActiveIsCombinedTop
  BY KeptDecides DEF CacheInv, ActiveIsCombinedTop, Seen
<1> QED
  BY <1>1, CacheInit, CacheStep, PTL DEF Spec

\* At most Limit conversations are active, all of them kept by their lane
\* (README.md:24-25, config.go:151-171).
THEOREM ActiveIsCapped == Spec => []CapHolds
<1>1. ASSUME CacheInv PROVE CapHolds
  <2> DEFINE S == Eligible(Seen)
  <2>1. S \in SUBSET Chat /\ IsFiniteSet(S) /\ Distinct(S)
    <3>1. S \in SUBSET Seen
      BY DEF Eligible
    <3> QED
      BY <1>1, <3>1, SeenIsDistinct, FS_Subset DEF Distinct
  <2>2. IsFiniteSet(Top(S)) /\ Cardinality(Top(S)) <= Limit
    <3> HIDE DEF S
    <3> QED
      BY <2>1, TopIsCapped
  <2>3. active = Ids(Top(S))
    BY <1>1, KeptDecides DEF CacheInv, SelectActive
  <2>4. IsFiniteSet(active) /\ Cardinality(active) <= Cardinality(Top(S))
    <3> DEFINE f == [x \in Top(S) |-> x.id]
    <3>1. f \in Surjection(Top(S), active)
      BY <2>3 DEF Surjection, Ids
    <3> HIDE DEF f, S
    <3> QED
      BY <2>2, <3>1, FS_Surjection
  <2>5. Cardinality(active) <= Limit
    BY <2>2, <2>4, FS_CardinalityType, LimitAssumption
  <2>6. active \subseteq Ids(Kept)
    BY <1>1, SelectIsPart DEF CacheInv, Ids
  <2> QED
    BY <2>5, <2>6 DEF CapHolds, Kept
<1> QED
  BY <1>1, CacheInit, CacheStep, PTL DEF Spec

\* The cache has its types: in particular what a lane keeps is part of its last read,
\* and every active conversation is one that the configuration allows.
THEOREM CacheTypes == Spec => []TypeOK
<1>1. ASSUME CacheInv PROVE TypeOK
  <2>1. ASSUME NEW l \in Lane PROVE candidates[l] \subseteq seen[l]
    BY <1>1, SelectIsPart DEF CacheInv
  <2>2. active \subseteq Id \cap Allowed
    <3>1. SelectActive(Kept) \subseteq Eligible(Kept) /\ Kept \subseteq Chat
      BY <1>1 DEF CacheInv, SelectActive, Top, Kept
    <3>2. \A x \in Chat : x.id \in Id
      BY DEF Chat, Chats, Owned, Id
    <3> QED
      BY <1>1, <3>1, <3>2 DEF CacheInv, Ids, Eligible
  <2> QED
    BY <1>1, <2>1, <2>2 DEF CacheInv, TypeOK
<1> QED
  BY <1>1, CacheInit, CacheStep, PTL DEF Spec

-----------------------------------------------------------------------------
(***************************************************************************)
(* The lane.                                                               *)
(***************************************************************************)
\* What was decoded accounts for the whole file.
Whole(S, running) == S = Lines /\ (running => Active(Lines))

\* The file and the room.
FileInv ==
  /\ rollout \in Seq(Line) /\ Len(rollout) <= Bound + 1
  /\ fragment \in BOOLEAN /\ quiet \in BOOLEAN /\ stale \in BOOLEAN
  /\ mirrored \subseteq Texts(Lines)

\* The poll: how far it is, and what it has seen.
PollInv ==
  /\ pc \in {"idle", "recheck", "reading", "compare", "answered", "dispatch", "save"}
  /\ position \in 0 .. Len(rollout) /\ torn \in BOOLEAN /\ got \subseteq 1 .. position
  /\ before \in FilePrint \cup {None} /\ chat \in Answer \cup {None}
  /\ pc \in {"idle", "recheck"} => position = 0 /\ got = {} /\ torn = FALSE
  /\ pc \in {"recheck", "reading", "compare"} =>
       before \in FilePrint /\ before.lines <= Len(rollout)
  /\ pc = "recheck" => saved \in Answer /\ saved.print = before
  /\ pc \in {"compare", "answered", "dispatch", "save"} => chat \in Answer
  /\ pc \in {"dispatch", "save"} => chat.unchanged = FALSE

\* If the file has not grown since the poll began, everything was decoded.
ReadInv ==
  /\ pc = "reading" /\ before.lines = Len(rollout) =>
       got = 1 .. position /\ (torn => position = Len(rollout))
  /\ pc = "compare" /\ before.lines = Len(rollout) /\ ~Oversized => Whole(got, chat.running)
  /\ pc \in {"answered", "dispatch", "save"} /\ chat.unchanged = FALSE /\ chat.print # None =>
       /\ chat.print.lines <= Len(rollout)
       /\ chat.print.lines = Len(rollout) /\ ~Oversized => Whole(got, chat.running)
  /\ pc = "save" => Texts(got) \subseteq mirrored

\* Nor does what was saved hide anything.
SavedInv ==
  /\ saved \in Answer \cup {None}
  /\ saved # None =>
       /\ saved \in Answer /\ saved.print # None
       /\ saved.print.lines <= Len(rollout)
       /\ saved.print.lines = Len(rollout) /\ ~Oversized =>
            Texts(Lines) \subseteq mirrored /\ (saved.running => Active(Lines))

LaneInv == FileInv /\ PollInv /\ ReadInv /\ SavedInv

LEMMA LaneInitInv == LaneInit => LaneInv
<1> SUFFICES ASSUME LaneInit PROVE LaneInv
  OBVIOUS
<1> USE DEF LaneInit
<1>1. rollout \in Seq(Line) /\ Len(rollout) = 0
  OBVIOUS
<1>2. FileInv
  <2>1. Len(rollout) <= Bound + 1
    BY <1>1, BoundAssumption
  <2>2. fragment \in BOOLEAN /\ quiet \in BOOLEAN /\ stale \in BOOLEAN
    OBVIOUS
  <2> QED
    BY <1>1, <2>1, <2>2 DEF FileInv
<1>3. PollInv
  <2>1. position \in 0 .. Len(rollout)
    BY <1>1
  <2>2. torn \in BOOLEAN
    OBVIOUS
  <2> QED
    BY <2>1, <2>2 DEF PollInv
<1>4. ReadInv /\ SavedInv
  BY DEF ReadInv, SavedInv
<1> QED
  BY <1>2, <1>3, <1>4 DEF LaneInv

-----------------------------------------------------------------------------
\* The app's writes: only a longer file, which satisfies none of the equations.
LEMMA WritesKeeps ==
  ASSUME LaneInv, NEW line \in Line, Writes(line) PROVE LaneInv'
<1>0. UNCHANGED <<saved, mirrored, pc, before, position, torn, got, chat>>
  BY DEF Writes, poll
<1> USE <1>0 DEF LaneInv
<1>1. /\ fragment' = FALSE /\ quiet' = FALSE /\ stale' = FALSE /\ Len(rollout) <= Bound
      /\ rollout' \in Seq(Line) /\ Len(rollout') = Len(rollout) + 1 /\ Len(rollout) \in Nat
      /\ \A k \in 1 .. Len(rollout) : rollout'[k] = rollout[k]
  BY DEF FileInv, Writes
<1>2. FileInv'
  <2>1. mirrored \subseteq Texts(Lines)'
    BY <1>1 DEF FileInv, Texts, Lines
  <2>2. Len(rollout') <= Bound + 1
    BY <1>1, BoundAssumption
  <2> QED
    BY <1>1, <2>1, <2>2 DEF FileInv
<1>3. PollInv'
  BY <1>1 DEF PollInv, FilePrint
<1>4. ReadInv'
  <2>1. pc = "save" => Texts(got)' \subseteq mirrored
    BY <1>1 DEF ReadInv, PollInv, Texts
  <2>2. chat.print # None /\ chat \in Answer => chat.print.lines \in Nat
    BY DEF Answer, FilePrint
  <2>3. before \in FilePrint => before.lines \in Nat
    BY DEF FilePrint
  <2> QED
    BY <1>1, <2>1, <2>2, <2>3 DEF ReadInv, PollInv
<1>5. SavedInv'
  <2>1. saved \in Answer /\ saved.print # None => saved.print.lines \in Nat
    BY DEF Answer, FilePrint
  <2> QED
    BY <1>1, <2>1 DEF SavedInv
<1> QED
  BY <1>2, <1>3, <1>4, <1>5

\* A file that stays as it is, for the actions of the poll.
LEMMA FileStays ==
  ASSUME UNCHANGED rollout
  PROVE  /\ Lines' = Lines /\ Oversized' = Oversized
         /\ \A S : Texts(S)' = Texts(S)
         /\ \A S : Active(S)' = Active(S)
         /\ \A S, r : Whole(S, r)' = Whole(S, r)
BY DEF Lines, Oversized, Texts, Active, Turns, Last, Whole

\* Steps that leave the poll as it is.
LEMMA OthersKeep ==
  ASSUME LaneInv,
         WritesFragment \/ Silence \/ Remote \/ UNCHANGED laneVars
  PROVE  LaneInv'
<1>1. UNCHANGED <<rollout, saved, mirrored, pc, before, position, torn, got, chat>>
  BY DEF WritesFragment, Silence, Remote, laneVars, file, poll
<1>2. fragment' \in BOOLEAN /\ quiet' \in BOOLEAN /\ stale' \in BOOLEAN
  <2>1. fragment \in BOOLEAN /\ quiet \in BOOLEAN /\ stale \in BOOLEAN
    BY DEF LaneInv, FileInv
  <2> QED
    BY <2>1 DEF WritesFragment, Silence, Remote, laneVars, file
<1>3. FileInv'
  BY <1>1, <1>2, FileStays DEF LaneInv, FileInv
<1>4. PollInv'
  BY <1>1 DEF LaneInv, PollInv
<1>5. ReadInv' /\ SavedInv'
  BY <1>1, FileStays DEF LaneInv, ReadInv, SavedInv
<1> QED
  BY <1>3, <1>4, <1>5 DEF LaneInv

\* A poll that ends, in whatever way, after messages M were posted.
LEMMA IdleKeeps ==
  ASSUME LaneInv, Idle, UNCHANGED <<file, saved>>,
         NEW M \in SUBSET Texts(Lines), mirrored' = mirrored \cup M
  PROVE  LaneInv'
<1> USE DEF LaneInv, file, Idle
<1>1. FileInv'
  BY FileStays DEF FileInv
<1>2. PollInv'
  <2>1. Len(rollout) \in Nat
    BY DEF FileInv
  <2>2. position' \in 0 .. Len(rollout') /\ got' \subseteq 1 .. position'
    BY <2>1
  <2>3. torn' \in BOOLEAN
    OBVIOUS
  <2> QED
    BY <2>2, <2>3 DEF PollInv
<1>3. ReadInv'
  BY DEF ReadInv
<1>4. SavedInv'
  BY FileStays DEF SavedInv
<1> QED
  BY <1>1, <1>2, <1>3, <1>4

\* The same, after none was.
LEMMA EndKeeps ==
  ASSUME LaneInv, Idle, UNCHANGED <<file, saved, mirrored>> PROVE LaneInv'
<1>1. {} \in SUBSET Texts(Lines) /\ mirrored' = mirrored \cup {}
  OBVIOUS
<1>2. UNCHANGED <<file, saved>>
  OBVIOUS
<1> QED
  BY <1>1, <1>2, IdleKeeps

\* The feed's steps leave file, cache, room and what was saved.
LEMMA FeedKeeps ==
  ASSUME LaneInv, UNCHANGED <<file, saved, mirrored>>, PollInv', ReadInv'
  PROVE  LaneInv'
<1>1. FileInv' /\ SavedInv'
  BY FileStays DEF LaneInv, FileInv, SavedInv, file
<1> QED
  BY <1>1 DEF LaneInv

LEMMA SizeIsPrint ==
  ASSUME LaneInv
  PROVE  /\ Size \in FilePrint /\ Size.lines = Len(rollout) /\ Len(rollout) \in Nat
         /\ \A p \in FilePrint : p.lines \in Nat
BY DEF LaneInv, FileInv, Size, FilePrint

LEMMA ListKeeps == ASSUME LaneInv, List PROVE LaneInv'
<1> USE DEF List, Goto, file
<1>1. PollInv'
  <2>1. before' \in FilePrint /\ before'.lines <= Len(rollout)
    BY SizeIsPrint
  <2>2. pc' \in {"recheck", "reading"} /\ (pc' = "recheck" => saved \in Answer /\ saved.print = before')
    BY DEF LaneInv, SavedInv
  <2> QED
    BY <2>1, <2>2 DEF LaneInv, PollInv
<1>2. ReadInv'
  BY DEF LaneInv, PollInv, ReadInv
<1> QED
  BY <1>1, <1>2, FeedKeeps

LEMMA RecheckKeeps == ASSUME LaneInv, Recheck PROVE LaneInv'
<1> USE DEF Recheck, Goto, file
<1>1. chat' \in Answer \cup {None} /\ (pc' = "answered" => chat' \in Answer /\ chat'.unchanged = TRUE)
  <2>1. CASE Size = before
    <3>1. before \in FilePrint /\ saved \in Answer
      BY DEF LaneInv, PollInv
    <3>2. Hydrated \in BOOLEAN
      BY <3>1 DEF Hydrated, Answer
    <3>3. chat' = [print |-> before, running |-> Hydrated, unchanged |-> TRUE]
      BY <2>1
    <3>4. chat' \in Answer
      BY <3>1, <3>2, <3>3 DEF Answer
    <3> QED
      BY <3>3, <3>4
  <2>2. CASE Size # before
    BY <2>2 DEF LaneInv, PollInv
  <2> QED
    BY <2>1, <2>2
<1>2. pc' \in {"answered", "reading"}
  OBVIOUS
<1>3. PollInv'
  BY <1>1, <1>2 DEF LaneInv, PollInv
<1>4. ReadInv'
  BY <1>1, <1>2 DEF LaneInv, PollInv, ReadInv
<1> QED
  BY <1>3, <1>4, FeedKeeps

LEMMA ReadLineKeeps == ASSUME LaneInv, ReadLine PROVE LaneInv'
<1> USE DEF ReadLine, file
<1>0. Len(rollout) \in Nat /\ position \in 0 .. Len(rollout) /\ got \subseteq 1 .. position
  BY SizeIsPrint DEF LaneInv, PollInv
<1>1. position' \in 0 .. Len(rollout) /\ got' \subseteq 1 .. position' /\ torn' \in BOOLEAN
  <2>1. torn' \in BOOLEAN
    OBVIOUS
  <2>2. position' \in 0 .. Len(rollout)
    BY <1>0
  <2>3. got' \subseteq 1 .. position'
    BY <1>0
  <2> QED
    BY <2>1, <2>2, <2>3
<1>2. PollInv'
  BY <1>1 DEF LaneInv, PollInv
<1>3. ASSUME before.lines = Len(rollout)
      PROVE  got' = 1 .. position' /\ torn' = FALSE
  <2>1. got = 1 .. position /\ ~torn
    BY <1>0, <1>3 DEF LaneInv, ReadInv
  <2>2. (1 .. position) \cup {position + 1} = 1 .. position + 1
    BY <1>0
  <2> QED
    BY <2>1, <2>2
<1>4. ReadInv'
  BY <1>3 DEF ReadInv
<1> QED
  BY <1>2, <1>4, FeedKeeps

LEMMA ReadFragmentKeeps == ASSUME LaneInv, ReadFragment PROVE LaneInv'
<1> USE DEF ReadFragment, file
<1>1. PollInv' /\ ReadInv'
  BY DEF LaneInv, PollInv, ReadInv
<1> QED
  BY <1>1, FeedKeeps

LEMMA EndOfFileKeeps == ASSUME LaneInv, EndOfFile PROVE LaneInv'
<1> USE DEF EndOfFile, Goto, file
<1>1. chat' \in Answer /\ pc' = "compare"
  BY DEF Answer, LaneInv, FileInv, Active
<1>2. PollInv'
  BY <1>1 DEF LaneInv, PollInv
<1>3. ReadInv'
  <2>1. ASSUME before.lines = Len(rollout), ~Oversized
        PROVE  Whole(got', chat'.running)
    <3>1. got' = got /\ got = Lines
      BY <2>1 DEF LaneInv, ReadInv, Lines
    <3>2. PICK fresh : chat'.running = (~Oversized /\ Active(got) /\ fresh)
      OBVIOUS
    <3> QED
      BY <3>1, <3>2 DEF Whole
  <2> QED
    BY <1>1, <2>1, FileStays DEF ReadInv
<1> QED
  BY <1>2, <1>3, FeedKeeps

LEMMA CompareKeeps == ASSUME LaneInv, Compare PROVE LaneInv'
<1> USE DEF Compare, Goto, file
<1>1. /\ chat' \in Answer /\ chat'.running = chat.running /\ pc' = "answered"
      /\ chat'.print = IF Size = before THEN before ELSE None
  BY DEF LaneInv, PollInv, Answer
<1>2. PollInv'
  BY <1>1 DEF LaneInv, PollInv
<1>3. ReadInv'
  BY <1>1, SizeIsPrint, FileStays DEF LaneInv, PollInv, ReadInv
<1> QED
  BY <1>2, <1>3, FeedKeeps

\* What is posted is in the file.
LEMMA GotIsRead == ASSUME LaneInv PROVE Texts(got) \subseteq Texts(Lines)
BY SizeIsPrint DEF LaneInv, PollInv, Texts, Lines

LEMMA AnsweredKeeps == ASSUME LaneInv, Answered PROVE LaneInv'
<1>1. UNCHANGED <<file, saved, mirrored>>
  BY DEF Answered
<1>2. CASE Idle
  BY <1>1, <1>2, EndKeeps
<1>3. CASE ~Idle
  <2>1. /\ pc = "answered" /\ pc' = "dispatch" /\ chat.unchanged # TRUE
        /\ UNCHANGED <<before, position, torn, got, chat>>
    BY <1>3 DEF Answered, Goto
  <2>2. chat.unchanged = FALSE
    BY <2>1 DEF LaneInv, PollInv, Answer
  <2>3. PollInv'
    BY <1>1, <2>1, <2>2 DEF LaneInv, PollInv, file
  <2>4. ReadInv'
    BY <1>1, <2>1, <2>2, FileStays DEF LaneInv, ReadInv, file
  <2> QED
    BY <1>1, <2>3, <2>4, FeedKeeps
<1> QED
  BY <1>2, <1>3

LEMMA DispatchKeeps == ASSUME LaneInv, Dispatch PROVE LaneInv'
<1> USE DEF Dispatch, Goto, file
<1>1. FileInv'
  BY GotIsRead, FileStays DEF LaneInv, FileInv
<1>2. PollInv'
  BY DEF LaneInv, PollInv
<1>3. ReadInv'
  BY FileStays DEF LaneInv, ReadInv
<1>4. SavedInv'
  BY FileStays DEF LaneInv, SavedInv
<1> QED
  BY <1>1, <1>2, <1>3, <1>4 DEF LaneInv

LEMMA DispatchFailsKeeps == ASSUME LaneInv, DispatchFails PROVE LaneInv'
<1>1. PICK n \in 1 .. position : mirrored' = mirrored \cup {k \in Texts(got) : k < n}
  BY DEF DispatchFails
<1>2. {k \in Texts(got) : k < n} \in SUBSET Texts(Lines)
  BY GotIsRead
<1> QED
  BY <1>1, <1>2, IdleKeeps DEF DispatchFails

LEMMA SaveKeeps == ASSUME LaneInv, Save PROVE LaneInv'
<1> USE DEF Save, Idle, file
<1>1. LaneInv /\ chat \in Answer /\ chat.unchanged = FALSE /\ pc = "save"
  BY DEF LaneInv, PollInv
<1>2. SavedInv'
  <2>1. CASE chat.print = None
    BY <2>1, FileStays DEF LaneInv, SavedInv
  <2>2. CASE chat.print # None
    BY <1>1, <2>2, FileStays DEF LaneInv, SavedInv, ReadInv, Whole
  <2> QED
    BY <2>1, <2>2
<1>3. FileInv'
  BY FileStays DEF LaneInv, FileInv
<1>4. PollInv' /\ ReadInv'
  <2>1. position' \in 0 .. Len(rollout') /\ got' \subseteq 1 .. position'
    BY SizeIsPrint
  <2>2. torn' \in BOOLEAN
    OBVIOUS
  <2> QED
    BY <2>1, <2>2 DEF PollInv, ReadInv
<1> QED
  BY <1>2, <1>3, <1>4 DEF LaneInv

LEMMA EndsKeep == ASSUME LaneInv, Fails \/ LaneRestart PROVE LaneInv'
<1>1. Idle /\ UNCHANGED <<file, saved, mirrored>>
  BY DEF Fails, LaneRestart
<1> QED
  BY <1>1, EndKeeps

-----------------------------------------------------------------------------
LEMMA LaneStep == LaneInv /\ [LaneNext]_laneVars => LaneInv'
<1> SUFFICES ASSUME LaneInv, [LaneNext]_laneVars PROVE LaneInv'
  OBVIOUS
<1>1. CASE \E line \in Line : Writes(line)
  BY <1>1, WritesKeeps
<1>2. CASE WritesFragment \/ Silence \/ Remote \/ UNCHANGED laneVars
  BY <1>2, OthersKeep
<1>3. CASE Poll
  BY <1>3, ListKeeps, RecheckKeeps, ReadLineKeeps, ReadFragmentKeeps, EndOfFileKeeps,
     CompareKeeps, AnsweredKeeps, DispatchKeeps, SaveKeeps DEF Poll
<1>4. CASE DispatchFails \/ Fails \/ LaneRestart
  BY <1>4, DispatchFailsKeeps, EndsKeep
<1> QED
  BY <1>1, <1>2, <1>3, <1>4 DEF LaneNext

LEMMA LaneAlways == LaneSpec => []LaneInv
BY LaneInitInv, LaneStep, PTL DEF LaneSpec

\* As long as the feed would answer Unchanged, the room has every message of the
\* file, for any number of lines and however the app wrote during the reads
\* (codex_source.py:298-319).
THEOREM FingerprintIsSound == LaneSpec => []UnchangedHidesNothing
<1>1. LaneInv => UnchangedHidesNothing
  BY SizeIsPrint DEF LaneInv, SavedInv, UnchangedHidesNothing
<1> QED
  BY <1>1, LaneAlways, PTL

\* A message is posted after every message before it that the read could decode
\* (dispatch stops at the first failure, connector.go:254-259).
THEOREM FileOrderKept == LaneSpec => InFileOrder
<1> DEFINE Ordered ==
      \A k \in mirrored' \ mirrored : \A j \in Texts(1 .. k - 1) :
        j \in mirrored' \/ j \notin got
<1>1. ASSUME LaneInv, [LaneNext]_laneVars PROVE Ordered
  <2>1. CASE UNCHANGED mirrored
    BY <2>1
  <2>2. CASE Dispatch
    BY <2>2 DEF Dispatch, Texts
  <2>3. CASE DispatchFails
    <3>1. PICK n \in 1 .. position : mirrored' = mirrored \cup {k \in Texts(got) : k < n}
      BY <2>3 DEF DispatchFails
    <3>2. position \in Nat /\ got \subseteq 1 .. position
      BY <1>1, SizeIsPrint DEF LaneInv, PollInv
    <3>3. ASSUME NEW k \in mirrored' \ mirrored, NEW j \in Texts(1 .. k - 1), j \in got
          PROVE  j \in mirrored'
      <4>1. k \in 1 .. position /\ k < n
        BY <3>1, <3>2, <3>3 DEF Texts
      <4>2. j \in Texts(got) /\ j \in 1 .. k - 1
        BY <3>3 DEF Texts
      <4>3. j < n
        BY <3>2, <4>1, <4>2
      <4> QED
        BY <3>1, <4>2, <4>3
    <3> QED
      BY <3>3
  <2> QED
    BY <1>1, <2>1, <2>2, <2>3
    DEF LaneNext, laneVars, Writes, WritesFragment, Silence, Poll, List, Recheck, ReadLine,
        ReadFragment, EndOfFile, Compare, Answered, Save, Fails, Remote, LaneRestart
<1> QED
  BY <1>1, LaneAlways, PTL DEF InFileOrder, LaneSpec

-----------------------------------------------------------------------------
\* What the feed says of the task is something a source may return.
LEMMA TaskIsExport ==
  ASSUME NEW t \in Time, NEW r \in BOOLEAN
  PROVE  {[id |-> Task, updatedAt |-> t, running |-> r]} \in Exports["local"]
<1> DEFINE c == [id |-> Task, updatedAt |-> t, running |-> r]
<1>1. c \in Chats("local")
  BY TaskAssumption DEF Chats, Owned
<1>2. IsFiniteSet({c}) /\ Distinct({c})
  BY FS_Singleton DEF Distinct
<1> QED
  BY <1>1, <1>2 DEF Exports, Lane

\* The lane with its feed is a lane of ActiveSet: every answer is a read that
\* ActiveSet has, and no other step touches the cache (sync.go:213-238).
THEOREM LaneImplementsCache == LaneSpec => Spec
<1>1. LaneInit => Init
  BY DEF LaneInit
<1>2. LaneInv /\ [LaneNext]_laneVars => [Next]_vars
  <2> SUFFICES ASSUME LaneInv, [LaneNext]_laneVars PROVE [Next]_vars
    OBVIOUS
  <2>1. CASE Answered
    <3>1. chat.running \in BOOLEAN
      BY <2>1 DEF Answered, LaneInv, PollInv, Answer
    <3>2. PICK t \in Time :
            UpdateCache("local", {[id |-> Task, updatedAt |-> t, running |-> chat.running]})
      BY <2>1 DEF Answered
    <3>3. {[id |-> Task, updatedAt |-> t, running |-> chat.running]} \in Exports["local"]
      BY <3>1, TaskIsExport
    <3> QED
      BY <3>2, <3>3 DEF Next, Lane
  <2>2. CASE Remote
    BY <2>2 DEF Remote, Next, Lane
  <2>3. CASE LaneRestart
    BY <2>3 DEF LaneRestart, Next
  <2>4. CASE UNCHANGED vars
    BY <2>4
  <2> QED
    BY <2>1, <2>2, <2>3, <2>4
    DEF LaneNext, laneVars, Writes, WritesFragment, Silence, Poll, List, Recheck, ReadLine,
        ReadFragment, EndOfFile, Compare, Dispatch, DispatchFails, Save, Fails
<1> QED
  BY <1>1, <1>2, LaneAlways, PTL DEF LaneSpec, Spec

\* So the active set is still the cap over all that both lanes returned.
THEOREM LaneActiveIsTop == LaneSpec => [](ActiveIsCombinedTop /\ CapHolds)
BY LaneImplementsCache, ActiveIsTop, ActiveIsCapped, PTL

\* The types of the lane: file, fingerprint, reader and cache.
THEOREM LaneTypes == LaneSpec => []LaneTypeOK
<1>1. LaneInv /\ TypeOK => LaneTypeOK
  BY DEF LaneInv, FileInv, PollInv, SavedInv, LaneTypeOK
<1> QED
  BY <1>1, LaneAlways, LaneImplementsCache, CacheTypes, PTL
=============================================================================
