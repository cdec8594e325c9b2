------------------------------ MODULE ActiveSet ------------------------------
(***************************************************************************)
(* Which conversations are active (pkg/connector/config.go, sync.go): the  *)
(* two lanes poll their own sources at their own times, each keeps only    *)
(* the best candidates of its last read, and the cap applies to both       *)
(* together.  Only active conversations are dispatched and only by their   *)
(* own lane.                                                               *)
(***************************************************************************)
EXTENDS Naturals, FiniteSets

CONSTANTS
  RemoteChat,   \* conversations of the remote source; ids are ordered numbers
  LocalChat,    \* conversations of the local source
  Allowed,      \* Config.AllowConversations, or everything
  Limit,        \* activeLimit()
  Time          \* values of updated_at

Lane == {"remote", "local"}
Id   == RemoteChat \cup LocalChat

ASSUME ChatAssumption == Id \subseteq Nat /\ RemoteChat \cap LocalChat = {}
ASSUME LimitAssumption == Limit \in Nat \ {0}
ASSUME TimeAssumption == Time \subseteq Nat

Owned(l) == IF l = "remote" THEN RemoteChat ELSE LocalChat

Chats(l) == [id : Owned(l), updatedAt : Time, running : BOOLEAN]
Chat     == Chats("remote") \cup Chats("local")

\* What the source of a lane may return: finitely many conversations, each once.
Distinct(chats) == \A x, y \in chats : x.id = y.id => x = y
Exports ==
  [l \in Lane |-> {S \in SUBSET Chats(l) : IsFiniteSet(S) /\ Distinct(S)}]

VARIABLES
  candidates,  \* metadata kept of each lane's last read
  active,      \* ids of the active conversations
  seen         \* everything each lane's last read returned (history)

vars == <<candidates, active, seen>>

-----------------------------------------------------------------------------
\* selectActive: running first, then the most recently updated, then by id.
Above(x, y) ==
  \/ x.running /\ ~y.running
  \/ /\ x.running = y.running
     /\ \/ x.updatedAt > y.updatedAt
        \/ x.updatedAt = y.updatedAt /\ x.id > y.id

Outrank(x, chats) == {y \in chats : Above(y, x)}

Top(chats) == {x \in chats : Cardinality(Outrank(x, chats)) < Limit}

Eligible(chats) == {x \in chats : x.id \in Allowed}

SelectActive(chats) == Top(Eligible(chats))

Ids(chats) == {x.id : x \in chats}

-----------------------------------------------------------------------------
TypeOK ==
  /\ candidates \in [Lane -> SUBSET Chat]
  /\ \A l \in Lane : candidates[l] \subseteq seen[l]
  /\ active \subseteq Id \cap Allowed
  /\ seen \in [Lane -> SUBSET Chat]
  /\ \A l \in Lane : seen[l] \in Exports[l]

Init ==
  /\ candidates = [l \in Lane |-> {}]
  /\ active = {}
  /\ seen = [l \in Lane |-> {}]

\* updateSourceCache after a successful read of one lane.
UpdateCache_Selected(l, chats) ==
  LET best == SelectActive(chats)
      kept == UNION {candidates[k] : k \in Lane \ {l}}
  IN
  /\ candidates' = [candidates EXCEPT ![l] = best \cap SelectActive(best \cup kept)]
  /\ active' = Ids(SelectActive(best \cup kept))
  /\ seen' = [seen EXCEPT ![l] = chats]
UpdateCache(l, chats) ==
  LET best == SelectActive(chats)
      kept == UNION {candidates[k] : k \in Lane \ {l}}
  IN
  /\ candidates' = [candidates EXCEPT ![l] = best]
  /\ active' = Ids(SelectActive(best \cup kept))
  /\ seen' = [seen EXCEPT ![l] = chats]

\* The cache is in memory only.
Restart ==
  /\ candidates' = [l \in Lane |-> {}]
  /\ active' = {}
  /\ seen' = [l \in Lane |-> {}]

Next ==
  \/ Restart
  \/ \E l \in Lane : \E chats \in Exports[l] : UpdateCache(l, chats)

Spec == Init /\ [][Next]_vars

-----------------------------------------------------------------------------
\* Keeping only the best candidates of each lane loses nothing: the active set is
\* the cap applied to everything the last read of either lane returned, although
\* the lanes never read together (sync.go:213-226).
ActiveIsCombinedTop ==
  active = Ids(SelectActive(UNION {seen[l] : l \in Lane}))

\* The cap holds for both lanes together, and every active conversation is one
\* that the next poll of some lane would dispatch (README.md:24-25).
CapHolds ==
  /\ Cardinality(active) <= Limit
  /\ active \subseteq Ids(UNION {candidates[l] : l \in Lane})
=============================================================================
