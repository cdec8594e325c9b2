----------------------------- MODULE SavedReply -----------------------------
(***************************************************************************)
(* What a room promises its owner about replies, without threads, crashes  *)
(* or statements (docs/architecture.md:44-56): one reply is outstanding at *)
(* a time; it is recorded before it is submitted; it stays recorded until  *)
(* it is linked to its Matrix event or is known not to have been           *)
(* submitted; and while one is outstanding nothing is mirrored, so a reply *)
(* never comes back as an echo.                                            *)
(***************************************************************************)
CONSTANTS Reply, Remote, None

VARIABLES
  held,     \* the recorded reply, or None
  prompts,  \* replies that may have been submitted
  known,    \* messages of the source conversation
  linked,   \* replies linked to their Matrix event
  posted    \* source messages mirrored into the room

vars == <<held, prompts, known, linked, posted>>

Init ==
  /\ held = None
  /\ prompts = {}
  /\ known = {}
  /\ linked = {}
  /\ posted = {}

Record(r) ==
  /\ held = None
  /\ held' = r
  /\ UNCHANGED <<prompts, known, linked, posted>>

\* Only the recorded reply is submitted; it may appear at once or later.
Submit(r) ==
  /\ held = r
  /\ prompts' = prompts \cup {r}
  /\ known' \in {known, known \cup {r}}
  /\ UNCHANGED <<held, linked, posted>>

Appear(s) ==
  /\ s \in prompts \cup Remote
  /\ known' = known \cup {s}
  /\ UNCHANGED <<held, prompts, linked, posted>>

Link(r) ==
  /\ held = r
  /\ r \in known
  /\ linked' = linked \cup {r}
  /\ UNCHANGED <<held, prompts, known, posted>>

Release ==
  /\ held \in linked \/ held \notin prompts
  /\ held' = None
  /\ UNCHANGED <<prompts, known, linked, posted>>

Mirror(s) ==
  /\ held = None
  /\ s \in known \cap Remote
  /\ posted' = posted \cup {s}
  /\ UNCHANGED <<held, prompts, known, linked>>

Next ==
  \/ \E r \in Reply : Record(r) \/ Submit(r) \/ Link(r)
  \/ \E s \in Reply \cup Remote : Appear(s)
  \/ Release
  \/ \E s \in Remote : Mirror(s)

Spec == Init /\ [][Next]_vars
=============================================================================
