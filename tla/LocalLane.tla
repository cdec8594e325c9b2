------------------------------ MODULE LocalLane ------------------------------
(***************************************************************************)
(* The local lane with one Codex task (scripts/codex_source.py feed and    *)
(* read_thread, internal/source/codex.go, feed.go, pkg/connector/sync.go). *)
(* The desktop app appends to the task's rollout file while the feed reads *)
(* it line by line; a fingerprint of the file, taken before the read and   *)
(* compared after it, is saved once everything that was read is delivered, *)
(* and as long as it matches the feed answers Unchanged.  What the feed    *)
(* says of the task competes in ActiveSet with the remote conversations;   *)
(* only an active task is dispatched.  How a message gets into its room is *)
(* Mirror's and MessageParts'.                                             *)
(***************************************************************************)
EXTENDS ActiveSet, Sequences

CONSTANTS
  Task,    \* the local task
  Bound,   \* lines up to which a rollout is read (128 MiB)
  None

ASSUME TaskAssumption == Task \in LocalChat
ASSUME BoundAssumption == Bound \in Nat

VARIABLES
  rollout,         \* the complete lines of the file
  fragment,        \* the beginning of another line is written
  quiet,           \* the last record is 300 seconds old
  stale,           \* the last write is 300 seconds old
  saved,           \* the delivered fingerprint and running flag in kv_store
  mirrored,        \* lines whose message is in the room
  pc,              \* where the poll is
  before,          \* the fingerprint the poll began with
  position, torn,  \* lines read so far; the next one was met before it was complete
  got,             \* lines decoded
  chat             \* the feed's answer: fingerprint, running, unchanged

file     == <<rollout, fragment, quiet, stale>>
poll     == <<pc, before, position, torn, got, chat>>
laneVars == <<vars, file, saved, mirrored, poll>>

Line     == {"start", "text", "end"}
FilePrint == [lines : Nat, fragment : BOOLEAN]
Answer   == [print : FilePrint \cup {None}, running : BOOLEAN, unchanged : BOOLEAN]

Size     == [lines |-> Len(rollout), fragment |-> fragment]
Last(S)  == {k \in S : \A j \in S : j <= k}
Turns(S) == {k \in S : rollout[k] # "text"}
Texts(S) == {k \in S : rollout[k] = "text"}
Lines    == 1 .. Len(rollout)

\* read_thread: the last turn event that was decoded is a start.
Active(S) == \E k \in Last(Turns(S)) : rollout[k] = "start"

LaneTypeOK ==
  /\ TypeOK
  /\ rollout \in Seq(Line) /\ Len(rollout) <= Bound + 1
  /\ fragment \in BOOLEAN /\ quiet \in BOOLEAN /\ stale \in BOOLEAN
  /\ saved \in Answer \cup {None} /\ (saved # None => saved.print # None)
  /\ mirrored \subseteq Texts(Lines)
  /\ pc \in {"idle", "recheck", "reading", "compare", "answered", "dispatch", "save"}
  /\ before \in FilePrint \cup {None}
  /\ position \in 0 .. Len(rollout) /\ torn \in BOOLEAN
  /\ got \subseteq 1 .. position
  /\ chat \in Answer \cup {None}

LaneInit ==
  /\ Init
  /\ rollout = <<>> /\ fragment = FALSE /\ quiet = FALSE /\ stale = FALSE
  /\ saved = None /\ mirrored = {}
  /\ pc = "idle" /\ before = None /\ position = 0 /\ torn = FALSE /\ got = {} /\ chat = None

-----------------------------------------------------------------------------
(***************************************************************************)
(* The desktop app and time.  A rollout only grows; a line may be written  *)
(* in pieces.  One line after the bound stands for all that outgrow it.    *)
(***************************************************************************)
Writes(line) ==
  /\ Len(rollout) <= Bound
  /\ line = "start" => ~Active(Lines)
  /\ line = "end" => Active(Lines)
  /\ Len(rollout) = Bound => line = "text"
  /\ rollout' = Append(rollout, line)
  /\ fragment' = FALSE /\ quiet' = FALSE /\ stale' = FALSE
  /\ UNCHANGED <<vars, saved, mirrored, poll>>

WritesFragment ==
  /\ Len(rollout) < Bound /\ ~fragment
  /\ fragment' = TRUE /\ stale' = FALSE
  /\ UNCHANGED <<vars, rollout, quiet, saved, mirrored, poll>>

\* The last record is not younger than the last write.
Silence ==
  /\ ~stale
  /\ quiet' = TRUE
  /\ stale' = quiet
  /\ UNCHANGED <<vars, rollout, fragment, saved, mirrored, poll>>

-----------------------------------------------------------------------------
(***************************************************************************)
(* One poll: the feed.                                                     *)
(***************************************************************************)
Idle ==
  /\ pc' = "idle" /\ before' = None
  /\ position' = 0 /\ torn' = FALSE /\ got' = {} /\ chat' = None

Goto(label) == pc' = label

\* loadDelivered, the catalog and the first fingerprint.
List ==
  /\ pc = "idle"
  /\ before' = Size
  /\ Goto(IF saved # None /\ saved.print = Size THEN "recheck" ELSE "reading")
  /\ UNCHANGED <<vars, file, saved, mirrored, position, torn, got, chat>>

\* An Unchanged answer, completed by HydrateUnchanged with what was delivered: a
\* task is said to have stopped only once its file is old.
Hydrated_Running == saved.running
Hydrated == saved.running /\ ~stale

Recheck ==
  /\ pc = "recheck"
  /\ IF Size = before
       THEN /\ chat' = [print |-> before, running |-> Hydrated, unchanged |-> TRUE]
            /\ Goto("answered")
       ELSE Goto("reading") /\ UNCHANGED chat
  /\ UNCHANGED <<vars, file, saved, mirrored, before, position, torn, got>>

\* The rest of a line that was met in the middle is no record either.
ReadLine ==
  /\ pc = "reading" /\ position < Len(rollout)
  /\ position' = position + 1
  /\ got' = IF torn THEN got ELSE got \cup {position + 1}
  /\ torn' = FALSE
  /\ UNCHANGED <<vars, file, saved, mirrored, pc, before, chat>>

ReadFragment ==
  /\ pc = "reading" /\ position = Len(rollout)
  /\ fragment /\ ~torn
  /\ torn' = TRUE
  /\ UNCHANGED <<vars, file, saved, mirrored, pc, before, position, got, chat>>

\* At the end of the file; nothing is taken from an oversized one.  If the last record
\* was not decoded, the one before it may be too old.
Oversized == Len(rollout) > Bound

EndOfFile ==
  /\ pc = "reading" /\ position = Len(rollout)
  /\ fragment => torn
  /\ got' = IF Oversized THEN {} ELSE got
  /\ \E fresh \in {~quiet} \cup IF Len(rollout) \in got THEN {} ELSE {FALSE} :
       chat' = [print |-> None, running |-> ~Oversized /\ Active(got) /\ fresh, unchanged |-> FALSE]
  /\ Goto("compare")
  /\ UNCHANGED <<vars, file, saved, mirrored, before, position, torn>>

Compare_After ==
  /\ pc = "compare"
  /\ chat' = [chat EXCEPT !.print = Size]
  /\ Goto("answered")
  /\ UNCHANGED <<vars, file, saved, mirrored, before, position, torn, got>>
Compare ==
  /\ pc = "compare"
  /\ chat' = [chat EXCEPT !.print = IF Size = before THEN before ELSE None]
  /\ Goto("answered")
  /\ UNCHANGED <<vars, file, saved, mirrored, before, position, torn, got>>

-----------------------------------------------------------------------------
(***************************************************************************)
(* One poll: delivery.                                                     *)
(***************************************************************************)
\* updateSourceCache, and the dispatch of an active task; there is nothing to post
\* for an Unchanged one.
Answered ==
  /\ pc = "answered"
  /\ \E t \in Time :
       UpdateCache("local", {[id |-> Task, updatedAt |-> t, running |-> chat.running]})
  /\ IF Task \in active' /\ ~chat.unchanged
       THEN Goto("dispatch") /\ UNCHANGED <<before, position, torn, got, chat>>
       ELSE Idle
  /\ UNCHANGED <<file, saved, mirrored>>

\* The messages are posted in order, up to the first that fails.
DispatchFails_Skips ==
  /\ pc = "dispatch"
  /\ \E S \in SUBSET Texts(got) : mirrored' = mirrored \cup S
  /\ Idle
  /\ UNCHANGED <<vars, file, saved>>
DispatchFails ==
  /\ pc = "dispatch"
  /\ \E n \in 1 .. position : mirrored' = mirrored \cup {k \in Texts(got) : k < n}
  /\ Idle
  /\ UNCHANGED <<vars, file, saved>>

Dispatch ==
  /\ pc = "dispatch"
  /\ mirrored' = mirrored \cup Texts(got)
  /\ Goto("save")
  /\ UNCHANGED <<vars, file, saved, before, position, torn, got, chat>>

Save ==
  /\ pc = "save"
  /\ saved' = IF chat.print = None THEN saved ELSE chat
  /\ Idle
  /\ UNCHANGED <<vars, file, mirrored>>

\* The process of the feed fails or takes too long, or the poll is cancelled.
Fails ==
  /\ pc # "idle"
  /\ Idle
  /\ UNCHANGED <<vars, file, saved, mirrored>>

Poll ==
  \/ List \/ Recheck \/ ReadLine \/ ReadFragment \/ EndOfFile \/ Compare
  \/ Answered \/ Dispatch \/ Save

Remote ==
  /\ \E chats \in Exports["remote"] : UpdateCache("remote", chats)
  /\ UNCHANGED <<file, saved, mirrored, poll>>

LaneRestart ==
  /\ Restart
  /\ Idle
  /\ UNCHANGED <<file, saved, mirrored>>

LaneNext ==
  \/ \E line \in Line : Writes(line)
  \/ WritesFragment \/ Silence
  \/ Poll \/ DispatchFails \/ Fails
  \/ Remote \/ LaneRestart

\* Time passes and polls repeat for ever.
LaneFairness == WF_laneVars(Silence) /\ WF_laneVars(Poll)

LaneSpec == LaneInit /\ [][LaneNext]_laneVars /\ LaneFairness

-----------------------------------------------------------------------------
\* As long as the saved fingerprint is that of the file, so that the feed answers
\* Unchanged, the room has every message of the file, and the task is kept as
\* running only if its last turn has not ended, however the app wrote during the
\* reads (codex_source.py:318-319).  An oversized file is excepted by design.
UnchangedHidesNothing ==
  saved # None /\ saved.print = Size /\ ~Oversized =>
    Texts(Lines) \subseteq mirrored /\ (saved.running => Active(Lines))

\* A message is posted after every message before it in the file, but for one the
\* read met before it was complete (docs/architecture.md:31, codex_source.py:114).
InFileOrder ==
  [][\A k \in mirrored' \ mirrored : \A j \in Texts(1 .. k - 1) :
       j \in mirrored' \/ j \notin got]_laneVars

\* From some time on every poll that begins is also completed.
PollsSucceed == <>[][pc # "idle" /\ pc' = "idle" => Answered \/ Save]_laneVars

\* Once polls succeed, every message of a task that stays active is delivered in the
\* end: no fingerprint is saved that hides one (codex_source.py:298-324) ...
CaughtUp ==
  PollsSucceed /\ <>[](Task \in active) => <>[](Oversized \/ Texts(Lines) \subseteq mirrored)

\* ... and a task whose app has gone silent in the middle of a turn outranks no other
\* conversation for ever, although its file no longer changes (codex_source.py:302).
SilentYields ==
  PollsSucceed => <>[](\A c \in candidates["local"] : ~c.running)
=============================================================================
