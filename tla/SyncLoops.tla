------------------------------ MODULE SyncLoops ------------------------------
(***************************************************************************)
(* The threads of one bridge client (pkg/connector/sync.go, health.go): a  *)
(* polling loop per source lane, the framework's Connect and Disconnect,   *)
(* and the requests that wake a lane.  "new" commands hold pollMu against  *)
(* the remote lane (what they do is Creations); Disconnect waits for the   *)
(* loops.  What a poll does with one conversation is Mirror and SavedSend. *)
(***************************************************************************)
CONSTANTS
  Lane,   \* the enabled lanes: "remote" always, "local" with Codex tasks
  None

ASSUME LaneAssumption == "remote" \in Lane /\ Lane \subseteq {"remote", "local"}
ASSUME NoneAssumption == None \notin Lane \cup {"command"}

VARIABLES
  client,     \* "off", "on", or "stopping": Disconnect waits for the loops
  pollMu,     \* holder of pollMu: "remote", "command" or None
  waiting,    \* a command waits for pollMu
  wake,       \* a token is in the lane's wake channel, of capacity one
  health,     \* last recorded outcome of each lane
  connected,  \* the flag behind the login's bridge state
  pc,         \* where each loop is
  asked       \* a request was made and no source read began since (history)

vars == <<client, pollMu, waiting, wake, health, connected, pc, asked>>

\* "read" is the part of a poll before it reads the source, "deliver" the rest.
Polling == {"read", "deliver"}

TypeOK ==
  /\ client \in {"off", "on", "stopping"}
  /\ pollMu \in {"remote", "command", None}
  /\ waiting \in BOOLEAN
  /\ wake \in [Lane -> BOOLEAN]
  /\ health \in [Lane -> {"starting", "failed", "ok"}]
  /\ connected \in BOOLEAN
  /\ pc \in [Lane -> {"stopped", "lock", "publish", "sleep"} \cup Polling]
  /\ asked \in [Lane -> BOOLEAN]
  /\ pollMu = "remote" <=> pc["remote"] \in Polling

Init ==
  /\ client = "off"
  /\ pollMu = None
  /\ waiting = FALSE
  /\ wake = [l \in Lane |-> FALSE]
  /\ health = [l \in Lane |-> "starting"]
  /\ connected = FALSE
  /\ pc = [l \in Lane |-> "stopped"]
  /\ asked = [l \in Lane |-> FALSE]

-----------------------------------------------------------------------------
(***************************************************************************)
(* The framework connects and disconnects the client.                      *)
(***************************************************************************)
Connect ==
  /\ client = "off"
  /\ client' = "on"
  /\ pc' = [l \in Lane |-> "lock"]
  /\ UNCHANGED <<pollMu, waiting, wake, health, connected, asked>>

Disconnect ==
  /\ client = "on"
  /\ client' = "stopping"
  /\ UNCHANGED <<pollMu, waiting, wake, health, connected, pc, asked>>

\* workers.Wait returned.
Disconnected_Unwaited ==
  /\ client = "stopping"
  /\ client' = "off"
  /\ connected' = FALSE
  /\ UNCHANGED <<pollMu, waiting, wake, health, pc, asked>>
Disconnected ==
  /\ client = "stopping"
  /\ \A l \in Lane : pc[l] = "stopped"
  /\ client' = "off"
  /\ connected' = FALSE
  /\ UNCHANGED <<pollMu, waiting, wake, health, pc, asked>>

-----------------------------------------------------------------------------
\* A non-blocking send on the wake channel: "retry", a saved reply, a finished
\* generation, a created conversation.
Request_Unbuffered(l) ==
  /\ wake' = [wake EXCEPT ![l] = @ \/ pc[l] = "sleep"]
  /\ asked' = [asked EXCEPT ![l] = TRUE]
  /\ UNCHANGED <<client, pollMu, waiting, health, connected, pc>>
Request(l) ==
  /\ wake' = [wake EXCEPT ![l] = TRUE]
  /\ asked' = [asked EXCEPT ![l] = TRUE]
  /\ UNCHANGED <<client, pollMu, waiting, health, connected, pc>>

\* A "new" command waits for pollMu, holds it for its whole call of the backend,
\* whether or not the client is connected, and releases it.  One command at a time
\* waits or holds; several would take turns.
CommandWaits ==
  /\ ~waiting /\ pollMu # "command"
  /\ waiting' = TRUE
  /\ UNCHANGED <<client, pollMu, wake, health, connected, pc, asked>>

CommandLocks ==
  /\ waiting
  /\ pollMu = None
  /\ pollMu' = "command"
  /\ waiting' = FALSE
  /\ UNCHANGED <<client, wake, health, connected, pc, asked>>

CommandEnds_Leaks ==
  /\ pollMu = "command"
  /\ UNCHANGED <<client, pollMu, waiting, wake, health, connected, pc, asked>>
CommandEnds ==
  /\ pollMu = "command"
  /\ pollMu' = None
  /\ UNCHANGED <<client, waiting, wake, health, connected, pc, asked>>

-----------------------------------------------------------------------------
(***************************************************************************)
(* One polling loop.                                                       *)
(***************************************************************************)
Goto(l, label) == pc' = [pc EXCEPT ![l] = label]

\* Only the mutex of the remote lane has other takers.
Free(l) == l = "remote" => pollMu = None

Release(l) == pollMu' = IF pollMu = l THEN None ELSE pollMu

Lock(l) ==
  /\ pc[l] = "lock"
  /\ Free(l)
  /\ client = "on"
  /\ pollMu' = IF l = "remote" THEN l ELSE pollMu
  /\ Goto(l, "read")
  /\ UNCHANGED <<client, waiting, wake, health, connected, asked>>

\* Refresh and the recovery of creations came before; a failed refresh does not
\* keep the archive from being read.
Read(l) ==
  /\ pc[l] = "read"
  /\ asked' = [asked EXCEPT ![l] = FALSE]
  /\ Goto(l, "deliver")
  /\ UNCHANGED <<client, pollMu, waiting, wake, health, connected>>

RecordHealth(l) == \E outcome \in {"failed", "ok"} : health' = [health EXCEPT ![l] = outcome]

\* The poll ends: its outcome is recorded if it was not cancelled.
Deliver_KeepsMutex(l) ==
  /\ pc[l] = "deliver"
  /\ client = "on"
  /\ RecordHealth(l)
  /\ Goto(l, "publish")
  /\ UNCHANGED <<client, pollMu, waiting, wake, connected, asked>>
Deliver(l) ==
  /\ pc[l] = "deliver"
  /\ client = "on"
  /\ RecordHealth(l)
  /\ Release(l)
  /\ Goto(l, "publish")
  /\ UNCHANGED <<client, waiting, wake, connected, asked>>

\* The states of all lanes are read, and the flag set, under the health mutex; a
\* lane whose last attempt is too long ago is not connected either.
Publish_OwnLane(l) ==
  /\ pc[l] = "publish"
  /\ connected' = (health[l] = "ok")
  /\ Goto(l, "sleep")
  /\ UNCHANGED <<client, pollMu, waiting, wake, health, asked>>
Publish(l) ==
  /\ pc[l] = "publish"
  /\ connected' \in {FALSE, \A k \in Lane : health[k] = "ok"}
  /\ Goto(l, "sleep")
  /\ UNCHANGED <<client, pollMu, waiting, wake, health, asked>>

\* The timer fires, or a token arrives.
Wake(l) ==
  /\ pc[l] = "sleep"
  /\ wake' \in {wake, [wake EXCEPT ![l] = FALSE]}
  /\ Goto(l, "lock")
  /\ UNCHANGED <<client, pollMu, waiting, health, connected, asked>>

\* The context is cancelled: a sleeping loop leaves at once, a poll at its next
\* check, and one that waits for its mutex only after it got it.
Leave(l) ==
  /\ client = "stopping"
  /\ pc[l] # "stopped"
  /\ pc[l] = "lock" => Free(l)
  /\ Release(l)
  /\ Goto(l, "stopped")
  /\ UNCHANGED <<client, waiting, wake, health, connected, asked>>

Loop(l) ==
  Lock(l) \/ Read(l) \/ Deliver(l) \/ Publish(l) \/ Wake(l) \/ Leave(l)

Next ==
  \/ Connect \/ Disconnect \/ Disconnected
  \/ CommandWaits \/ CommandLocks \/ CommandEnds
  \/ \E l \in Lane : Request(l) \/ Loop(l)

Spec == Init /\ [][Next]_vars

-----------------------------------------------------------------------------
\* No wakeup is lost: a request that no read has served leaves a token for the
\* loop's next sleep, unless its poll has yet to read (sync.go:85-90).
AskedIsPending ==
  \A l \in Lane : asked[l] => wake[l] \/ pc[l] \in {"stopped", "lock", "read"}

\* Once Disconnect returned no loop runs and the login is not shown as connected
\* (sync.go:103-112).
QuietWhenOff == client = "off" => ~connected /\ \A l \in Lane : pc[l] = "stopped"

\* The login is shown as connected only while the last recorded poll of every lane
\* succeeded, or a loop is about to publish a failure: a success of one lane does
\* not hide a failure of the other (sync.go:70-83).
ConnectedIsTrue ==
  connected /\ client = "on" =>
    \/ \A l \in Lane : health[l] = "ok"
    \/ \E l \in Lane : health[l] # "ok" /\ pc[l] = "publish"

-----------------------------------------------------------------------------
\* Timers fire, every subprocess and request of a poll or a command has a timeout,
\* and Go's mutexes starve no waiter.
Fairness ==
  /\ WF_vars(Disconnected)
  /\ WF_vars(CommandEnds)
  /\ SF_vars(CommandLocks)
  /\ \A l \in Lane : WF_vars(Loop(l)) /\ SF_vars(Lock(l)) /\ SF_vars(Leave(l))

FairSpec == Spec /\ Fairness

\* Disconnect does not wait for ever, even for a poll behind a running command.
DisconnectReturns == client = "stopping" ~> client = "off"

\* A request is served by a read of its lane unless the client is stopped.
AskedIsServed == \A l \in Lane : asked[l] ~> (~asked[l] \/ client # "on")

\* No loop and no earlier poll keeps a command waiting for ever.
CommandRuns == waiting ~> pollMu = "command"
=============================================================================
