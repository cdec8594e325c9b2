------------------------------ MODULE Creations ------------------------------
(***************************************************************************)
(* Creating source conversations (pkg/connector/create.go).  A "new"       *)
(* command records its transaction, asks the backend to create the         *)
(* conversation and confirms the result in the record; every poll of the   *)
(* remote lane retries the records without a result.  Command and poll     *)
(* exclude each other with pollMu (SyncLoops), and the process may crash   *)
(* between any two of their statements and calls.  Room and event give a   *)
(* command its transaction id, so a redelivered command is the same one.   *)
(***************************************************************************)
EXTENDS Naturals

CONSTANTS
  Command,     \* "new" commands
  None,
  MaxCrashes   \* bound on the number of crashes

ASSUME CommandAssumption == None \notin Command \cup {"poll"} /\ "poll" \notin Command
ASSUME CrashAssumption == MaxCrashes \in Nat

VARIABLES
  record,       \* kv_store entry of each transaction
  created,      \* transactions the backend performed (external)
  sendEnabled,  \* Config.SendEnabled of the running process
  pollMu,       \* holder of pollMu: "poll", a command, or None
  left,         \* entries the poll read and has still to retry
  entry,        \* entry whose result the poll is saving, or None
  cmd,          \* where each command is
  reply,        \* what the owner was last told (history)
  crashes

poll == <<left, entry>>
vars == <<record, created, sendEnabled, pollMu, left, entry, cmd, reply, crashes>>

Working == {"insert", "create", "confirm"}
Told    == {"none", "refused", "unrecorded", "unresolved", "unconfirmed", "created"}

TypeOK ==
  /\ record \in [Command -> {"none", "pending", "done"}]
  /\ created \subseteq Command
  /\ sendEnabled \in BOOLEAN
  /\ pollMu \in Command \cup {"poll", None}
  /\ left \subseteq Command
  /\ entry \in Command \cup {None}
  /\ cmd \in [Command -> {"new", "lock", "over"} \cup Working]
  /\ reply \in [Command -> Told]
  /\ crashes \in Nat
  /\ \A x \in Command : pollMu = x <=> cmd[x] \in Working
  /\ pollMu # "poll" => left = {} /\ entry = None

Init ==
  /\ record = [x \in Command |-> "none"]
  /\ created = {}
  /\ sendEnabled \in BOOLEAN
  /\ pollMu = None
  /\ left = {}
  /\ entry = None
  /\ cmd = [x \in Command |-> "new"]
  /\ reply = [x \in Command |-> "none"]
  /\ crashes = 0

-----------------------------------------------------------------------------
\* Backend.Create performs a transaction at most once; its answer may be lost.
CreateSucceeds(x) == created' = created \cup {x}
CreateFails(x)    == created' \in {created, created \cup {x}}

Save(x, status) == record' = [record EXCEPT ![x] = status]

-----------------------------------------------------------------------------
(***************************************************************************)
(* createFromCommand.                                                      *)
(***************************************************************************)
Step(x, label) ==
  /\ cmd' = [cmd EXCEPT ![x] = label]
  /\ UNCHANGED <<reply, pollMu>>

Reply(x, what) ==
  /\ cmd' = [cmd EXCEPT ![x] = "over"]
  /\ reply' = [reply EXCEPT ![x] = what]
  /\ pollMu' = IF pollMu = x THEN None ELSE pollMu

Arrive(x) ==
  /\ cmd[x] = "new"
  /\ IF sendEnabled THEN Step(x, "lock") ELSE Reply(x, "refused")
  /\ UNCHANGED <<record, created, sendEnabled, poll, crashes>>

\* The lock is taken and the record looked up; a finished creation is only
\* reported again, and a record that cannot be read or is not this request's is refused.
Lookup_Barges(x) ==
  /\ cmd[x] = "lock"
  /\ \/ record[x] # "done" /\ cmd' = [cmd EXCEPT ![x] = "insert"] /\ pollMu' = x
        /\ UNCHANGED reply
     \/ record[x] = "done" /\ Reply(x, "created")
     \/ Reply(x, "unrecorded")
  /\ UNCHANGED <<record, created, sendEnabled, poll, crashes>>
Lookup(x) ==
  /\ cmd[x] = "lock"
  /\ pollMu = None
  /\ \/ record[x] # "done" /\ cmd' = [cmd EXCEPT ![x] = "insert"] /\ pollMu' = x
        /\ UNCHANGED reply
     \/ record[x] = "done" /\ Reply(x, "created")
     \/ Reply(x, "unrecorded")
  /\ UNCHANGED <<record, created, sendEnabled, poll, crashes>>

Insert_Unchecked(x) ==
  /\ cmd[x] = "insert"
  /\ Save(x, "pending") \/ UNCHANGED record
  /\ Step(x, "create")
  /\ UNCHANGED <<created, sendEnabled, poll, crashes>>
Insert(x) ==
  /\ cmd[x] = "insert"
  /\ \/ Save(x, "pending") /\ Step(x, "create")
     \/ UNCHANGED record /\ Reply(x, "unrecorded")
  /\ UNCHANGED <<created, sendEnabled, poll, crashes>>

Create(x) ==
  /\ cmd[x] = "create"
  /\ \/ CreateSucceeds(x) /\ Step(x, "confirm")
     \/ CreateFails(x) /\ Reply(x, "unresolved")
  /\ UNCHANGED <<record, sendEnabled, poll, crashes>>

Confirm_Unchecked(x) ==
  /\ cmd[x] = "confirm"
  /\ Save(x, "done") \/ UNCHANGED record
  /\ Reply(x, "created")
  /\ UNCHANGED <<created, sendEnabled, poll, crashes>>
Confirm(x) ==
  /\ cmd[x] = "confirm"
  /\ \/ Save(x, "done") /\ Reply(x, "created")
     \/ UNCHANGED record /\ Reply(x, "unconfirmed")
  /\ UNCHANGED <<created, sendEnabled, poll, crashes>>

Run(x) == Arrive(x) \/ Lookup(x) \/ Insert(x) \/ Create(x) \/ Confirm(x)

-----------------------------------------------------------------------------
(***************************************************************************)
(* recoverCreations, in a poll that holds pollMu.                          *)
(***************************************************************************)
StartPoll ==
  /\ pollMu = None
  /\ pollMu' = "poll"
  /\ left' = {x \in Command : record[x] = "pending"}
  /\ UNCHANGED <<record, created, sendEnabled, entry, cmd, reply, crashes>>

Retry(x) ==
  /\ x \in left /\ entry = None
  /\ sendEnabled
  /\ left' = left \ {x}
  /\ \/ CreateSucceeds(x) /\ entry' = x
     \/ CreateFails(x) /\ UNCHANGED entry
  /\ UNCHANGED <<record, sendEnabled, pollMu, cmd, reply, crashes>>

SaveResult_Drops(x) ==
  /\ entry = x
  /\ entry' = None
  /\ UNCHANGED <<record, left, created, sendEnabled, pollMu, cmd, reply, crashes>>
SaveResult(x) ==
  /\ entry = x
  /\ Save(x, "done")
  /\ entry' = None
  /\ UNCHANGED <<left, created, sendEnabled, pollMu, cmd, reply, crashes>>

\* The poll goes on to deliver and releases the mutex: all entries were tried, the
\* result of one could not be saved, sending is disabled, or the query failed.
EndPoll ==
  /\ pollMu = "poll"
  /\ pollMu' = None
  /\ left' = {} /\ entry' = None
  /\ UNCHANGED <<record, created, sendEnabled, cmd, reply, crashes>>

Poll == StartPoll \/ EndPoll \/ \E x \in Command : Retry(x) \/ SaveResult(x)

-----------------------------------------------------------------------------
\* The process dies and starts again, maybe with another send_enabled; any
\* command's event may be delivered again, or was already acknowledged.
Crash ==
  /\ crashes < MaxCrashes
  /\ crashes' = crashes + 1
  /\ sendEnabled' \in BOOLEAN
  /\ pollMu' = None
  /\ left' = {} /\ entry' = None
  /\ \E again \in SUBSET Command :
       cmd' = [x \in Command |-> IF cmd[x] = "new" \/ x \in again THEN "new" ELSE "over"]
  /\ UNCHANGED <<record, created, reply>>

Next == (\E x \in Command : Run(x)) \/ Poll \/ Crash

Spec == Init /\ [][Next]_vars

-----------------------------------------------------------------------------
\* Every conversation the backend created has a record from which a poll or the
\* redelivered command completes it (create.go:46-50): none is left without a way
\* back to the room it was asked from.
CreationIsRecorded == \A x \in created : record[x] # "none"

\* A creation reported as done is recorded as done, and one recorded as done exists.
CreatedIsTrue ==
  \A x \in Command :
    /\ reply[x] = "created" => record[x] = "done"
    /\ record[x] = "done" => x \in created

\* The record of a result is never taken back, whichever of a redelivered command
\* and a poll writes last (create.go:41-46, 91-93).
DoneIsFinal == [][\A x \in Command : record[x] = "done" => record'[x] = "done"]_vars

-----------------------------------------------------------------------------
\* Polls go on for ever (sync.go:46-67); a mutex waiter is not starved; the query,
\* the backend's call and the update succeed now and then.
Fairness ==
  /\ WF_vars(EndPoll) /\ SF_vars(StartPoll)
  /\ \A x \in Command :
       /\ WF_vars(Run(x))
       /\ SF_vars(Retry(x) /\ entry' = x)
       /\ SF_vars(SaveResult(x))

FairSpec == Spec /\ Fairness

\* A recorded creation is completed by the polls, unless sending stays disabled.
CreationCompletes ==
  []<>sendEnabled => \A x \in Command : record[x] = "pending" ~> record[x] = "done"
=============================================================================
