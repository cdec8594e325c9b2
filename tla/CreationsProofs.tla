--------------------------- MODULE CreationsProofs ---------------------------
(***************************************************************************)
(* Safety of Creations for any number of commands and crashes.  The        *)
(* inductive invariant says what holder of pollMu knows about the record   *)
(* it is working on.                                                       *)
(***************************************************************************)
EXTENDS Creations, TLAPS

\* What a command may conclude from where it is.
CommandKnows ==
  \A x \in Command :
    /\ cmd[x] = "insert" => record[x] # "done"
    /\ cmd[x] \in {"create", "confirm"} => record[x] = "pending"
    /\ cmd[x] = "confirm" => x \in created

\* What the poll may conclude from the entries it holds.
PollKnows ==
  /\ \A x \in left : record[x] = "pending"
  /\ entry # None => entry \notin left /\ record[entry] # "none" /\ entry \in created

IInv == TypeOK /\ CreationIsRecorded /\ CreatedIsTrue /\ CommandKnows /\ PollKnows

LEMMA InvInit == Init => IInv
BY CommandAssumption
DEF Init, IInv, TypeOK, CreationIsRecorded, CreatedIsTrue, CommandKnows, PollKnows, Working, Told

\* One step of createFromCommand.
LEMMA RunStep ==
  ASSUME IInv, NEW x \in Command, Run(x)
  PROVE  IInv'
<1> USE CommandAssumption
    DEF IInv, TypeOK, CreationIsRecorded, CreatedIsTrue, CommandKnows, PollKnows,
        Working, Told, Step, Reply, Save, poll
<1>1. CASE Arrive(x)
  BY <1>1 DEF Arrive
<1>2. CASE Lookup(x)
  BY <1>2 DEF Lookup
<1>3. CASE Insert(x)
  BY <1>3 DEF Insert
<1>4. CASE Create(x)
  BY <1>4 DEF Create, CreateSucceeds, CreateFails
<1>5. CASE Confirm(x)
  BY <1>5 DEF Confirm
<1> QED
  BY <1>1, <1>2, <1>3, <1>4, <1>5 DEF Run

\* One step of recoverCreations.
LEMMA PollStep ==
  ASSUME IInv, Poll
  PROVE  IInv'
<1> USE CommandAssumption
    DEF IInv, TypeOK, CreationIsRecorded, CreatedIsTrue, CommandKnows, PollKnows,
        Working, Told, Save
<1>1. CASE StartPoll
  BY <1>1 DEF StartPoll
<1>2. CASE EndPoll
  BY <1>2 DEF EndPoll
<1>3. ASSUME NEW x \in Command, Retry(x)
      PROVE  IInv'
  BY <1>3 DEF Retry, CreateSucceeds, CreateFails
<1>4. ASSUME NEW x \in Command, SaveResult(x)
      PROVE  IInv'
  BY <1>4 DEF SaveResult
<1> QED
  BY <1>1, <1>2, <1>3, <1>4 DEF Poll

LEMMA CrashStep ==
  ASSUME IInv, Crash
  PROVE  IInv'
BY CommandAssumption
DEF Crash, IInv, TypeOK, CreationIsRecorded, CreatedIsTrue, CommandKnows, PollKnows, Working, Told

LEMMA InvStep == IInv /\ [Next]_vars => IInv'
<1> SUFFICES ASSUME IInv, [Next]_vars PROVE IInv'
  OBVIOUS
<1>1. CASE UNCHANGED vars
  BY <1>1
  DEF vars, IInv, TypeOK, CreationIsRecorded, CreatedIsTrue, CommandKnows, PollKnows
<1> QED
  BY <1>1, RunStep, PollStep, CrashStep DEF Next

-----------------------------------------------------------------------------
LEMMA InvAlways == Spec => []IInv
BY InvInit, InvStep, PTL DEF Spec

\* Types, for any number of commands and crashes.
THEOREM CreationTypes == Spec => []TypeOK
BY InvAlways, PTL DEF IInv

\* One command works on the records at a time, and none while a poll retries them
\* (create.go:26-27, sync.go:119).
THEOREM MutexExcludes ==
  Spec => [](\A x \in Command :
               cmd[x] \in Working =>
                 /\ \A y \in Command : cmd[y] \in Working => x = y
                 /\ left = {} /\ entry = None)
<1>1. IInv => \A x \in Command :
                cmd[x] \in Working =>
                  /\ \A y \in Command : cmd[y] \in Working => x = y
                  /\ left = {} /\ entry = None
  BY CommandAssumption DEF IInv, TypeOK
<1> QED
  BY <1>1, InvAlways, PTL

\* The list of unfinished creations that a poll works through after reading it once
\* is never out of date: none of its entries was finished meanwhile
\* (create.go:62-106).
THEOREM ListIsCurrent == Spec => [](\A x \in left : record[x] = "pending")
<1>1. IInv => \A x \in left : record[x] = "pending"
  BY DEF IInv, PollKnows
<1> QED
  BY <1>1, InvAlways, PTL

\* Every conversation the backend created has a record (create.go:41-51).
THEOREM CreationsRecorded == Spec => []CreationIsRecorded
BY InvInit, InvStep, PTL DEF Spec, IInv

\* What is recorded or reported as created exists (create.go:47-60, 91-97).
THEOREM CreatedHolds == Spec => []CreatedIsTrue
BY InvInit, InvStep, PTL DEF Spec, IInv

\* The record of a result is never taken back (create.go:41-46).
THEOREM ResultIsFinal == Spec => DoneIsFinal
<1>1. IInv /\ [Next]_vars
        => [\A x \in Command : record[x] = "done" => record'[x] = "done"]_vars
  <2> SUFFICES ASSUME IInv, Next, NEW y \in Command, record[y] = "done"
               PROVE  record'[y] = "done"
    OBVIOUS
  <2> USE CommandAssumption DEF IInv, TypeOK, CommandKnows, Save, Working
  <2>1. ASSUME NEW x \in Command, Run(x)
        PROVE  record'[y] = "done"
    BY <2>1 DEF Run, Arrive, Lookup, Insert, Create, Confirm
  <2>2. CASE Poll
    BY <2>2 DEF Poll, StartPoll, EndPoll, Retry, SaveResult
  <2>3. CASE Crash
    BY <2>3 DEF Crash
  <2> QED
    BY <2>1, <2>2, <2>3 DEF Next
<1> QED
  BY <1>1, InvInit, InvStep, PTL DEF Spec, DoneIsFinal

\* A record changes only in the hands of its command or of the poll that saves its
\* result, and the backend is asked only for a transaction whose record is pending,
\* under the same mutex (create.go:26-60, 83-101).
WorkIsGuarded ==
  [][\A x \in Command :
       /\ record'[x] # record[x] => pollMu = x \/ (pollMu = "poll" /\ entry = x)
       /\ x \in created' \ created => record[x] = "pending" /\ pollMu \in {x, "poll"}]_vars

THEOREM MutexGuardsWork == Spec => WorkIsGuarded
<1>1. ASSUME IInv, Next, NEW y \in Command
      PROVE  /\ record'[y] # record[y] => pollMu = y \/ (pollMu = "poll" /\ entry = y)
             /\ y \in created' \ created => record[y] = "pending" /\ pollMu \in {y, "poll"}
  <2> USE <1>1, CommandAssumption
      DEF IInv, TypeOK, CommandKnows, PollKnows, Save, Working, poll
  <2>1. ASSUME NEW x \in Command, Run(x)
        PROVE  /\ record'[y] # record[y] => pollMu = y
               /\ y \in created' \ created => record[y] = "pending" /\ pollMu = y
    BY <2>1 DEF Run, Arrive, Lookup, Insert, Create, Confirm, CreateSucceeds, CreateFails
  <2>2. CASE Poll
    <3>1. CASE StartPoll \/ EndPoll
      BY <3>1 DEF StartPoll, EndPoll
    <3>2. ASSUME NEW x \in Command, Retry(x)
          PROVE  /\ record' = record
                 /\ y \in created' \ created => record[y] = "pending" /\ pollMu = "poll"
      BY <3>2 DEF Retry, CreateSucceeds, CreateFails
    <3>3. ASSUME NEW x \in Command, SaveResult(x)
          PROVE  /\ record'[y] # record[y] => pollMu = "poll" /\ entry = y
                 /\ created' = created
      BY <3>3 DEF SaveResult
    <3> QED
      BY <2>2, <3>1, <3>2, <3>3 DEF Poll
  <2>3. CASE Crash
    BY <2>3 DEF Crash
  <2> QED
    BY <2>1, <2>2, <2>3 DEF Next
<1>2. IInv /\ [Next]_vars =>
        [\A x \in Command :
           /\ record'[x] # record[x] => pollMu = x \/ (pollMu = "poll" /\ entry = x)
           /\ x \in created' \ created => record[x] = "pending" /\ pollMu \in {x, "poll"}]_vars
  BY <1>1
<1> QED
  BY <1>2, InvAlways, PTL DEF Spec, WorkIsGuarded
=============================================================================
