--------------------------- MODULE SyncLoopsProofs ---------------------------
(***************************************************************************)
(* Safety of SyncLoops with one lane or both.  The four invariants are     *)
(* inductive together: that a stopped client is quiet keeps its loops from *)
(* stepping, and a failure can be hidden only until its loop publishes.    *)
(***************************************************************************)
EXTENDS SyncLoops, TLAPS

IInv == TypeOK /\ AskedIsPending /\ QuietWhenOff /\ ConnectedIsTrue

LEMMA InvInit == Init => IInv
BY LaneAssumption, NoneAssumption
DEF Init, IInv, TypeOK, AskedIsPending, QuietWhenOff, ConnectedIsTrue, Polling

\* Connecting, disconnecting, commands and requests.
LEMMA OthersStep ==
  ASSUME IInv,
         \/ Connect \/ Disconnect \/ Disconnected
         \/ CommandWaits \/ CommandLocks \/ CommandEnds
         \/ \E l \in Lane : Request(l)
  PROVE  IInv'
<1> USE LaneAssumption, NoneAssumption
    DEF IInv, TypeOK, AskedIsPending, QuietWhenOff, ConnectedIsTrue, Polling
<1>1. CASE Connect
  BY <1>1 DEF Connect
<1>2. CASE Disconnect
  BY <1>2 DEF Disconnect
<1>3. CASE Disconnected
  BY <1>3 DEF Disconnected
<1>4. CASE CommandWaits
  BY <1>4 DEF CommandWaits
<1>5. CASE CommandLocks
  BY <1>5 DEF CommandLocks
<1>6. CASE CommandEnds
  BY <1>6 DEF CommandEnds
<1>7. ASSUME NEW l \in Lane, Request(l)
      PROVE  IInv'
  BY <1>7 DEF Request
<1> QED
  BY <1>1, <1>2, <1>3, <1>4, <1>5, <1>6, <1>7

\* One step of a polling loop.
LEMMA LoopStep ==
  ASSUME IInv, NEW l \in Lane, Loop(l)
  PROVE  IInv'
<1> USE LaneAssumption, NoneAssumption
    DEF IInv, TypeOK, AskedIsPending, QuietWhenOff, ConnectedIsTrue, Polling,
        Goto, Free, Release
<1>1. CASE Lock(l)
  BY <1>1 DEF Lock
<1>2. CASE Read(l)
  BY <1>2 DEF Read
<1>3. CASE Deliver(l)
  BY <1>3 DEF Deliver, RecordHealth
<1>4. CASE Publish(l)
  BY <1>4 DEF Publish
<1>5. CASE Wake(l)
  BY <1>5 DEF Wake
<1>6. CASE Leave(l)
  BY <1>6 DEF Leave
<1> QED
  BY <1>1, <1>2, <1>3, <1>4, <1>5, <1>6 DEF Loop

LEMMA InvStep == IInv /\ [Next]_vars => IInv'
<1> SUFFICES ASSUME IInv, [Next]_vars PROVE IInv'
  OBVIOUS
<1>1. CASE UNCHANGED vars
  BY <1>1 DEF vars, IInv, TypeOK, AskedIsPending, QuietWhenOff, ConnectedIsTrue
<1> QED
  BY <1>1, OthersStep, LoopStep DEF Next

-----------------------------------------------------------------------------
\* Types, with one lane or both.
THEOREM LoopTypes == Spec => []TypeOK
BY InvInit, InvStep, PTL DEF Spec, IInv

\* A poll of the remote lane and a command exclude each other, whenever the client
\* is connected, stopped or connected again (sync.go:119, create.go:26).
THEOREM PollMuExcludes == Spec => []~(pc["remote"] \in Polling /\ pollMu = "command")
<1>1. IInv => ~(pc["remote"] \in Polling /\ pollMu = "command")
  BY DEF IInv, TypeOK
<1> QED
  BY <1>1, InvInit, InvStep, PTL DEF Spec

\* No wakeup is lost (sync.go:85-90).
THEOREM NoWakeupIsLost == Spec => []AskedIsPending
BY InvInit, InvStep, PTL DEF Spec, IInv

\* After Disconnect nothing runs and nothing is shown as connected (sync.go:103-112).
THEOREM DisconnectIsQuiet == Spec => []QuietWhenOff
BY InvInit, InvStep, PTL DEF Spec, IInv

\* The connected flag hides no recorded failure of a lane (sync.go:70-83).
THEOREM ConnectedHolds == Spec => []ConnectedIsTrue
BY InvInit, InvStep, PTL DEF Spec, IInv
=============================================================================
