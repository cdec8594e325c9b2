-------------------------- MODULE SupervisorProofs --------------------------
(***************************************************************************)
(* Proofs about the supervisor: the safety invariants that the runs check  *)
(* on two supervisors hold for any number of them, of pids and of start    *)
(* times.                                                                  *)
(***************************************************************************)
EXTENDS Supervisor, TLAPS

\* The recorded child c is process p.
Is(c, p) == c = [pid |-> p, identity |-> process[p].identity]

\* A supervisor holds p as its child c.
Held(c, p) == c # None /\ c.pid = p

\* Only the holder of the lock is at work.
LockHeld == \A s \in Supervisor : pc[s] # "off" => lock = s

\* A supervisor has children only from its loop on, and at its end drops them.
HasChildren ==
  \A s \in Supervisor : \A n \in Name :
    child[s][n] # None => pc[s] = "children" \/ (pc[s] = "stop" /\ n \in left[s])

\* The start time tells a recorded child from a later process under its pid, and a
\* supervisor keeps the pid of its own.
RightKind(c, n) == Runs(c) => process[c.pid].kind = n
OwnKind(c, n)   == Running(c) => process[c.pid].kind = n

SameKind ==
  \A n \in Name :
    /\ RightKind(status[n], n)
    /\ \A s \in Supervisor : OwnKind(child[s][n], n)

\* The recorded child n may still run: nobody has come to it since its supervisor died.
Unvisited(n) ==
  \A s \in Supervisor :
    pc[s] = "off" \/ (pc[s] \in {"orphans", "term", "wait", "kill"} /\ n \in left[s])

\* A supervisor in the middle of an orphan has its record, and a signal that is decided
\* is meant for that orphan.
Staged ==
  \A s \in Supervisor :
    /\ pc[s] \in {"term", "wait", "kill"} => left[s] # {} /\ Orphan(s) # None
    /\ pc[s] \in {"term", "kill"} => aim = [kind |-> First(s), identity |-> Orphan(s).identity]

\* A child that runs is held by a supervisor, or recorded and still to be stopped, or lost.
Accounted ==
  \A n \in Name : \A p \in Alive(n) :
    \/ p \in lost
    \/ \E s \in Supervisor : Held(child[s][n], p)
    \/ Is(status[n], p) /\ Unvisited(n)

StoppedIsEmpty == stopped => status = NoChild

IInv ==
  /\ TypeOK /\ LockHeld /\ HasChildren /\ SameKind /\ Accounted /\ StoppedIsEmpty
  /\ Staged /\ OnlyItsOwn

-----------------------------------------------------------------------------
LEMMA TypeStep == ASSUME TypeOK, Staged, [Next]_vars PROVE TypeOK'
<1> USE NoneAssumption DEF TypeOK, Name, Process, Child, NoChild, NoDelay
<1>1. CASE Other
  BY <1>1 DEF Other, Spawn
<1>2. ASSUME NEW p \in Pid, Exit(p) PROVE TypeOK'
  BY <1>2 DEF Exit, End
<1>3. ASSUME NEW s \in Supervisor, Supervise(s) PROVE TypeOK'
  <2> USE DEF At
  <2>1. CASE Start(s)
    BY <2>1 DEF Start
  <2>2. CASE CheckOrphan(s)
    <3>1. CASE ~Runs(Orphan(s))
      <4>1. NextOrphan(s) /\ UNCHANGED <<process, lock, child, due, status, stopped, lost, harmed>>
        BY <2>2, <3>1 DEF CheckOrphan
      <4> QED
        BY <4>1 DEF NextOrphan
    <3>2. CASE Runs(Orphan(s))
      <4>1. Orphan(s) \in Child
        BY <3>2 DEF Runs, Orphan, First
      <4>2. aim' \in Process \cup {None}
        BY <2>2, <3>2, <4>1 DEF CheckOrphan, Aim
      <4> QED
        BY <2>2, <3>2, <4>2 DEF CheckOrphan, Aim
    <3> QED
      BY <3>1, <3>2
  <2>11. CASE Terminate(s)
    BY <2>11 DEF Terminate, NextOrphan, Signal
  <2>12. CASE ExitSeen(s)
    BY <2>12 DEF ExitSeen, NextOrphan
  <2>13. CASE TimedOut(s)
    BY <2>13 DEF TimedOut, Aim, Runs, Orphan, First
  <2>14. CASE Kill(s)
    <3>1. Orphan(s).pid \in Pid
      BY <2>14 DEF Kill, Staged, Orphan, First
    <3> QED
      BY <2>14, <3>1 DEF Kill, NextOrphan, Signal
  <2>15. CASE Unidentified(s)
    BY <2>15 DEF Unidentified, NextOrphan, Runs, Orphan, First
  <2>3. CASE Begin(s)
    BY <2>3 DEF Begin
  <2>4. CASE Visit(s)
    <3>1. First(s) \in Name
      BY DEF First
    <3>2. CASE Reap(s, First(s))
      BY <2>4, <3>1, <3>2 DEF Visit, Reap
    <3>3. CASE Popen(s, First(s))
      <4>1. PICK p \in Pid, i \in Identity :
              /\ Spawn(p, First(s), i)
              /\ \E seen \in {i, None} :
                   child' = [child EXCEPT ![s][First(s)] = [pid |-> p, identity |-> seen]]
        BY <3>3 DEF Popen
      <4>2. process' \in [Pid -> Process \cup {None}]
        BY <3>1, <4>1 DEF Spawn
      <4>3. child' \in [Supervisor -> [Name -> Child \cup {None}]]
        BY <3>1, <4>1
      <4> QED
        BY <2>4, <3>3, <4>2, <4>3 DEF Visit, Popen
    <3>4. CASE LeaveIt(s, First(s))
      BY <2>4, <3>1, <3>4 DEF Visit, LeaveIt
    <3> QED
      BY <2>4, <3>2, <3>3, <3>4 DEF Visit
  <2>5. CASE WriteStatus(s)
    <3>1. pc' \in [Supervisor -> {"off", "orphans", "term", "wait", "kill", "children", "stop"}]
          /\ left' \in [Supervisor -> SUBSET Name]
      <4>1. At(s, "children", Name) \/ At(s, "stop", Name)
        BY <2>5 DEF WriteStatus
      <4> QED
        BY <4>1
    <3>2. status' \in [Name -> Child \cup {None}] /\ stopped' \in BOOLEAN
      <4>1. \A n \in Name : (IF Identified(child[s][n]) THEN child[s][n] ELSE None) \in Child \cup {None}
        OBVIOUS
      <4> QED
        BY <2>5, <4>1 DEF WriteStatus
    <3> QED
      BY <2>5, <3>1, <3>2 DEF WriteStatus
  <2>6. CASE Raise(s)
    BY <2>6 DEF Raise
  <2>7. CASE StopChild(s)
    BY <2>7 DEF StopChild, End, First
  <2>8. CASE Finish(s)
    BY <2>8 DEF Finish
  <2>9. CASE Crash(s)
    BY <2>9 DEF Crash, Unrecorded
  <2>10. ASSUME NEW n \in Name, Delayed(s, n) PROVE TypeOK'
    BY <2>10 DEF Delayed
  <2> QED
    BY <1>3, <2>1, <2>2, <2>3, <2>4, <2>5, <2>6, <2>7, <2>8, <2>9, <2>10,
       <2>11, <2>12, <2>13, <2>14, <2>15
    DEF Supervise
<1>4. CASE Reboot
  BY <1>4 DEF Reboot, End
<1>5. CASE UNCHANGED vars
  BY <1>5 DEF vars
<1> QED
  BY <1>1, <1>2, <1>3, <1>4, <1>5 DEF Next

-----------------------------------------------------------------------------
\* A process that is identified as a child is not None.
LEMMA RunningIsChild ==
  ASSUME IInv, NEW p \in Pid, process[p] # None
  PROVE  [pid |-> p, identity |-> process[p].identity] # None
<1>1. process[p].identity \in Identity
  BY DEF IInv, TypeOK, Process
<1> QED
  BY <1>1, NoneAssumption DEF Child

\* The supervisor at work is the only one with children or with any.
LEMMA OthersOff ==
  ASSUME IInv, NEW s \in Supervisor, pc[s] # "off"
  PROVE  \A t \in Supervisor \ {s} : pc[t] = "off" /\ child[t] = NoChild
<1>1. \A t \in Supervisor \ {s} : pc[t] = "off"
  BY DEF IInv, LockHeld
<1>2. \A t \in Supervisor \ {s} : \A n \in Name : child[t][n] = None
  BY <1>1 DEF IInv, HasChildren
<1> QED
  BY <1>1, <1>2 DEF IInv, TypeOK, NoChild

\* A step that only ends processes keeps what is known of those that run.
LEMMA KindStays ==
  ASSUME \A q \in Pid : process'[q] # None => process'[q] = process[q],
         NEW c \in Child \cup {None}, NEW n
  PROVE  /\ RightKind(c, n) => RightKind(c, n)'
         /\ OwnKind(c, n) => OwnKind(c, n)'
BY DEF RightKind, OwnKind, Runs, Running, Child

\* A step that starts process p keeps what is known of the others.
LEMMA KindSpawned ==
  ASSUME NEW p \in Pid, \A q \in Pid \ {p} : process'[q] = process[q],
         NEW c \in Child \cup {None}, c # None => c.pid # p, NEW n, OwnKind(c, n)
  PROVE  OwnKind(c, n)'
BY DEF OwnKind, Running, Child

\* Nobody but the operating system ends or starts processes: what is recorded and
\* held stays, and a process that is started under a free pid is not one of them.
LEMMA SystemStep ==
  ASSUME IInv, \/ Other \/ \E p \in Pid : Exit(p)
  PROVE  IInv'
<1>1. TypeOK'
  BY TypeStep DEF IInv, Next
<1>2. CASE Other
  <2> PICK p \in Pid, i \in Identity : Spawn(p, "other", i)
    BY <1>2 DEF Other
  <2>1. process[p] = None /\ process' = [process EXCEPT ![p] = [kind |-> "other", identity |-> i]]
    BY DEF Spawn, Room, Free
  <2>2. \A q \in Pid : q # p => process'[q] = process[q]
    BY <2>1 DEF IInv, TypeOK
  <2>3. process'[p] = [kind |-> "other", identity |-> i]
    BY <2>1 DEF IInv, TypeOK
  <2>4. \A n \in Name : status[n] # [pid |-> p, identity |-> i]
    BY DEF Spawn, Room, Times
  <2>5. \A s \in Supervisor, n \in Name : child[s][n] # None => child[s][n].pid # p
    BY DEF Spawn, Room, Free
  <2>6. SameKind'
    <3> SUFFICES ASSUME NEW n \in Name
                 PROVE  /\ RightKind(status[n], n)'
                        /\ \A s \in Supervisor : OwnKind(child[s][n], n)'
      BY DEF SameKind
    <3>1. Runs(status[n])' => Runs(status[n]) /\ status[n].pid # p
      BY <1>2, <2>2, <2>3, <2>4 DEF Other, Runs, IInv, TypeOK, Child
    <3>2. ASSUME NEW s \in Supervisor PROVE OwnKind(child[s][n], n)'
      <4>1. child' = child /\ child[s][n] \in Child \cup {None} /\ OwnKind(child[s][n], n)
        BY <1>2 DEF Other, IInv, TypeOK, SameKind
      <4>2. child[s][n] # None => child[s][n].pid # p
        BY <2>5
      <4> QED
        BY <2>2, <4>1, <4>2, KindSpawned DEF OwnKind, Running
    <3>3. RightKind(status[n], n)'
      BY <1>2, <2>2, <3>1 DEF IInv, SameKind, RightKind, TypeOK, Child, Runs, Other
    <3> QED
      BY <3>2, <3>3
  <2>7. Accounted'
    <3> SUFFICES ASSUME NEW n \in Name, NEW q \in Pid, q \in Alive(n)'
                 PROVE  \/ q \in lost
                        \/ \E s \in Supervisor : Held(child[s][n], q)'
                        \/ Is(status[n], q)' /\ Unvisited(n)
      BY <1>2 DEF Accounted, Other, Alive, Unvisited
    <3>1. q # p /\ q \in Alive(n)
      BY <2>2, <2>3 DEF Alive, Name
    <3> QED
      BY <1>2, <2>2, <3>1 DEF IInv, Accounted, Is, Held, Other
  <2> QED
    BY <1>1, <1>2, <2>6, <2>7
    DEF IInv, Other, Staged, Orphan, First, LockHeld, HasChildren, StoppedIsEmpty, OnlyItsOwn
<1>3. ASSUME NEW p \in Pid, Exit(p) PROVE IInv'
  <2>1. \A q \in Pid : process'[q] # None => process'[q] = process[q] /\ q # p
    BY <1>3 DEF Exit, End
  <2>2. SameKind'
    <3> SUFFICES ASSUME NEW n \in Name
                 PROVE  /\ RightKind(status[n], n)'
                        /\ \A s \in Supervisor : OwnKind(child[s][n], n)'
      BY DEF SameKind
    <3>1. RightKind(status[n], n)'
      BY <1>3, <2>1, KindStays DEF IInv, TypeOK, SameKind, Exit, RightKind, Runs
    <3>2. ASSUME NEW s \in Supervisor PROVE OwnKind(child[s][n], n)'
      <4>1. child' = child /\ child[s][n] \in Child \cup {None} /\ OwnKind(child[s][n], n)
        BY <1>3 DEF Exit, IInv, TypeOK, SameKind
      <4>2. \A q \in Pid : process'[q] # None => process'[q] = process[q]
        BY <2>1
      <4> QED
        BY <4>1, <4>2, KindStays DEF OwnKind, Running
    <3> QED
      BY <3>1, <3>2
  <2>3. Accounted'
    <3> SUFFICES ASSUME NEW n \in Name, NEW q \in Pid, q \in Alive(n)'
                 PROVE  \/ q \in lost'
                        \/ \E s \in Supervisor : Held(child[s][n], q)'
                        \/ Is(status[n], q)' /\ Unvisited(n)
      BY <1>3 DEF Accounted, Exit, Alive, Unvisited
    <3>1. q # p /\ process'[q] = process[q] /\ q \in Alive(n)
      BY <2>1 DEF Alive
    <3> QED
      BY <1>3, <3>1 DEF IInv, Accounted, Is, Held, Exit, End
  <2> QED
    BY <1>1, <1>3, <2>2, <2>3
    DEF IInv, Exit, Staged, Orphan, First, LockHeld, HasChildren, StoppedIsEmpty, OnlyItsOwn
<1> QED
  BY <1>2, <1>3

-----------------------------------------------------------------------------
\* The steps that change no process, record and child keep what is known of them.
LEMMA QuietStep ==
  ASSUME IInv, NEW s \in Supervisor, TypeOK',
         \/ Start(s) \/ Begin(s) \/ Raise(s) \/ \E n \in Name : Delayed(s, n)
  PROVE  IInv'
<1>1. UNCHANGED <<process, child, status, stopped, lost, aim, harmed>>
  BY DEF Start, Begin, Raise, Delayed
<1>2. /\ \A t \in Supervisor \ {s} : pc'[t] = pc[t] /\ left'[t] = left[t]
      /\ Delayed(s, "browser") \/ Delayed(s, "bridge") => UNCHANGED <<pc, left, lock>>
  BY DEF Start, Begin, Raise, Delayed, At, IInv, TypeOK
<1>3. LockHeld'
  <2>1. CASE Start(s)
    BY <2>1, NoneAssumption DEF Start, At, IInv, LockHeld, TypeOK
  <2>2. CASE ~Start(s)
    BY <2>2 DEF Begin, Raise, Delayed, At, IInv, LockHeld, TypeOK
  <2> QED
    BY <2>1, <2>2
<1>4. HasChildren'
  <2>1. CASE Start(s)
    BY <2>1, <1>1 DEF Start, At, IInv, HasChildren, TypeOK
  <2>2. CASE ~Start(s)
    BY <2>2, <1>1 DEF Begin, Raise, Delayed, At, IInv, HasChildren, TypeOK
  <2> QED
    BY <2>1, <2>2
<1>5. SameKind'
  BY <1>1 DEF IInv, SameKind, RightKind, OwnKind, Runs, Running
<1>6. Accounted'
  <2>1. \A n \in Name : Unvisited(n) => Unvisited(n)' \/ \A p \in Pid : ~Is(status[n], p)
    <3>1. CASE Start(s)
      BY <3>1, <1>2 DEF Start, At, Unvisited, IInv, TypeOK
    <3>2. CASE Begin(s)
      BY <3>2 DEF Begin, Unvisited
    <3>3. CASE Raise(s)
      BY <3>3 DEF Raise, Unvisited
    <3>4. ASSUME NEW n \in Name, Delayed(s, n) PROVE ~Unvisited(n)
      BY <3>4 DEF Delayed, Unvisited
    <3> QED
      BY <3>1, <3>2, <3>3, <3>4 DEF Delayed, Unvisited
  <2> QED
    BY <1>1, <2>1 DEF IInv, Accounted, Alive, Is, Held
<1>7. Staged'
  <2>1. CASE Start(s)
    <3>1. \A t \in Supervisor : pc'[t] \in {"off", "orphans"}
      BY <2>1, <1>2, NoneAssumption DEF Start, At, IInv, LockHeld, TypeOK
    <3> QED
      BY <3>1 DEF Staged
  <2>2. CASE ~Start(s)
    <3>1. pc[s] # "off" /\ pc'[s] \in {"children", "stop"}
      BY <2>2 DEF Begin, Raise, Delayed, At, IInv, TypeOK
    <3>2. \A t \in Supervisor \ {s} : pc'[t] = "off"
      BY <1>2, <3>1, OthersOff
    <3> QED
      BY <3>1, <3>2 DEF Staged
  <2> QED
    BY <2>1, <2>2
<1> QED
  BY <1>1, <1>3, <1>4, <1>5, <1>6, <1>7 DEF IInv, StoppedIsEmpty, OnlyItsOwn

\* While a supervisor goes through the orphans nobody has a child.
LEMMA NobodyHolds ==
  ASSUME IInv, NEW s \in Supervisor, pc[s] \in {"orphans", "term", "wait", "kill"}
  PROVE  \A t \in Supervisor, n \in Name : child[t][n] = None
BY DEF IInv, LockHeld, HasChildren

\* Looking at an orphan and SIGTERM change no process: it is passed over only if it is gone.
LEMMA LookStep ==
  ASSUME IInv, NEW s \in Supervisor, NEW m \in Name, m = First(s), TypeOK',
         \/ CheckOrphan(s) \/ Terminate(s) \/ ExitSeen(s) \/ TimedOut(s)
  PROVE  IInv'
<1>1. /\ UNCHANGED <<process, lock, child, status, stopped, lost>>
      /\ pc[s] \in {"orphans", "term", "wait", "kill"} /\ pc'[s] \in {"orphans", "term", "wait", "kill"}
      /\ \A t \in Supervisor \ {s} : pc'[t] = pc[t] /\ left'[t] = left[t]
      /\ left'[s] = left[s] \/ (left'[s] = left[s] \ {m} /\ ~Runs(status[m]))
  <2>1. CASE CheckOrphan(s)
    BY <2>1 DEF CheckOrphan, Aim, NextOrphan, Orphan, At, IInv, TypeOK
  <2>2. CASE Terminate(s)
    BY <2>2 DEF Terminate, NextOrphan, Orphan, At, Runs, IInv, TypeOK
  <2>3. CASE ExitSeen(s)
    BY <2>3 DEF ExitSeen, NextOrphan, Orphan, At, IInv, TypeOK
  <2>4. CASE TimedOut(s)
    BY <2>4 DEF TimedOut, Aim, At, IInv, TypeOK
  <2> QED
    BY <2>1, <2>2, <2>3, <2>4
<1>2. \A t \in Supervisor, n \in Name : child[t][n] = None
  BY <1>1, NobodyHolds
<1>3. LockHeld' /\ HasChildren'
  BY <1>1, <1>2 DEF IInv, LockHeld, HasChildren
<1>4. SameKind'
  BY <1>1 DEF IInv, SameKind, RightKind, OwnKind, Runs, Running
<1>5. Accounted'
  <2> SUFFICES ASSUME NEW n \in Name, NEW q \in Alive(n), q \notin lost
               PROVE  Is(status[n], q) /\ Unvisited(n)'
    BY <1>1 DEF Accounted, Alive, Is
  <2>1. Is(status[n], q) /\ Unvisited(n)
    BY <1>2 DEF IInv, Accounted, Held
  <2>2. Runs(status[n])
    BY <2>1, RunningIsChild DEF Runs, Is, Alive
  <2> QED
    BY <1>1, <2>1, <2>2 DEF Unvisited
<1>6. Staged'
  <2>1. \A t \in Supervisor \ {s} : pc'[t] = "off"
    BY <1>1, OthersOff
  <2>2. ASSUME Runs(Orphan(s)), Aim(s, "term") \/ Aim(s, "kill"), left[s] # {} PROVE Staged'
    <3>1. left'[s] = left[s] /\ Orphan(s) # None /\ First(s)' = First(s) /\ Orphan(s)' = Orphan(s)
      BY <1>1, <2>2 DEF Aim, At, Runs, First, Orphan, IInv, TypeOK
    <3>2. aim' = process[Orphan(s).pid] /\ Orphan(s) \in Child /\ Orphan(s) = status[m]
      BY <2>2 DEF Aim, Runs, Orphan, IInv, TypeOK
    <3>3. aim' = [kind |-> m, identity |-> Orphan(s).identity]
      <4>1. process[Orphan(s).pid] \in Process
        BY <2>2, <3>2 DEF Runs, IInv, TypeOK, Child
      <4>2. process[Orphan(s).pid].kind = m /\ process[Orphan(s).pid].identity = Orphan(s).identity
        BY <2>2, <3>2 DEF Runs, IInv, SameKind, RightKind
      <4> QED
        BY <3>2, <4>1, <4>2 DEF Process
    <3> QED
      BY <2>1, <2>2, <3>1, <3>3 DEF Staged
  <2>3. CASE CheckOrphan(s)
    <3>1. CASE ~Runs(Orphan(s))
      BY <2>1, <2>3, <3>1 DEF CheckOrphan, NextOrphan, At, Staged, IInv, TypeOK
    <3> QED
      BY <2>2, <2>3, <3>1 DEF CheckOrphan
  <2>4. CASE TimedOut(s)
    BY <2>2, <2>4 DEF TimedOut, IInv, Staged
  <2>5. CASE ExitSeen(s)
    BY <2>1, <2>5 DEF ExitSeen, NextOrphan, At, Staged, IInv, TypeOK
  <2>6. CASE Terminate(s)
    <3>1. CASE At(s, "wait", left[s])
      <4>1. pc'[s] = "wait" /\ left'[s] = left[s] /\ left[s] # {} /\ Orphan(s) # None
        BY <2>6, <3>1 DEF Terminate, At, Staged, IInv, TypeOK
      <4>2. Orphan(s)' = Orphan(s)
        BY <1>1, <4>1 DEF Orphan, First
      <4> QED
        BY <2>1, <4>1, <4>2 DEF Staged
    <3>2. CASE NextOrphan(s)
      BY <2>1, <3>2 DEF NextOrphan, At, Staged, IInv, TypeOK
    <3> QED
      BY <2>6, <3>1, <3>2 DEF Terminate
  <2> QED
    BY <2>3, <2>4, <2>5, <2>6
<1>7. OnlyItsOwn'
  <2>1. CASE Terminate(s)
    <3>1. aim.kind = m
      BY <2>1 DEF Terminate, IInv, Staged
    <3>2. ~(Spared(Orphan(s).pid) /\ process[Orphan(s).pid] = aim)
      BY <1>2, <3>1 DEF Spared, Running, Name
    <3> QED
      BY <2>1, <3>2 DEF Terminate, Signal, IInv, OnlyItsOwn
  <2>2. CASE ~Terminate(s)
    BY <2>2 DEF CheckOrphan, ExitSeen, TimedOut, IInv, OnlyItsOwn
  <2> QED
    BY <2>1, <2>2
<1> QED
  BY <1>1, <1>3, <1>4, <1>5, <1>6, <1>7 DEF IInv, StoppedIsEmpty

\* An orphan that got SIGKILL, or that ps did not find, is not waited for.
LEMMA GiveUpStep ==
  ASSUME IInv, NEW s \in Supervisor, NEW m \in Name, m = First(s), TypeOK',
         Kill(s) \/ Unidentified(s)
  PROVE  IInv'
<1>1. /\ UNCHANGED <<process, lock, child, status, stopped>>
      /\ pc[s] \in {"orphans", "term", "wait", "kill"} /\ pc'[s] = "orphans"
      /\ \A t \in Supervisor \ {s} : pc'[t] = pc[t] /\ left'[t] = left[t]
      /\ left'[s] = left[s] \ {m} /\ lost \subseteq lost'
  BY DEF Kill, Unidentified, NextOrphan, At, IInv, TypeOK
<1>2. \A t \in Supervisor, n \in Name : child[t][n] = None
  BY <1>1, NobodyHolds
<1>3. LockHeld' /\ HasChildren'
  BY <1>1, <1>2 DEF IInv, LockHeld, HasChildren
<1>4. SameKind'
  BY <1>1 DEF IInv, SameKind, RightKind, OwnKind, Runs, Running
<1>5. \A q \in Alive(m) : Is(status[m], q) => q \in lost'
  <2> SUFFICES ASSUME NEW q \in Alive(m), Is(status[m], q) PROVE q \in lost'
    OBVIOUS
  <2>1. Orphan(s).pid = q /\ Orphan(s).identity = process[q].identity
    BY DEF Is, Orphan
  <2>2. CASE Kill(s)
    <3>1. aim = [kind |-> m, identity |-> process[q].identity]
      BY <2>1, <2>2 DEF Kill, IInv, Staged
    <3>2. process[q] = aim
      BY <3>1 DEF Alive, IInv, TypeOK, Process
    <3> QED
      BY <2>1, <2>2, <3>2 DEF Kill
  <2>3. CASE Unidentified(s)
    BY <2>1, <2>3 DEF Unidentified
  <2> QED
    BY <2>2, <2>3
<1>6. Accounted'
  <2> SUFFICES ASSUME NEW n \in Name, NEW q \in Alive(n), q \notin lost'
               PROVE  Is(status[n], q) /\ Unvisited(n)'
    BY <1>1 DEF Accounted, Alive, Is
  <2>1. Is(status[n], q) /\ Unvisited(n)
    BY <1>1, <1>2 DEF IInv, Accounted, Held
  <2>2. n # m
    BY <1>5, <2>1
  <2> QED
    BY <1>1, <2>1, <2>2 DEF Unvisited
<1>7. Staged'
  <2>1. \A t \in Supervisor \ {s} : pc'[t] = "off"
    BY <1>1, OthersOff
  <2> QED
    BY <1>1, <2>1 DEF Staged
<1>8. OnlyItsOwn'
  <2>1. CASE Kill(s)
    <3>1. aim.kind = m
      BY <2>1 DEF Kill, IInv, Staged
    <3>2. ~(Spared(Orphan(s).pid) /\ process[Orphan(s).pid] = aim)
      BY <1>2, <3>1 DEF Spared, Running, Name
    <3> QED
      BY <2>1, <3>2 DEF Kill, Signal, IInv, OnlyItsOwn
  <2>2. CASE Unidentified(s)
    BY <2>2 DEF Unidentified, IInv, OnlyItsOwn
  <2> QED
    BY <2>1, <2>2
<1> QED
  BY <1>1, <1>3, <1>4, <1>6, <1>7, <1>8 DEF IInv, StoppedIsEmpty

\* In the loop the status file is out of use: what runs is held or lost.
LEMMA HeldInLoop ==
  ASSUME IInv, NEW s \in Supervisor, pc[s] \in {"children", "stop"}, NEW n \in Name,
         NEW q \in Alive(n), q \notin lost
  PROVE  Held(child[s][n], q)
<1>1. ~Unvisited(n)
  BY DEF Unvisited
<1>2. PICK t \in Supervisor : Held(child[t][n], q)
  BY <1>1 DEF IInv, Accounted
<1>3. t = s
  <2>1. process[q] # None /\ q \in Pid
    BY DEF Alive
  <2>2. child[t][n] # None
    BY <1>2 DEF Held
  <2> QED
    BY <2>2, OthersOff DEF NoChild
<1> QED
  BY <1>2, <1>3

\* A visit reaps, starts or leaves one child.
LEMMA VisitStep ==
  ASSUME IInv, NEW s \in Supervisor, NEW m \in Name, m = First(s), TypeOK', Visit(s)
  PROVE  IInv'
<1>1. /\ pc[s] = "children" /\ pc' = pc
      /\ UNCHANGED <<lock, status, stopped, lost, aim, harmed>>
      /\ \A t \in Supervisor \ {s} : left'[t] = left[t] /\ child'[t] = child[t] /\ child[t] = NoChild
      /\ \A n \in Name \ {m} : child'[s][n] = child[s][n]
      /\ Reap(s, m) \/ Popen(s, m) \/ LeaveIt(s, m)
  <2>1. pc[s] = "children" /\ pc' = pc /\ UNCHANGED <<lock, status, stopped, lost, aim, harmed>>
    BY DEF Visit, At, IInv, TypeOK
  <2>2. Reap(s, m) \/ Popen(s, m) \/ LeaveIt(s, m)
    BY DEF Visit
  <2>3. \A t \in Supervisor \ {s} : left'[t] = left[t]
    BY DEF Visit, At, IInv, TypeOK
  <2>4. /\ \A t \in Supervisor \ {s} : child'[t] = child[t]
        /\ \A n \in Name \ {m} : child'[s][n] = child[s][n]
    BY <2>2 DEF IInv, TypeOK, Reap, Popen, LeaveIt
  <2> QED
    BY <2>1, <2>2, <2>3, <2>4, OthersOff
<1>2. LockHeld'
  BY <1>1 DEF IInv, LockHeld
<1>3. HasChildren'
  BY <1>1 DEF HasChildren, NoChild
<1>6. Staged'
  BY <1>1, OthersOff DEF Staged
<1>4. CASE ~Popen(s, m)
  <2>1. process' = process /\ child'[s][m] \in {child[s][m], None} /\ (Running(child[s][m]) => child'[s][m] = child[s][m])
    BY <1>1, <1>4 DEF Reap, LeaveIt, IInv, TypeOK
  <2>2. SameKind'
    <3> SUFFICES ASSUME NEW n \in Name
                 PROVE  /\ RightKind(status[n], n)'
                        /\ \A t \in Supervisor : OwnKind(child[t][n], n)'
      BY DEF SameKind
    <3>1. \A t \in Supervisor : child'[t][n] \in {child[t][n], None}
      BY <1>1, <2>1
    <3> QED
      BY <1>1, <2>1, <3>1 DEF IInv, SameKind, RightKind, OwnKind, Runs, Running
  <2>3. Accounted'
    <3> SUFFICES ASSUME NEW n \in Name, NEW q \in Pid, q \in Alive(n), q \notin lost
                 PROVE  Held(child[s][n], q)'
      BY <1>1, <2>1 DEF Accounted, Alive
    <3>1. Held(child[s][n], q)
      BY <1>1, HeldInLoop
    <3>2. Running(child[s][n])
      BY <3>1 DEF Running, Held, Alive
    <3> QED
      BY <1>1, <2>1, <3>1, <3>2
  <2> QED
    BY <1>1, <1>2, <1>3, <1>6, <2>2, <2>3 DEF IInv, StoppedIsEmpty, OnlyItsOwn
<1>5. CASE Popen(s, m)
  <2>0. PICK p \in Pid, i \in Identity :
          /\ Spawn(p, m, i)
          /\ \E seen \in {i, None} : child' = [child EXCEPT ![s][m] = [pid |-> p, identity |-> seen]]
    BY <1>5 DEF Popen
  <2>1. PICK seen \in {i, None} :
          Spawn(p, m, i) /\ child' = [child EXCEPT ![s][m] = [pid |-> p, identity |-> seen]]
    BY <2>0
  <2>2. /\ process[p] = None /\ process'[p] = [kind |-> m, identity |-> i]
        /\ \A q \in Pid \ {p} : process'[q] = process[q]
        /\ child'[s][m] = [pid |-> p, identity |-> seen]
    BY <2>1 DEF Spawn, Room, Free, IInv, TypeOK
  <2>7. child'[s][m] # None
    BY <2>1, <2>2, NoneAssumption DEF Child
  <2>3. \A n \in Name : status[n] # [pid |-> p, identity |-> i]
    BY <2>1 DEF Spawn, Room, Times
  <2>4. \A t \in Supervisor, n \in Name : child[t][n] # None => child[t][n].pid # p
    BY <2>1 DEF Spawn, Room, Free
  <2>5. SameKind'
    <3> SUFFICES ASSUME NEW n \in Name
                 PROVE  /\ RightKind(status[n], n)'
                        /\ \A t \in Supervisor : OwnKind(child[t][n], n)'
      BY DEF SameKind
    <3>1. Runs(status[n])' => Runs(status[n]) /\ status[n].pid # p
      BY <1>1, <2>2, <2>3 DEF Runs, IInv, TypeOK, Child
    <3>2. RightKind(status[n], n)'
      BY <1>1, <2>2, <3>1 DEF IInv, TypeOK, Child, SameKind, RightKind, Runs
    <3>3. ASSUME NEW t \in Supervisor, t # s \/ n # m PROVE OwnKind(child[t][n], n)'
      <4>1. child'[t][n] = child[t][n]
        BY <1>1, <3>3
      <4>2. child[t][n] \in Child \cup {None} /\ OwnKind(child[t][n], n)
        BY DEF IInv, TypeOK, SameKind
      <4> QED
        BY <2>2, <2>4, <4>1, <4>2, KindSpawned DEF OwnKind, Running
    <3>4. OwnKind(child[s][m], m)'
      BY <2>2 DEF OwnKind
    <3> QED
      BY <3>2, <3>3, <3>4
  <2>6. Accounted'
    <3> SUFFICES ASSUME NEW n \in Name, NEW q \in Pid, q \in Alive(n)', q \notin lost
                 PROVE  Held(child[s][n], q)'
      BY <1>1 DEF Accounted, Alive
    <3>1. CASE q = p
      BY <2>2, <2>7, <3>1 DEF Held, Alive
    <3>2. CASE q # p
      <4>1. q \in Alive(n) /\ process'[q] = process[q]
        BY <2>2, <3>2 DEF Alive
      <4>2. Held(child[s][n], q) /\ child[s][n] # None
        BY <1>1, <4>1, HeldInLoop DEF Held
      <4>3. n # m
        BY <1>5, <4>2 DEF Popen
      <4> QED
        BY <1>1, <4>1, <4>2, <4>3 DEF Held
    <3> QED
      BY <3>1, <3>2
  <2> QED
    BY <1>1, <1>2, <1>3, <1>6, <2>5, <2>6 DEF IInv, StoppedIsEmpty, OnlyItsOwn
<1> QED
  BY <1>4, <1>5

\* Writing the status file records what is held.
LEMMA StatusStep ==
  ASSUME IInv, NEW s \in Supervisor, TypeOK', WriteStatus(s)
  PROVE  IInv'
<1>1. /\ pc[s] = "children" /\ pc'[s] \in {"children", "stop"} /\ left'[s] = Name
      /\ \A t \in Supervisor \ {s} : pc'[t] = pc[t]
      /\ UNCHANGED <<process, lock, child, lost, aim, harmed>>
      /\ \A n \in Name : status'[n] \in {child[s][n], None}
      /\ stopped' = FALSE
  BY DEF WriteStatus, At, IInv, TypeOK
<1>2. LockHeld' /\ HasChildren'
  <2>1. LockHeld'
    BY <1>1 DEF IInv, LockHeld
  <2>2. \A t \in Supervisor \ {s} : child[t] = NoChild
    BY <1>1, OthersOff
  <2> QED
    BY <1>1, <2>1, <2>2 DEF HasChildren, NoChild
<1>3. SameKind'
  BY <1>1 DEF IInv, SameKind, RightKind, OwnKind, Runs, Running
<1>4. Accounted'
  <2> SUFFICES ASSUME NEW n \in Name, NEW q \in Pid, q \in Alive(n), q \notin lost
               PROVE  Held(child[s][n], q)'
    BY <1>1 DEF Accounted, Alive
  <2>1. Held(child[s][n], q)
    BY <1>1, HeldInLoop
  <2> QED
    BY <1>1, <2>1
<1>5. Staged'
  BY <1>1, OthersOff DEF Staged
<1> QED
  BY <1>1, <1>2, <1>3, <1>4, <1>5 DEF IInv, StoppedIsEmpty, OnlyItsOwn

\* Stopping a child ends it before it is dropped.
LEMMA StopStep ==
  ASSUME IInv, NEW s \in Supervisor, NEW m \in Name, m = First(s), TypeOK', StopChild(s)
  PROVE  IInv'
<1>1. /\ pc[s] = "stop" /\ pc' = pc /\ left'[s] = left[s] \ {m}
      /\ UNCHANGED <<lock, status, stopped, aim, harmed>>
      /\ child'[s][m] = None /\ \A n \in Name \ {m} : child'[s][n] = child[s][n]
      /\ \A t \in Supervisor \ {s} : child'[t] = child[t] /\ child[t] = NoChild
  <2>1. \A t \in Supervisor \ {s} : child[t] = NoChild
    BY OthersOff DEF StopChild
  <2> QED
    BY <2>1 DEF StopChild, At, IInv, TypeOK
<1>2. \A q \in Pid : process'[q] # None =>
        /\ process'[q] = process[q] /\ (q \in lost => q \in lost')
        /\ ~Held(child[s][m], q)
  <2> SUFFICES ASSUME NEW q \in Pid, process'[q] # None
               PROVE  process'[q] = process[q] /\ (q \in lost => q \in lost') /\ ~Held(child[s][m], q)
    OBVIOUS
  <2>1. /\ process'[q] = process[q] /\ (q \in lost => q \in lost')
        /\ ~(Running(child[s][m]) /\ child[s][m].pid = q)
    BY DEF StopChild, End
  <2>2. ~Held(child[s][m], q)
    BY <2>1 DEF Held, Running
  <2> QED
    BY <2>1, <2>2
<1>3. LockHeld' /\ HasChildren'
  <2>1. LockHeld'
    BY <1>1 DEF IInv, LockHeld
  <2>2. \A n \in Name \ {m} : child[s][n] # None => n \in left[s]
    BY <1>1 DEF IInv, HasChildren
  <2> QED
    BY <1>1, <2>1, <2>2 DEF HasChildren, NoChild
<1>4. SameKind'
  <2> SUFFICES ASSUME NEW n \in Name
               PROVE  /\ RightKind(status[n], n)'
                      /\ \A t \in Supervisor : OwnKind(child[t][n], n)'
    BY DEF SameKind
  <2>1. RightKind(status[n], n)'
    BY <1>1, <1>2, KindStays DEF IInv, TypeOK, SameKind, RightKind, Runs
  <2>2. ASSUME NEW t \in Supervisor PROVE OwnKind(child[t][n], n)'
    <3>1. CASE child'[t][n] = None
      BY <3>1 DEF OwnKind, Running
    <3>2. CASE child'[t][n] # None
      <4>1. child'[t][n] = child[t][n]
        BY <1>1, <3>2
      <4>2. child[t][n] \in Child \cup {None} /\ OwnKind(child[t][n], n)
        BY DEF IInv, TypeOK, SameKind
      <4> QED
        BY <1>2, <4>1, <4>2, KindStays DEF OwnKind, Running
    <3> QED
      BY <3>1, <3>2
  <2> QED
    BY <2>1, <2>2
<1>5. Accounted'
  <2> SUFFICES ASSUME NEW n \in Name, NEW q \in Pid, q \in Alive(n)', q \notin lost'
               PROVE  Held(child[s][n], q)'
    BY DEF Accounted, Alive
  <2>1. q \in Alive(n) /\ q \notin lost /\ process'[q] = process[q] /\ ~Held(child[s][m], q)
    BY <1>2 DEF Alive
  <2>2. Held(child[s][n], q)
    BY <1>1, <2>1, HeldInLoop
  <2> QED
    BY <1>1, <2>1, <2>2
<1>6. Staged'
  BY <1>1, OthersOff DEF Staged
<1> QED
  BY <1>1, <1>3, <1>4, <1>5, <1>6 DEF IInv, StoppedIsEmpty, OnlyItsOwn

\* At its end a supervisor has dropped its children, and nothing runs but what is lost.
LEMMA FinishStep ==
  ASSUME IInv, NEW s \in Supervisor, TypeOK', Finish(s)
  PROVE  IInv'
<1>1. /\ pc'[s] = "off" /\ \A t \in Supervisor \ {s} : pc[t] = "off" /\ pc'[t] = "off"
      /\ UNCHANGED <<process, child, lost, aim, harmed>> /\ status' = NoChild
  BY OthersOff DEF Finish, At, IInv, TypeOK
<1>2. \A t \in Supervisor : child[t] = NoChild
  <2>1. \A n \in Name : child[s][n] = None
    BY DEF Finish, IInv, HasChildren
  <2>2. child[s] = NoChild
    BY <2>1 DEF IInv, TypeOK, NoChild
  <2> QED
    BY <2>2, OthersOff DEF Finish
<1>3. LockHeld' /\ HasChildren'
  BY <1>1, <1>2 DEF LockHeld, HasChildren, NoChild
<1>4. SameKind'
  BY <1>1, <1>2 DEF SameKind, RightKind, OwnKind, Runs, Running, NoChild
<1>5. Accounted'
  <2>1. \A n \in Name : Alive(n) \subseteq lost
    <3> SUFFICES ASSUME NEW n \in Name, NEW q \in Alive(n), q \notin lost PROVE FALSE
      OBVIOUS
    <3>1. Held(child[s][n], q)
      BY HeldInLoop DEF Finish
    <3> QED
      BY <1>2, <3>1 DEF NoChild, Held
  <2> QED
    BY <1>1, <2>1 DEF Accounted, Alive
<1>6. Staged'
  BY <1>1 DEF Staged
<1> QED
  BY <1>1, <1>3, <1>4, <1>5, <1>6 DEF IInv, StoppedIsEmpty, OnlyItsOwn

\* A supervisor that dies leaves its children to the status file, or loses them.
LEMMA CrashStep ==
  ASSUME IInv, NEW s \in Supervisor, TypeOK', Crash(s)
  PROVE  IInv'
<1>1. /\ pc'[s] = "off" /\ child'[s] = NoChild
      /\ \A t \in Supervisor \ {s} : /\ pc[t] = "off" /\ pc'[t] = "off"
                                    /\ child[t] = NoChild /\ child'[t] = NoChild
      /\ UNCHANGED <<process, status, stopped, harmed>> /\ lost' = lost \cup Unrecorded(s)
  <2>1. \A t \in Supervisor \ {s} : pc[t] = "off" /\ child[t] = NoChild
    BY OthersOff DEF Crash
  <2> QED
    BY <2>1 DEF Crash, At, IInv, TypeOK
<1>2. \A t \in Supervisor : pc'[t] = "off" /\ child'[t] = NoChild
  BY <1>1
<1>3. LockHeld' /\ HasChildren'
  BY <1>2 DEF LockHeld, HasChildren, NoChild
<1>4. SameKind'
  BY <1>1, <1>2 DEF IInv, SameKind, RightKind, OwnKind, Runs, Running, NoChild
<1>5. Accounted'
  <2> SUFFICES ASSUME NEW n \in Name, NEW q \in Pid, q \in Alive(n), q \notin lost'
               PROVE  Is(status[n], q)
    BY <1>1, <1>2 DEF Accounted, Alive, Unvisited, Is
  <2>1. q \notin lost /\ q \notin Unrecorded(s) /\ process[q] # None
    BY <1>1 DEF Alive
  <2>2. CASE \E t \in Supervisor : Held(child[t][n], q)
    <3>1. Held(child[s][n], q)
      BY <2>2, <1>1 DEF Held, NoChild
    <3>2. Running(child[s][n]) /\ child[s][n].pid = q
      BY <2>1, <3>1 DEF Held, Running
    <3>3. Runs(status[n]) /\ status[n].pid = q
      BY <2>1, <3>2 DEF Unrecorded
    <3> QED
      BY <3>3 DEF Runs, Is, IInv, TypeOK, Child
  <2>3. CASE ~\E t \in Supervisor : Held(child[t][n], q)
    BY <2>1, <2>3 DEF IInv, Accounted
  <2> QED
    BY <2>2, <2>3
<1>6. Staged'
  BY <1>2 DEF Staged
<1> QED
  BY <1>1, <1>3, <1>4, <1>5, <1>6 DEF IInv, StoppedIsEmpty, OnlyItsOwn

LEMMA RebootStep ==
  ASSUME IInv, TypeOK', Reboot
  PROVE  IInv'
<1>1. \A q \in Pid : process'[q] = None
  BY DEF Reboot, End
<1>2. \A t \in Supervisor : pc'[t] = "off" /\ child'[t] = NoChild
  BY DEF Reboot
<1>3. LockHeld' /\ HasChildren' /\ Accounted'
  BY <1>1, <1>2 DEF LockHeld, HasChildren, Accounted, Alive, NoChild
<1>4. SameKind'
  <2>1. \A n \in Name : ~Runs(status[n])'
    BY <1>1 DEF Runs, Reboot, IInv, TypeOK, Child
  <2> QED
    BY <1>2, <2>1 DEF SameKind, RightKind, OwnKind, Runs, Running, NoChild
<1>5. Staged'
  BY <1>2 DEF Staged
<1> QED
  BY <1>3, <1>4, <1>5 DEF Reboot, IInv, StoppedIsEmpty, OnlyItsOwn

LEMMA Inductive == ASSUME IInv, [Next]_vars PROVE IInv'
<1>1. TypeOK'
  BY TypeStep DEF IInv
<1>2. ASSUME NEW s \in Supervisor, Supervise(s) PROVE IInv'
  <2>1. First(s) \in Name
    BY DEF First, Name
  <2> QED
    BY <1>1, <1>2, <2>1, QuietStep, LookStep, GiveUpStep, VisitStep, StatusStep, StopStep,
       FinishStep, CrashStep
    DEF Supervise
<1>3. CASE UNCHANGED vars
  <2>1. LockHeld' /\ HasChildren'
    BY <1>3 DEF vars, IInv, LockHeld, HasChildren
  <2>2. SameKind'
    BY <1>3 DEF vars, IInv, SameKind, RightKind, OwnKind, Runs, Running
  <2>3. Accounted'
    BY <1>3 DEF vars, IInv, Accounted, Alive, Is, Held, Unvisited
  <2>4. Staged'
    BY <1>3 DEF vars, IInv, Staged, Orphan, First
  <2> QED
    BY <1>1, <1>3, <2>1, <2>2, <2>3, <2>4 DEF vars, IInv, StoppedIsEmpty, OnlyItsOwn
<1> QED
  BY <1>1, <1>2, <1>3, SystemStep, RebootStep DEF Next

LEMMA Initial == Init => IInv
<1> SUFFICES ASSUME Init PROVE IInv
  OBVIOUS
<1>1. TypeOK
  BY DEF Init, TypeOK, NoChild, NoDelay, Name, Child
<1>2. LockHeld /\ HasChildren /\ SameKind /\ Accounted /\ Staged
  BY DEF Init, LockHeld, HasChildren, SameKind, RightKind, OwnKind, Runs, Running, Accounted, Alive,
     Staged, NoChild
<1> QED
  BY <1>1, <1>2 DEF Init, IInv, StoppedIsEmpty, OnlyItsOwn

LEMMA Invariant == Spec => []IInv
BY Initial, Inductive, PTL DEF Spec

-----------------------------------------------------------------------------
\* Every variable keeps its type, for any supervisors, pids and start times.
THEOREM SupervisorTypes == Spec => []TypeOK
<1>1. IInv => TypeOK
  BY DEF IInv
<1> QED
  BY <1>1, Invariant, PTL

\* One supervisor works at a time, and whoever works has the lock, however others are
\* started or die (supervise.py:59-68).
THEOREM OneSupervisor ==
  Spec => [](\A s, t \in Supervisor : pc[s] # "off" /\ pc[t] # "off" => s = t /\ lock = s)
<1>1. IInv => \A s, t \in Supervisor : pc[s] # "off" /\ pc[t] # "off" => s = t /\ lock = s
  BY DEF IInv, LockHeld
<1> QED
  BY <1>1, Invariant, PTL

\* However many supervisors are started and however they, their children and the
\* machine die, one browser and one bridge run (supervise.py:63-117), but for the
\* child of a supervisor that died before it recorded it.
THEOREM OneOwnerAlways == Spec => []OneOwner
<1>1. ASSUME IInv PROVE OneOwner
  <2> SUFFICES ASSUME NEW n \in Name, NEW p \in Alive(n) \ lost, NEW q \in Alive(n) \ lost
               PROVE  p = q
    BY DEF OneOwner
  <2>1. CASE Unvisited(n)
    <3>1. \A t \in Supervisor : child[t][n] = None
      BY <1>1, <2>1 DEF IInv, HasChildren, Unvisited
    <3>2. Is(status[n], p) /\ Is(status[n], q)
      BY <1>1, <3>1 DEF IInv, Accounted, Held
    <3> QED
      BY <3>2 DEF Is
  <2>2. CASE ~Unvisited(n)
    <3>1. PICK t \in Supervisor : Held(child[t][n], p)
      BY <1>1, <2>2 DEF IInv, Accounted
    <3>2. PICK u \in Supervisor : Held(child[u][n], q)
      BY <1>1, <2>2 DEF IInv, Accounted
    <3>3. child[t][n] # None /\ child[u][n] # None
      BY <3>1, <3>2 DEF Held
    <3>4. t = u
      BY <1>1, <3>3 DEF IInv, HasChildren, LockHeld
    <3> QED
      BY <3>1, <3>2, <3>4 DEF Held
  <2> QED
    BY <2>1, <2>2
<1> QED
  BY <1>1, Invariant, PTL

\* A signal is never decided against a process that took the pid of a recorded child
\* before, be it before the first look or in the 20 seconds after SIGTERM, nor against
\* the child of a living supervisor: each of the two checks of stop_orphans is the last
\* thing before its signal (supervise.py:49-55).
THEOREM OnlyItsOwnAlways == Spec => []OnlyItsOwn
<1>1. IInv => OnlyItsOwn
  BY DEF IInv
<1> QED
  BY <1>1, Invariant, PTL

\* "stopped" in the status file is the truth while nobody is at work (supervise.py:116-117).
THEOREM StoppedIsTrue == Spec => []StoppedHolds
<1>1. ASSUME IInv PROVE StoppedHolds
  <2> SUFFICES ASSUME stopped, lock = None, NEW n \in Name, NEW q \in Alive(n), q \notin lost
               PROVE  FALSE
    BY DEF StoppedHolds
  <2>1. \A t \in Supervisor : pc[t] = "off"
    BY <1>1, NoneAssumption DEF IInv, LockHeld
  <2>2. \A t \in Supervisor : child[t][n] = None
    BY <1>1, <2>1 DEF IInv, HasChildren
  <2>3. status[n] = None
    BY <1>1 DEF IInv, StoppedIsEmpty, NoChild
  <2> QED
    BY <1>1, <2>2, <2>3, RunningIsChild DEF IInv, Accounted, Is, Held, Alive
<1> QED
  BY <1>1, Invariant, PTL
=============================================================================
