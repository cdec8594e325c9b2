------------------------------ MODULE Supervisor ------------------------------
(***************************************************************************)
(* The supervisor of the browser and the bridge (scripts/supervise.py).    *)
(* One lock lets one of several supervisor processes work; it stops the    *)
(* children recorded by a supervisor that died, starts its own, starts a   *)
(* child that exited again after a delay, and records the children in a    *)
(* status file.  Supervisors and children may die at any time, the machine *)
(* may restart, and a pid may be taken by a process that is none of them.  *)
(* The other modules take for granted what this one is about: that there   *)
(* is one bridge process.                                                  *)
(*                                                                         *)
(* An orphan is not the child of the supervisor that stops it: its pid is  *)
(* free as soon as it exits, so every check, signal and wait of            *)
(* stop_orphans is a step of its own.  Its own child keeps its pid until   *)
(* the supervisor has reaped it: there a signal and the wait for its effect*)
(* are one step, and a supervisor that dies in between left the child as it*)
(* was.  The command ps, which identifies a process, may fail.  The length *)
(* of a delay, logs and metadata files are left out.                       *)
(***************************************************************************)
EXTENDS FiniteSets

CONSTANTS
  Supervisor,   \* processes that run supervise.py
  Pid,
  Identity,     \* start times, as process_identity tells them apart
  None

Name  == {"browser", "bridge"}
Child == [pid : Pid, identity : Identity \cup {None}]

ASSUME NoneAssumption == None \notin Supervisor \cup Identity \cup Child

VARIABLES
  process,   \* what runs under each pid: kind and start time (operating system)
  lock,      \* holder of supervisor.lock (operating system)
  pc, left,  \* where each supervisor is, and the names its loop has not visited
  child,     \* state['process'] and state['identity']
  due,       \* now >= state['next_start']
  status,    \* supervisor-status.json: the recorded children
  stopped,   \* supervisor-status.json: "stopped"
  lost,      \* pids of children that no supervisor stops or waits for any more (history)
  aim,       \* what ran under the orphan's pid when its signal was decided (history)
  harmed     \* a signal was decided when the pid was not the supervisor's (history)

vars == <<process, lock, pc, left, child, due, status, stopped, lost, aim, harmed>>

Process == [kind : Name \cup {"other"}, identity : Identity]

TypeOK ==
  /\ process \in [Pid -> Process \cup {None}]
  /\ lock \in Supervisor \cup {None}
  /\ pc \in [Supervisor -> {"off", "orphans", "term", "wait", "kill", "children", "stop"}]
  /\ left \in [Supervisor -> SUBSET Name]
  /\ child \in [Supervisor -> [Name -> Child \cup {None}]]
  /\ due \in [Name -> BOOLEAN]
  /\ status \in [Name -> Child \cup {None}]
  /\ stopped \in BOOLEAN
  /\ lost \subseteq Pid
  /\ aim \in Process \cup {None}
  /\ harmed \in BOOLEAN

NoChild == [n \in Name |-> None]
NoDelay == [n \in Name |-> TRUE]

Init ==
  /\ process = [p \in Pid |-> None]
  /\ lock = None
  /\ pc = [s \in Supervisor |-> "off"]
  /\ left = [s \in Supervisor |-> {}]
  /\ child = [s \in Supervisor |-> NoChild]
  /\ due = NoDelay
  /\ status = NoChild
  /\ stopped = FALSE
  /\ lost = {}
  /\ aim = None
  /\ harmed = FALSE

-----------------------------------------------------------------------------
(***************************************************************************)
(* Processes.                                                              *)
(***************************************************************************)
\* process_identity: the recorded child still runs under its pid.
Runs(c) == c # None /\ process[c.pid] # None /\ process[c.pid].identity = c.identity

\* process.poll(): a supervisor knows its own child whatever ps said of it.
Running(c) == c # None /\ process[c.pid] # None

\* A dead child keeps its pid until its supervisor has reaped it.
Free(p) == process[p] = None /\ \A s \in Supervisor : \A n \in Name :
             child[s][n] # None => child[s][n].pid # p

\* A new process under a free pid starts at another time than a recorded one.
Times(p) == {i \in Identity : \A n \in Name : status[n] # [pid |-> p, identity |-> i]}
Room(p)  == Free(p) /\ Times(p) # {}

Spawn(p, kind, i) ==
  /\ Room(p) /\ i = CHOOSE t \in Times(p) : TRUE
  /\ process' = [process EXCEPT ![p] = [kind |-> kind, identity |-> i]]

End(P) ==
  /\ process' = [p \in Pid |-> IF p \in P THEN None ELSE process[p]]
  /\ lost' = lost \ P

\* One process that is none of the children, at a time.
Other ==
  /\ \A p \in Pid : process[p] # None => process[p].kind # "other"
  /\ \E p \in Pid : \E i \in Identity : Spawn(p, "other", i)
  /\ UNCHANGED <<lock, pc, left, child, due, status, stopped, lost, aim, harmed>>

Exit(p) ==
  /\ process[p] # None
  /\ End({p})
  /\ UNCHANGED <<lock, pc, left, child, due, status, stopped, aim, harmed>>

-----------------------------------------------------------------------------
(***************************************************************************)
(* One supervisor.                                                         *)
(***************************************************************************)
At(s, label, names) ==
  /\ pc' = [pc EXCEPT ![s] = label]
  /\ left' = [left EXCEPT ![s] = names]

First(s) == IF "browser" \in left[s] THEN "browser" ELSE "bridge"

\* A second supervisor fails at the lock.
Start_Shared(s) ==
  /\ pc[s] = "off"
  /\ lock' = s
  /\ At(s, "orphans", Name)
  /\ UNCHANGED <<process, child, due, status, stopped, lost, aim, harmed>>
Start(s) ==
  /\ pc[s] = "off"
  /\ lock = None
  /\ lock' = s
  /\ At(s, "orphans", Name)
  /\ UNCHANGED <<process, child, due, status, stopped, lost, aim, harmed>>

\* stop_orphans, for one recorded child.
Orphan(s) == status[First(s)]

Aim(s, label) ==
  /\ At(s, label, left[s])
  /\ aim' = process[Orphan(s).pid]

NextOrphan(s) ==
  /\ At(s, "orphans", left[s] \ {First(s)})
  /\ aim' = None

\* It is stopped only if it is still that process.
CheckOrphan(s) ==
  /\ pc[s] = "orphans" /\ left[s] # {}
  /\ \/ Runs(Orphan(s)) /\ Aim(s, "term")
     \/ ~Runs(Orphan(s)) /\ NextOrphan(s)
  /\ UNCHANGED <<process, lock, child, due, status, stopped, lost, harmed>>

\* What no supervisor may stop as an orphan.
Spared(p) ==
  /\ process[p] # None
  /\ \/ process[p].kind = "other"
     \/ \E s \in Supervisor, n \in Name : Running(child[s][n]) /\ child[s][n].pid = p

\* killpg reaches whatever has the pid now.
Signal(p) == harmed' = (harmed \/ (Spared(p) /\ process[p] = aim))

\* After SIGTERM the orphan may exit, at any time (Exit).
Terminate(s) ==
  /\ pc[s] = "term"
  /\ LET p == Orphan(s).pid IN
       /\ Signal(p)
       /\ \/ process[p] # None /\ At(s, "wait", left[s]) /\ aim' = None
          \/ process[p] = None /\ NextOrphan(s)
  /\ UNCHANGED <<process, lock, child, due, status, stopped, lost>>

ExitSeen(s) ==
  /\ pc[s] = "wait"
  /\ ~Runs(Orphan(s))
  /\ NextOrphan(s)
  /\ UNCHANGED <<process, lock, child, due, status, stopped, lost, harmed>>

\* 20 seconds later it is looked at again.
TimedOut_Unchecked(s) ==
  /\ pc[s] = "wait"
  /\ Aim(s, "kill")
  /\ UNCHANGED <<process, lock, child, due, status, stopped, lost, harmed>>
TimedOut(s) ==
  /\ pc[s] = "wait"
  /\ Runs(Orphan(s))
  /\ Aim(s, "kill")
  /\ UNCHANGED <<process, lock, child, due, status, stopped, lost, harmed>>

\* Nobody waits for an orphan that got SIGKILL.
Kill(s) ==
  /\ pc[s] = "kill"
  /\ LET p == Orphan(s).pid IN
       /\ Signal(p)
       /\ lost' = lost \cup {q \in {p} : process[q] = aim}
  /\ NextOrphan(s)
  /\ UNCHANGED <<process, lock, child, due, status, stopped>>

\* ps fails: the orphan is taken for gone.
Unidentified(s) ==
  /\ pc[s] \in {"orphans", "wait"} /\ left[s] # {}
  /\ Runs(Orphan(s))
  /\ lost' = lost \cup {Orphan(s).pid}
  /\ NextOrphan(s)
  /\ UNCHANGED <<process, lock, child, due, status, stopped, harmed>>

Begin(s) ==
  /\ pc[s] = "orphans" /\ left[s] = {}
  /\ At(s, "children", Name)
  /\ UNCHANGED <<process, lock, child, due, status, stopped, lost, aim, harmed>>

\* One child in the loop: reap it and set its delay, or start it, or leave it.
Reap_Forgets(s, n) ==
  /\ child[s][n] # None /\ ~Running(child[s][n])
  /\ due' = [due EXCEPT ![n] = FALSE]
  /\ UNCHANGED <<process, child>>
Reap(s, n) ==
  /\ child[s][n] # None /\ ~Running(child[s][n])
  /\ child' = [child EXCEPT ![s][n] = None]
  /\ due' = [due EXCEPT ![n] = FALSE]
  /\ UNCHANGED process

Popen(s, n) ==
  /\ child[s][n] = None /\ due[n]
  /\ \E p \in Pid : \E i \in Identity :
       /\ Spawn(p, n, i)
       /\ \E seen \in {i, None} :
            child' = [child EXCEPT ![s][n] = [pid |-> p, identity |-> seen]]
  /\ UNCHANGED due

LeaveIt(s, n) ==
  /\ Running(child[s][n]) \/ (child[s][n] = None /\ ~due[n])
  /\ UNCHANGED <<process, child, due>>

Visit(s) ==
  /\ pc[s] = "children" /\ left[s] # {}
  /\ LET n == First(s) IN Reap(s, n) \/ Popen(s, n) \/ LeaveIt(s, n)
  /\ At(s, "children", left[s] \ {First(s)})
  /\ UNCHANGED <<lock, status, stopped, lost, aim, harmed>>

\* The delay of a child is over.
Delayed(s, n) ==
  /\ pc[s] = "children" /\ ~due[n]
  /\ due' = [due EXCEPT ![n] = TRUE]
  /\ UNCHANGED <<process, lock, pc, left, child, status, stopped, lost, aim, harmed>>

\* A record without an identity is one that stop_orphans passes over.
Identified(c) == c # None /\ c.identity # None

\* Then the loop goes on, or a signal has ended it.
WriteStatus(s) ==
  /\ pc[s] = "children" /\ left[s] = {}
  /\ status' = [n \in Name |-> IF Identified(child[s][n]) THEN child[s][n] ELSE None]
  /\ stopped' = FALSE
  /\ At(s, "children", Name) \/ At(s, "stop", Name)
  /\ UNCHANGED <<process, lock, child, due, lost, aim, harmed>>

\* A child cannot be started, or a file not be written.
Raise(s) ==
  /\ pc[s] = "children"
  /\ At(s, "stop", Name)
  /\ UNCHANGED <<process, lock, child, due, status, stopped, lost, aim, harmed>>

StopChild(s) ==
  /\ pc[s] = "stop" /\ left[s] # {}
  /\ LET c == child[s][First(s)] IN End(IF Running(c) THEN {c.pid} ELSE {})
  /\ child' = [child EXCEPT ![s][First(s)] = None]
  /\ At(s, "stop", left[s] \ {First(s)})
  /\ UNCHANGED <<lock, due, status, stopped, aim, harmed>>

Finish_Early(s) ==
  /\ pc[s] = "stop" /\ left[s] # {}
  /\ status' = NoChild
  /\ stopped' = TRUE
  /\ lock' = None
  /\ child' = [child EXCEPT ![s] = NoChild]
  /\ due' = NoDelay
  /\ At(s, "off", {})
  /\ UNCHANGED <<process, lost, aim, harmed>>
Finish(s) ==
  /\ pc[s] = "stop" /\ left[s] = {}
  /\ status' = NoChild
  /\ stopped' = TRUE
  /\ lock' = None
  /\ due' = NoDelay
  /\ At(s, "off", {})
  /\ UNCHANGED <<process, child, lost, aim, harmed>>

\* A supervisor dies.  Its children live on; the operating system frees its lock.
\* A child is lost whose record does not identify it.
Unrecorded(s) ==
  {p \in Pid : \E n \in Name : /\ Running(child[s][n]) /\ child[s][n].pid = p
                               /\ ~(Runs(status[n]) /\ status[n].pid = p)}

Crash(s) ==
  /\ pc[s] # "off"
  /\ lost' = lost \cup Unrecorded(s)
  /\ child' = [child EXCEPT ![s] = NoChild]
  /\ lock' = IF lock = s THEN None ELSE lock
  /\ due' = NoDelay
  /\ At(s, "off", {})
  /\ aim' = None
  /\ UNCHANGED <<process, status, stopped, harmed>>

\* The machine restarts; the files stay.
Reboot ==
  /\ End(Pid)
  /\ lock' = None
  /\ pc' = [s \in Supervisor |-> "off"]
  /\ left' = [s \in Supervisor |-> {}]
  /\ child' = [s \in Supervisor |-> NoChild]
  /\ due' = NoDelay
  /\ aim' = None
  /\ UNCHANGED <<status, stopped, harmed>>

Supervise(s) ==
  \/ Start(s) \/ Begin(s)
  \/ CheckOrphan(s) \/ Terminate(s) \/ ExitSeen(s) \/ TimedOut(s) \/ Kill(s)
  \/ Unidentified(s)
  \/ Visit(s) \/ WriteStatus(s) \/ Raise(s) \/ StopChild(s) \/ Finish(s) \/ Crash(s)
  \/ \E n \in Name : Delayed(s, n)

Next ==
  \/ Other \/ \E p \in Pid : Exit(p)
  \/ \E s \in Supervisor : Supervise(s)
  \/ Reboot

\* The loop goes on, delays end (at most 120 seconds), pids do not run out at every
\* attempt to start a child, and without a free pid
\* Popen fails.
Fairness ==
  \A s \in Supervisor :
    /\ SF_vars(Visit(s)) /\ WF_vars(WriteStatus(s))
    /\ WF_vars(Raise(s) /\ \A p \in Pid : ~Room(p))
    /\ \A n \in Name : WF_vars(Delayed(s, n))

Spec == Init /\ [][Next]_vars /\ Fairness

-----------------------------------------------------------------------------
Alive(n) == {p \in Pid : process[p] # None /\ process[p].kind = n}

\* However supervisors and children die, are restarted or started twice, there is
\* one browser and one bridge (docs/operations.md:36-39, supervise.py:97-107), but for
\* an orphan that has its SIGKILL and nobody waits for, and for a child that cannot be
\* identified: its supervisor died before it was recorded, or ps failed.
OneOwner == \A n \in Name : \A p, q \in Alive(n) \ lost : p = q

\* A supervisor decides to stop its own children and those recorded by a dead one:
\* never a process that has got the pid of a recorded child, before the first look
\* or during the wait, nor the child of a supervisor that lives
\* (docs/operations.md:33-34).  Between the decision and its signal the pid may still
\* change hands (supervise.py:49-50, 54-55); only then is another process signalled.
OnlyItsOwn == ~harmed

\* When the status file says "stopped" and no supervisor is at work, no child runs
\* but a lost one.
StoppedHolds ==
  stopped /\ lock = None => \A n \in Name : Alive(n) \subseteq lost

\* While a supervisor stays in its loop, it has each child run again and again, however
\* often it or the other one exits (supervise.py:4-5).
ServiceReturns ==
  \A n \in Name :
    <>[](\E s \in Supervisor : pc[s] = "children")
      => []<>(\E s \in Supervisor : Running(child[s][n]))
=============================================================================
