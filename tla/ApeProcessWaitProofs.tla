------------------------ MODULE ApeProcessWaitProofs ------------------------
(***************************************************************************)
(* wait4 and the exits it reports: no exit is lost, duplicated or put in   *)
(* the wrong queue, nobody waits for what has happened already or cannot   *)
(* happen any more, and queues, replies and signals together implement     *)
(* ChildWait.                                                              *)
(***************************************************************************)
EXTENDS ApeProcessReplyProofs

USE DEF Pid

(***************************************************************************)
(* Queues                                                                  *)
(***************************************************************************)
\* A queue of p's: events of p's children only, each exit that of a process
\* that is dead and the last event of its child.
QueueOK(q, p, parents, alive) ==
  \A i \in DOMAIN q :
    /\ parents[q[i].child] = p
    /\ q[i].kind = "Exited" =>
         /\ q[i].child \notin alive
         /\ \A j \in DOMAIN q : j > i => q[j].child # q[i].child

HasExit(q, c) == \E i \in DOMAIN q : q[i].child = c /\ q[i].kind = "Exited"

\* Taking the oldest match keeps the queue in order and removes exactly the exit
\* it reports.
LEMMA PopQueue ==
  ASSUME NEW q \in Seq(Event), NEW req, has_child_event_matching(q, req),
         NEW p, NEW parents, NEW alive, QueueOK(q, p, parents, alive)
  PROVE  /\ QueueOK(pop_child_event_matching(q, req), p, parents, alive)
         /\ \A c : HasExit(pop_child_event_matching(q, req), c)
                     <=> HasExit(q, c) /\ c \notin ExitTaken(q, req)
<1> DEFINE i == OldestMatch(q, req)
           r == pop_child_event_matching(q, req)
           From(j) == IF j < i THEN j ELSE j + 1
<1>1. i \in DOMAIN q
  BY PopKeepsEvents
<1>2. /\ r \in Seq(Event) /\ Len(r) = Len(q) - 1
      /\ \A j \in DOMAIN r : /\ j < i => r[j] = q[j]
                             /\ j >= i => r[j] = q[j + 1]
  BY <1>1, RemoveEventFacts DEF pop_child_event_matching
<1>3. ExitTaken(q, req) = IF q[i].kind = "Exited" THEN {q[i].child} ELSE {}
  BY DEF ExitTaken
<1>4. DOMAIN q = 1..Len(q) /\ DOMAIN r = 1..(Len(q) - 1) /\ Len(q) \in Nat
  BY <1>2
<1> HIDE DEF i, r
<1>5. \A j \in DOMAIN r : From(j) \in DOMAIN q /\ From(j) # i /\ r[j] = q[From(j)]
  BY <1>1, <1>2, <1>4
<1>6. \A j, k \in DOMAIN r : k > j => From(k) > From(j)
  BY <1>1, <1>4
<1>7. \A k \in DOMAIN q : k # i => \E j \in DOMAIN r : r[j] = q[k]
  <2> SUFFICES ASSUME NEW k \in DOMAIN q, k # i PROVE \E j \in DOMAIN r : r[j] = q[k]
    OBVIOUS
  <2>1. CASE k < i
    <3>1. k \in DOMAIN r /\ r[k] = q[k]
      BY <1>1, <1>2, <1>4, <2>1
    <3> QED
      BY <3>1
  <2>2. CASE k > i
    <3>1. k - 1 \in DOMAIN r /\ r[k - 1] = q[k]
      BY <1>1, <1>2, <1>4, <2>2
    <3> QED
      BY <3>1
  <2> QED
    BY <1>1, <1>4, <2>1, <2>2
<1> HIDE DEF From
<1>8. QueueOK(r, p, parents, alive)
  BY <1>5, <1>6 DEF QueueOK
<1>9. ASSUME NEW c
      PROVE  HasExit(r, c) <=> HasExit(q, c) /\ c \notin ExitTaken(q, req)
  <2>1. ASSUME HasExit(r, c)
        PROVE  HasExit(q, c) /\ c \notin ExitTaken(q, req)
    <3>1. PICK j \in DOMAIN r : r[j].child = c /\ r[j].kind = "Exited"
      BY <2>1 DEF HasExit
    <3>2. PICK k \in DOMAIN q : k # i /\ q[k].child = c /\ q[k].kind = "Exited"
      BY <3>1, <1>5
    <3>3. q[i].kind = "Exited" => q[i].child # c
      <4>1. k > i \/ k < i
        BY <1>1, <1>4, <3>2
      <4> QED
        BY <1>1, <3>2, <4>1 DEF QueueOK
    <3> QED
      BY <1>3, <3>2, <3>3 DEF HasExit
  <2>2. ASSUME HasExit(q, c), c \notin ExitTaken(q, req)
        PROVE  HasExit(r, c)
    <3>1. PICK k \in DOMAIN q : q[k].child = c /\ q[k].kind = "Exited"
      BY <2>2 DEF HasExit
    <3>2. k # i
      BY <1>3, <2>2, <3>1
    <3> QED
      BY <1>7, <3>1, <3>2 DEF HasExit
  <2> QED
    BY <2>1, <2>2
<1> QED
  BY <1>8, <1>9 DEF r

\* Adding an event of a child whose exit is not in the queue.
LEMMA AppendQueue ==
  ASSUME NEW q \in Seq(Event), NEW e \in Event, NEW p, NEW parents, NEW alive,
         QueueOK(q, p, parents, alive), parents[e.child] = p, ~HasExit(q, e.child),
         e.kind = "Exited" => e.child \notin alive
  PROVE  /\ QueueOK(Append(q, e), p, parents, alive)
         /\ \A c : HasExit(Append(q, e), c)
                     <=> HasExit(q, c) \/ (e.kind = "Exited" /\ c = e.child)
<1> DEFINE r == Append(q, e)
           n == Len(q)
<1>1. /\ DOMAIN r = 1..(n + 1) /\ DOMAIN q = 1..n /\ n \in Nat
      /\ r[n + 1] = e /\ \A i \in 1..n : r[i] = q[i]
  OBVIOUS
<1> HIDE DEF r, n
<1>2. ASSUME NEW i \in DOMAIN r
      PROVE  /\ parents[r[i].child] = p
             /\ r[i].kind = "Exited" =>
                  /\ r[i].child \notin alive
                  /\ \A j \in DOMAIN r : j > i => r[j].child # r[i].child
  <2>1. CASE i = n + 1
    BY <1>1, <2>1
  <2>2. CASE i \in 1..n
    <3>1. parents[r[i].child] = p /\ (r[i].kind = "Exited" => r[i].child \notin alive)
      BY <1>1, <2>2 DEF QueueOK
    <3>2. ASSUME r[i].kind = "Exited", NEW j \in DOMAIN r, j > i
          PROVE  r[j].child # r[i].child
      <4>1. CASE j \in 1..n
        BY <1>1, <2>2, <3>2, <4>1 DEF QueueOK
      <4>2. CASE j = n + 1
        BY <1>1, <2>2, <3>2, <4>2 DEF HasExit
      <4> QED
        BY <1>1, <4>1, <4>2
    <3> QED
      BY <3>1, <3>2
  <2> QED
    BY <1>1, <2>1, <2>2
<1>3. QueueOK(r, p, parents, alive)
  BY <1>2 DEF QueueOK
<1>4. ASSUME NEW c
      PROVE  HasExit(r, c) <=> HasExit(q, c) \/ (e.kind = "Exited" /\ c = e.child)
  <2>1. HasExit(r, c) => HasExit(q, c) \/ (e.kind = "Exited" /\ c = e.child)
    BY <1>1 DEF HasExit
  <2>2. HasExit(q, c) => HasExit(r, c)
    BY <1>1 DEF HasExit
  <2>3. e.kind = "Exited" /\ c = e.child => HasExit(r, c)
    <3>1. n + 1 \in DOMAIN r
      BY <1>1
    <3> QED
      BY <1>1, <3>1 DEF HasExit
  <2> QED
    BY <2>1, <2>2, <2>3
<1> QED
  BY <1>3, <1>4 DEF r

(***************************************************************************)
(* The inductive invariants                                                *)
(***************************************************************************)
\* A pid not given out yet has no parent and no reported exit.
UnbornClean == \A c \in Pid : c >= next_pid => parent_pid[c] = 0 /\ c \notin reported

\* Only the exits of dead processes are reported.
ReportedDead == reported \cap tasks = {}

\* A parent is older than its children.
ParentsOlder == \A c \in Pid : parent_pid[c] < c

XInv == ExitQueueSound /\ UnbornClean /\ ReportedDead /\ ParentsOlder

\* ExitQueueSound, queue by queue.
LEMMA QueueForm ==
  ExitQueueSound <=>
    /\ \A p \in Pid : QueueOK(child_events[p], p, parent_pid, tasks)
    /\ \A c \in Pid : parent_pid[c] # 0 =>
         (HasExit(child_events[parent_pid[c]], c) <=> c \notin tasks /\ c \notin reported)
BY DEF ExitQueueSound, ExitIsLast, ExitsConserved, ExitQueued, QueueOK, HasExit

(***************************************************************************)
(* What a step may do to processes, events and waits                       *)
(***************************************************************************)
\* Nothing at all.
WaitFrame == UNCHANGED <<tasks, next_pid, parent_pid, child_events, reported, waitVars>>

\* A stop or a continue of a live process is recorded.
RecordsChange ==
  /\ \E c \in tasks, kind \in {"Stopped", "Continued"} : RecordChange(c, kind)
  /\ UNCHANGED <<tasks, next_pid, parent_pid, reported, waitVars>>

\* Process p gets a child.
Forks(p) ==
  /\ Received(p) /\ next_pid <= MaxPid /\ next_pid' = next_pid + 1
  /\ tasks' = tasks \cup {next_pid}
  /\ parent_pid' = [parent_pid EXCEPT ![next_pid] = p]
  /\ UNCHANGED <<child_events, reported, waitVars>>

\* Every step is one of these, or a termination, or a wait4.
LEMMA WaitStepCases ==
  ASSUME TypeOK, [Next]_vars
  PROVE  \/ WaitFrame \/ RecordsChange
         \/ \E p \in Pid : Forks(p)
         \/ \E t \in tasks : terminate_process(t)
         \/ \E p \in Pid, target \in WaitTargets, options \in WaitOptions :
              SysWait4(p, target, options)
<1> USE DEF taskVars, eventVars
<1>1. ASSUME NEW p \in Pid, Call(p)
      PROVE  WaitFrame
  BY <1>1 DEF Call, WaitFrame
<1>2. ASSUME NEW p \in Pid, Syscall(p)
      PROVE  \/ WaitFrame \/ Forks(p) \/ (terminate_process(p) /\ p \in tasks)
             \/ \E target \in WaitTargets, options \in WaitOptions : SysWait4(p, target, options)
  <2>1. CASE SysExit(p)
    BY <2>1 DEF SysExit, Received
  <2>2. ASSUME NEW outcome \in ForkOutcomes, SysFork(p, outcome)
        PROVE  Forks(p)
    BY <2>2 DEF SysFork, register_process, Forks
  <2>3. ASSUME \/ OtherSyscall(p) \/ SysReboot(p) \/ PageFaultResolved(p)
               \/ FaultUnanswered(p) \/ SysPowerOff(p)
               \/ \E target \in KillTargets, sig \in KillSignals : SysKill(p, target, sig)
        PROVE  WaitFrame
    BY <2>3 DEF OtherSyscall, SysReboot, SysKill, PageFaultResolved, FaultUnanswered,
                SysPowerOff, LoopUnchanged, WaitFrame
  <2>4. ASSUME SysSetsid(p) \/ \E t \in Pid, g \in Groups : SysSetpgid(p, t, g)
        PROVE  WaitFrame
    BY <2>4 DEF SysSetsid, SysSetpgid, GroupUnchanged, WaitFrame
  <2>5. ASSUME \/ SysSigreturn(p)
               \/ \E a \in Actions : SysSigaction(p, a[1], a[2])
               \/ \E set \in Masks : SysSigtimedwait(p, set) \/ SysSigsuspend(p, set)
        PROVE  WaitFrame
    BY <2>5 DEF SysSigreturn, SysSigaction, SysSigtimedwait, SysSigsuspend, SigUnchanged,
                WaitFrame
  <2>6. ASSUME NEW how \in {"BLOCK", "UNBLOCK", "SETMASK"}, NEW set \in Masks,
               SysSigprocmask(p, how, set)
        PROVE  WaitFrame
    <3>1. SigUnchanged
      BY <2>6, Zenon DEF SysSigprocmask
    <3> QED
      BY <3>1 DEF SigUnchanged, WaitFrame
  <2>7. ASSUME SysNanosleep(p)
        PROVE  WaitFrame
    BY <2>7 DEF SysNanosleep, WaitFrame
  <2> QED
    BY <1>2, <2>1, <2>2, <2>3, <2>4, <2>5, <2>6, <2>7 DEF Syscall
<1>3. ASSUME NEW t \in Pid, KillStep(t)
      PROVE  WaitFrame \/ RecordsChange \/ (terminate_process(t) /\ t \in tasks)
  <2>1. t \in tasks
    BY <1>3 DEF KillStep, KillTerminate, KillContinue, KillStop, KillOther, NextTarget, TypeOK,
                DispatcherType
  <2>2. CASE KillTerminate(t)
    BY <2>1, <2>2 DEF KillTerminate
  <2>3. CASE KillContinue(t) \/ KillStop(t) \/ KillOther(t)
    <3>1. /\ UNCHANGED <<tasks, next_pid, parent_pid, reported, waitVars>>
          /\ \/ UNCHANGED child_events
             \/ RecordChange(t, "Continued") \/ RecordChange(t, "Stopped")
      BY <2>3 DEF KillContinue, KillStop, KillOther, KillUnchanged
    <3> QED
      BY <2>1, <3>1 DEF WaitFrame, RecordsChange
  <2> QED
    BY <1>3, <2>2, <2>3 DEF KillStep
<1>4. ASSUME RebootStep
      PROVE  WaitFrame \/ \E t \in tasks : terminate_process(t)
  <2>1. ASSUME NEW t \in Pid, RebootTerminate(t)
        PROVE  terminate_process(t) /\ t \in tasks
    BY <2>1 DEF RebootTerminate, NextTarget, TypeOK, DispatcherType
  <2>2. ASSUME NEW ok \in BOOLEAN, RebootExec(ok)
        PROVE  WaitFrame
    BY <2>2 DEF RebootExec, WaitFrame
  <2> QED
    BY <1>4, <2>1, <2>2 DEF RebootStep
<1>5. ASSUME Return
      PROVE  WaitFrame \/ RecordsChange \/ \E t \in tasks : terminate_process(t)
  <2>1. CASE ReturnPlain \/ \E s \in Signal : ReturnHandled(s)
    BY <2>1 DEF ReturnPlain, ReturnHandled, ReturnUnchanged, WaitFrame
  <2>2. ASSUME NEW s \in Signal, ReturnStopped(s) \/ ReturnContinued(s)
        PROVE  WaitFrame \/ RecordsChange
    <3>1. /\ UNCHANGED <<tasks, next_pid, parent_pid, reported, waitVars>> /\ caller \in tasks
          /\ \/ UNCHANGED child_events
             \/ RecordChange(caller, "Continued") \/ RecordChange(caller, "Stopped")
      BY <2>2 DEF ReturnStopped, ReturnContinued, ReturnUnchanged, Consumes
    <3> QED
      BY <3>1 DEF WaitFrame, RecordsChange
  <2>3. ASSUME NEW s \in Signal, ReturnKilled(s)
        PROVE  \E t \in tasks : terminate_process(t)
    BY <2>3 DEF ReturnKilled, Consumes
  <2> QED
    BY <1>5, <2>1, <2>2, <2>3 DEF Return
<1>6. ASSUME Worker \/ DrainStart \/ DrainEvent \/ DrainDone
      PROVE  WaitFrame
  <2>1. AsyncUnchanged
    BY <1>6 DEF Worker, WorkerTake, WorkerSend, WorkerNotify, DrainStart, DrainEvent, DrainDone
  <2> QED
    BY <2>1 DEF AsyncUnchanged, WaitFrame
<1>7. UNCHANGED vars => WaitFrame
  BY DEF vars, WaitFrame
<1> QED
  BY <1>1, <1>2, <1>3, <1>4, <1>5, <1>6, <1>7 DEF Next, Handler
(***************************************************************************)
(* XInv is inductive                                                       *)
(***************************************************************************)
\* What wait4 takes is an exit of the queue.
LEMMA TakenIsExit ==
  ASSUME NEW q \in Seq(Event), NEW req, has_child_event_matching(q, req),
         NEW c \in ExitTaken(q, req)
  PROVE  HasExit(q, c)
<1>1. OldestMatch(q, req) \in DOMAIN q
  BY PopKeepsEvents
<1> QED
  BY <1>1 DEF ExitTaken, HasExit

\* An event with an exited child is the event of a child of the queue's owner.
LEMMA ExitOfChild ==
  ASSUME NEW q, NEW p, NEW parents, NEW alive, QueueOK(q, p, parents, alive),
         NEW c, HasExit(q, c)
  PROVE  parents[c] = p /\ c \notin alive
BY DEF QueueOK, HasExit

\* The stop or continue of a live child changes no exit.
LEMMA RecordsExits ==
  ASSUME TypeOK, XInv, RecordsChange
  PROVE  XInv'
<1>1. PICK c \in tasks, kind \in {"Stopped", "Continued"} : RecordChange(c, kind)
  BY DEF RecordsChange
<1> DEFINE e == [child |-> c, pgid |-> process_group_id[c], kind |-> kind]
<1>2. c \in Pid /\ e \in Event /\ e.child = c /\ e.kind # "Exited"
  BY DEF TypeOK, TaskType, Event, Kinds
<1>3. \A p \in Pid : child_events[p] \in Seq(Event)
  BY DEF TypeOK, WaitType
<1>4. \A p \in Pid : child_events'[p] = IF p = parent_pid[c] THEN Append(child_events[p], e)
                                        ELSE child_events[p]
  BY <1>1 DEF RecordChange
<1>5. UNCHANGED <<tasks, next_pid, parent_pid, reported>> /\ parent_pid \in [Pid -> 0..MaxPid]
  BY DEF RecordsChange, TypeOK, TaskType
<1>6. /\ \A p \in Pid : QueueOK(child_events[p], p, parent_pid, tasks)
      /\ \A d \in Pid : parent_pid[d] # 0 =>
           (HasExit(child_events[parent_pid[d]], d) <=> d \notin tasks /\ d \notin reported)
  BY QueueForm DEF XInv
<1> HIDE DEF e
<1>7. ASSUME NEW p \in Pid
      PROVE  /\ QueueOK(child_events'[p], p, parent_pid, tasks)
             /\ \A d : HasExit(child_events'[p], d) <=> HasExit(child_events[p], d)
  <2>1. CASE p = parent_pid[c]
    <3>1. ~HasExit(child_events[p], c)
      BY <1>2, <1>6, <2>1
    <3>2. /\ child_events[p] \in Seq(Event) /\ QueueOK(child_events[p], p, parent_pid, tasks)
          /\ parent_pid[e.child] = p /\ ~HasExit(child_events[p], e.child)
      BY <1>2, <1>3, <1>6, <2>1, <3>1
    <3>3. /\ QueueOK(Append(child_events[p], e), p, parent_pid, tasks)
          /\ \A d : HasExit(Append(child_events[p], e), d)
                      <=> HasExit(child_events[p], d) \/ (e.kind = "Exited" /\ d = e.child)
      BY <1>2, <3>2, AppendQueue
    <3> QED
      BY <1>2, <1>4, <2>1, <3>3
  <2>2. CASE p # parent_pid[c]
    BY <1>4, <1>6, <2>2
  <2> QED
    BY <2>1, <2>2
<1>8. \A d \in Pid : parent_pid[d] # 0 =>
        (HasExit(child_events'[parent_pid[d]], d) <=> d \notin tasks /\ d \notin reported)
  BY <1>5, <1>6, <1>7
<1>9. ExitQueueSound'
  BY <1>5, <1>7, <1>8
  DEF ExitQueueSound, ExitIsLast, ExitsConserved, ExitQueued, QueueOK, HasExit
<1> QED
  BY <1>5, <1>9 DEF XInv, UnbornClean, ReportedDead, ParentsOlder

\* A new process has no events and no exit.
LEMMA ForkExits ==
  ASSUME TypeOK, RInv, XInv, NEW p \in Pid, Forks(p)
  PROVE  XInv'
<1>1. PICK n \in Pid : n = next_pid
  BY DEF Forks, TypeOK, TaskType
<1>2. /\ \A q \in Pid : QueueOK(child_events[q], q, parent_pid, tasks)
      /\ \A d \in Pid : parent_pid[d] # 0 =>
           (HasExit(child_events[parent_pid[d]], d) <=> d \notin tasks /\ d \notin reported)
  BY QueueForm DEF XInv
<1>3. /\ tasks' = tasks \cup {n} /\ parent_pid \in [Pid -> 0..MaxPid]
      /\ parent_pid' = [parent_pid EXCEPT ![n] = p]
      /\ next_pid' = n + 1 /\ UNCHANGED <<child_events, reported>>
  BY <1>1 DEF Forks, TypeOK, TaskType
<1>4. parent_pid[n] = 0 /\ n \notin reported /\ n \notin tasks
  BY <1>1 DEF XInv, UnbornClean, RInv, FreshPids
<1>5. p < n
  BY <1>1 DEF Forks, Received, RInv, FreshPids
<1>6. \A d \in Pid : parent_pid'[d] = IF d = n THEN p ELSE parent_pid[d]
  BY <1>3
<1>7. \A q \in Pid : \A i \in DOMAIN child_events[q] : child_events[q][i].child \in Pid
  <2>1. \A q \in Pid : \A i \in DOMAIN child_events[q] : child_events[q][i] \in Event
    BY DEF TypeOK, WaitType
  <2> QED
    BY <2>1 DEF Event
<1>8. \A q \in Pid : \A i \in DOMAIN child_events[q] : child_events[q][i].child # n
  BY <1>2, <1>4 DEF QueueOK
<1>9. \A q \in Pid : QueueOK(child_events'[q], q, parent_pid', tasks')
  BY <1>2, <1>3, <1>6, <1>7, <1>8 DEF QueueOK
<1>10. \A d \in Pid : parent_pid'[d] # 0 =>
         (HasExit(child_events'[parent_pid'[d]], d) <=> d \notin tasks' /\ d \notin reported')
  <2> SUFFICES ASSUME NEW d \in Pid, parent_pid'[d] # 0
               PROVE  HasExit(child_events'[parent_pid'[d]], d)
                        <=> d \notin tasks' /\ d \notin reported'
    OBVIOUS
  <2>1. CASE d = n
    BY <1>3, <1>6, <1>8, <2>1 DEF HasExit
  <2>2. CASE d # n
    BY <1>2, <1>3, <1>6, <2>2
  <2> QED
    BY <2>1, <2>2
<1>11. ExitQueueSound'
  BY <1>9, <1>10
  DEF ExitQueueSound, ExitIsLast, ExitsConserved, ExitQueued, QueueOK, HasExit
<1>12. UnbornClean' /\ ReportedDead' /\ ParentsOlder'
  BY <1>1, <1>3, <1>4, <1>5, <1>6 DEF XInv, UnbornClean, ReportedDead, ParentsOlder
<1> QED
  BY <1>11, <1>12 DEF XInv

\* An exit is queued once, in its parent's queue and after the child's other
\* events; a parent that waits for it takes one exit, which is then reported.
LEMMA TerminateExits ==
  ASSUME TypeOK, XInv, NEW t \in tasks, terminate_process(t)
  PROVE  XInv'
<1> DEFINE par == parent_pid[t]
           e == ExitEvent(t)
           req == wait_req[par]
           taken == IF WaitSatisfied(t) THEN ExitTaken(QueueAtExit(t), req) ELSE {}
<1>1. /\ t \in Pid /\ par \in 0..MaxPid /\ parent_pid \in [Pid -> 0..MaxPid]
      /\ \A p \in Pid : child_events[p] \in Seq(Event)
  BY DEF TypeOK, TaskType, WaitType
<1>2. e \in Event /\ e.child = t /\ e.kind = "Exited"
  BY DEF TypeOK, TaskType, Event, Kinds, ExitEvent
<1>3. /\ tasks' = tasks \ {t} /\ UNCHANGED <<next_pid, parent_pid>>
      /\ reported' = reported \cup taken
  BY DEF terminate_process, remove_process, record_child_exit
<1>4. \A p \in Pid : child_events'[p] =
        IF p # par THEN child_events[p]
        ELSE IF WaitSatisfied(t) THEN pop_child_event_matching(Append(child_events[p], e), req)
        ELSE Append(child_events[p], e)
  BY DEF terminate_process, record_child_exit, QueueAtExit
<1>5. /\ \A p \in Pid : QueueOK(child_events[p], p, parent_pid, tasks)
      /\ \A d \in Pid : parent_pid[d] # 0 =>
           (HasExit(child_events[parent_pid[d]], d) <=> d \notin tasks /\ d \notin reported)
  BY QueueForm DEF XInv
<1>6. \A p \in Pid : QueueOK(child_events[p], p, parent_pid, tasks')
  BY <1>3, <1>5 DEF QueueOK
<1>7. WaitSatisfied(t) => par # 0 /\ has_child_event_matching(Append(child_events[par], e), req)
  BY DEF WaitSatisfied, QueueAtExit
<1>8. taken = IF WaitSatisfied(t) THEN ExitTaken(Append(child_events[par], e), req) ELSE {}
  BY DEF QueueAtExit
<1> HIDE DEF par, e, req, taken
<1>9. ASSUME par # 0
      PROVE  /\ par \in Pid
             /\ QueueOK(Append(child_events[par], e), par, parent_pid, tasks')
             /\ \A d : HasExit(Append(child_events[par], e), d)
                         <=> HasExit(child_events[par], d) \/ d = t
             /\ Append(child_events[par], e) \in Seq(Event)
  <2>1. par \in Pid /\ parent_pid[e.child] = par /\ e.child \notin tasks'
    BY <1>1, <1>2, <1>3, <1>9 DEF par
  <2>2. ~HasExit(child_events[par], e.child)
    BY <1>1, <1>2, <1>5, <1>9 DEF par
  <2>3. child_events[par] \in Seq(Event) /\ QueueOK(child_events[par], par, parent_pid, tasks')
    BY <1>1, <1>6, <2>1
  <2>4. /\ QueueOK(Append(child_events[par], e), par, parent_pid, tasks')
        /\ \A d : HasExit(Append(child_events[par], e), d)
                    <=> HasExit(child_events[par], d) \/ (e.kind = "Exited" /\ d = e.child)
    BY <1>2, <2>1, <2>2, <2>3, AppendQueue
  <2> QED
    BY <1>2, <2>1, <2>3, <2>4
<1>10. \A d \in taken : /\ d \in Pid /\ parent_pid[d] = par /\ par # 0 /\ d \notin tasks'
  <2> SUFFICES ASSUME NEW d \in taken
               PROVE  d \in Pid /\ parent_pid[d] = par /\ par # 0 /\ d \notin tasks'
    OBVIOUS
  <2>1. WaitSatisfied(t) /\ d \in ExitTaken(Append(child_events[par], e), req)
    BY <1>8
  <2>2. par # 0 /\ HasExit(Append(child_events[par], e), d)
    BY <1>7, <1>9, <2>1, TakenIsExit
  <2>3. parent_pid[d] = par /\ d \notin tasks'
    BY <1>9, <2>2, ExitOfChild
  <2>4. d \in Pid
    <3>1. PICK i \in DOMAIN Append(child_events[par], e) :
            Append(child_events[par], e)[i].child = d
      BY <2>2 DEF HasExit
    <3>2. Append(child_events[par], e)[i] \in Event
      <4>1. Append(child_events[par], e) \in Seq(Event)
        BY <1>9, <2>2
      <4> QED
        BY <3>1, <4>1
    <3> QED
      BY <3>1, <3>2 DEF Event
  <2> QED
    BY <2>2, <2>3, <2>4
<1>11. ASSUME NEW p \in Pid
       PROVE  /\ QueueOK(child_events'[p], p, parent_pid, tasks')
              /\ \A d : HasExit(child_events'[p], d) <=>
                          (HasExit(child_events[p], d) \/ (p = par /\ d = t))
                            /\ (p = par => d \notin taken)
  <2>1. CASE p # par
    BY <1>4, <1>6, <2>1
  <2>2. CASE p = par /\ ~WaitSatisfied(t)
    <3>1. par # 0
      BY <2>2
    <3>2. child_events'[p] = Append(child_events[par], e)
      BY <1>4, <2>2, Zenon
    <3>3. taken = {}
      BY <1>8, <2>2, Zenon
    <3> QED
      BY <1>9, <2>2, <3>1, <3>2, <3>3
  <2>3. CASE p = par /\ WaitSatisfied(t)
    <3>1. /\ child_events'[p] = pop_child_event_matching(Append(child_events[par], e), req)
          /\ taken = ExitTaken(Append(child_events[par], e), req)
      BY <1>4, <1>8, <2>3
    <3>2. /\ QueueOK(pop_child_event_matching(Append(child_events[par], e), req), par,
                     parent_pid, tasks')
          /\ \A d : HasExit(pop_child_event_matching(Append(child_events[par], e), req), d)
                      <=> /\ HasExit(Append(child_events[par], e), d)
                          /\ d \notin ExitTaken(Append(child_events[par], e), req)
      BY <1>7, <1>9, <2>3, PopQueue
    <3>3. \A d : HasExit(Append(child_events[par], e), d)
                   <=> HasExit(child_events[par], d) \/ d = t
      BY <1>7, <1>9, <2>3
    <3> QED
      BY <2>3, <3>1, <3>2, <3>3
  <2> QED
    BY <2>1, <2>2, <2>3
<1>12. t \notin reported
  BY DEF XInv, ReportedDead
<1>13. \A d \in Pid : parent_pid[d] # 0 =>
         (HasExit(child_events'[parent_pid[d]], d) <=> d \notin tasks' /\ d \notin reported')
  <2> SUFFICES ASSUME NEW d \in Pid, parent_pid[d] # 0
               PROVE  HasExit(child_events'[parent_pid[d]], d)
                        <=> d \notin tasks' /\ d \notin reported'
    OBVIOUS
  <2>1. HasExit(child_events[parent_pid[d]], d) <=> d \notin tasks /\ d \notin reported
    BY <1>5
  <2>2. parent_pid[d] \in Pid /\ (d = t => parent_pid[d] = par)
    BY <1>1 DEF par
  <2>3. HasExit(child_events'[parent_pid[d]], d) <=>
          (HasExit(child_events[parent_pid[d]], d) \/ d = t) /\ d \notin taken
    BY <1>10, <1>11, <2>2
  <2> QED
    BY <1>3, <1>12, <2>1, <2>3
<1>14. ExitQueueSound'
  BY <1>3, <1>11, <1>13
  DEF ExitQueueSound, ExitIsLast, ExitsConserved, ExitQueued, QueueOK, HasExit
<1>15. UnbornClean' /\ ReportedDead' /\ ParentsOlder'
  BY <1>3, <1>10 DEF XInv, UnbornClean, ReportedDead, ParentsOlder
<1> QED
  BY <1>14, <1>15 DEF XInv

\* wait4 reports an exit once, and takes it from the caller's own queue.
LEMMA WaitExits ==
  ASSUME TypeOK, XInv, NEW p \in Pid, NEW target, NEW options, SysWait4(p, target, options)
  PROVE  XInv'
<1> DEFINE req == [target |-> target, options |-> options, pgid |-> process_group_id[p]]
           q == child_events[p]
<1>1. /\ UNCHANGED <<tasks, next_pid, parent_pid>> /\ parent_pid \in [Pid -> 0..MaxPid]
      /\ q \in Seq(Event)
  BY DEF SysWait4, WaitUnchanged, taskVars, TypeOK, TaskType, WaitType
<1>2. \/ UNCHANGED <<child_events, reported>>
      \/ /\ has_child_event_matching(q, req)
         /\ child_events' = [child_events EXCEPT ![p] = pop_child_event_matching(q, req)]
         /\ reported' = reported \cup ExitTaken(q, req)
  BY DEF SysWait4, eventVars
<1> HIDE DEF req
<1>3. CASE UNCHANGED <<child_events, reported>>
  BY <1>1, <1>3 DEF XInv, ExitQueueSound, ExitIsLast, ExitsConserved, ExitQueued, UnbornClean,
                    ReportedDead, ParentsOlder
<1>4. CASE /\ has_child_event_matching(q, req)
           /\ child_events' = [child_events EXCEPT ![p] = pop_child_event_matching(q, req)]
           /\ reported' = reported \cup ExitTaken(q, req)
  <2>1. /\ \A r \in Pid : QueueOK(child_events[r], r, parent_pid, tasks)
        /\ \A d \in Pid : parent_pid[d] # 0 =>
             (HasExit(child_events[parent_pid[d]], d) <=> d \notin tasks /\ d \notin reported)
    BY QueueForm DEF XInv
  <2>2. \A r \in Pid : child_events'[r] = IF r = p THEN pop_child_event_matching(q, req)
                                          ELSE child_events[r]
    BY <1>4 DEF TypeOK, WaitType
  <2>3. /\ QueueOK(pop_child_event_matching(q, req), p, parent_pid, tasks)
        /\ \A d : HasExit(pop_child_event_matching(q, req), d)
                    <=> HasExit(q, d) /\ d \notin ExitTaken(q, req)
    BY <1>1, <1>4, <2>1, PopQueue
  <2>4. \A d \in ExitTaken(q, req) :
          HasExit(q, d) /\ parent_pid[d] = p /\ d \notin tasks
    <3> SUFFICES ASSUME NEW d \in ExitTaken(q, req)
                 PROVE  HasExit(q, d) /\ parent_pid[d] = p /\ d \notin tasks
      OBVIOUS
    <3>1. HasExit(q, d)
      BY <1>1, <1>4, TakenIsExit
    <3> QED
      BY <2>1, <3>1, ExitOfChild
  <2>5. \A d \in ExitTaken(q, req) : d \in Pid
    <3>1. \A i \in DOMAIN q : q[i] \in Event
      BY <1>1
    <3> QED
      BY <2>4, <3>1 DEF HasExit, Event
  <2>6. \A r \in Pid : QueueOK(child_events'[r], r, parent_pid, tasks)
    BY <2>1, <2>2, <2>3
  <2>7. \A d \in Pid : parent_pid[d] # 0 =>
          (HasExit(child_events'[parent_pid[d]], d) <=> d \notin tasks /\ d \notin reported')
    <3> SUFFICES ASSUME NEW d \in Pid, parent_pid[d] # 0
                 PROVE  HasExit(child_events'[parent_pid[d]], d)
                          <=> d \notin tasks /\ d \notin reported'
      OBVIOUS
    <3>1. HasExit(child_events[parent_pid[d]], d) <=> d \notin tasks /\ d \notin reported
      BY <2>1
    <3>2. parent_pid[d] \in Pid /\ (parent_pid[d] # p => d \notin ExitTaken(q, req))
      BY <1>1, <2>4
    <3>3. HasExit(child_events'[parent_pid[d]], d) <=>
            HasExit(child_events[parent_pid[d]], d) /\ d \notin ExitTaken(q, req)
      BY <2>2, <2>3, <3>2
    <3> QED
      BY <1>4, <3>1, <3>3
  <2>8. ExitQueueSound'
    BY <1>1, <2>6, <2>7
    DEF ExitQueueSound, ExitIsLast, ExitsConserved, ExitQueued, QueueOK, HasExit
  <2>9. UnbornClean' /\ ReportedDead' /\ ParentsOlder'
    BY <1>1, <1>4, <2>4, <2>5 DEF XInv, UnbornClean, ReportedDead, ParentsOlder
  <2> QED
    BY <2>8, <2>9 DEF XInv
<1> QED
  BY <1>2, <1>3, <1>4

\* At first there is no exit to lose.
LEMMA ExitsInit == Init => XInv
BY BoundsAssumption
DEF Init, XInv, ExitQueueSound, ExitIsLast, ExitsConserved, ExitQueued, UnbornClean,
    ReportedDead, ParentsOlder

\* XInv is inductive, given the types and the replies.
LEMMA ExitsInductive == TypeOK /\ RInv /\ XInv /\ [Next]_vars => XInv'
<1> SUFFICES ASSUME TypeOK, RInv, XInv, [Next]_vars PROVE XInv'
  OBVIOUS
<1>1. CASE WaitFrame
  BY <1>1 DEF WaitFrame, XInv, ExitQueueSound, ExitIsLast, ExitsConserved, ExitQueued,
              UnbornClean, ReportedDead, ParentsOlder
<1> QED
  BY <1>1, WaitStepCases, RecordsExits, ForkExits, TerminateExits, WaitExits

\* XInv is an invariant.
LEMMA ExitsInvariant == Spec => []XInv
BY RepliesInvariant, ExitsInit, ExitsInductive, PTL DEF Spec

\* The queues hold every unreported exit exactly once, in the parent's queue and
\* after the child's other events: no order of exits, stops, continues and waits
\* loses an exit or reports it twice.
THEOREM NoExitLost == Spec => []ExitQueueSound
<1>1. XInv => ExitQueueSound
  BY DEF XInv
<1> QED
  BY <1>1, ExitsInvariant, PTL

(***************************************************************************)
(* Waiters                                                                 *)
(***************************************************************************)
\* A parent that is armed for the exit of t has an event for it: the exit itself.
LEMMA ArmedIsSatisfied ==
  ASSUME TypeOK, WaitersSound, NEW t \in tasks, parent_pid[t] \in Pid,
         NEW r \in wait4_blocked[parent_pid[t]],
         matches_wait_target(t, process_group_id[t], r)
  PROVE  WaitSatisfied(t)
<1> DEFINE par == parent_pid[t]
           q == child_events[par]
           req == wait_req[par]
<1>1. wait_slot[par] # NoSlot /\ r = [target |-> req.target, pgid |-> req.pgid]
  BY DEF WaitersSound, WaitArmedIffQueued
<1>2. EventMatches(ExitEvent(t), req)
  BY <1>1 DEF EventMatches, event_kind_enabled, ExitEvent, matches_wait_target
<1>3. q \in Seq(Event) /\ par # 0
  BY DEF TypeOK, WaitType
<1>4. QueueAtExit(t) = Append(q, ExitEvent(t))
  BY DEF QueueAtExit
<1> HIDE DEF q, req, par
<1>5. /\ Len(q) + 1 \in DOMAIN Append(q, ExitEvent(t))
      /\ Append(q, ExitEvent(t))[Len(q) + 1] = ExitEvent(t)
  BY <1>3
<1>6. has_child_event_matching(QueueAtExit(t), req)
  BY <1>2, <1>4, <1>5 DEF has_child_event_matching
<1> QED
  BY <1>1, <1>3, <1>6 DEF WaitSatisfied, par, req

\* An exit answers every waiter it satisfies and every waiter it leaves without a
\* child to wait for.
LEMMA TerminateWaiters ==
  ASSUME TypeOK, WaitersSound, NEW t \in tasks, terminate_process(t)
  PROVE  WaitersSound'
<1> DEFINE par == parent_pid[t]
<1>1. /\ tasks' = tasks \ {t} /\ UNCHANGED parent_pid
      /\ parent_pid \in [Pid -> 0..MaxPid] /\ t \in Pid
  BY DEF terminate_process, remove_process, TypeOK, TaskType
<1>2. \A p \in Pid : /\ wait_slot'[p] = IF p = t \/ (p = par /\ WaitAnswered(t)) THEN NoSlot
                                        ELSE wait_slot[p]
                     /\ wait_req'[p] = IF p = t \/ (p = par /\ WaitAnswered(t)) THEN NoReq
                                       ELSE wait_req[p]
                     /\ wait4_blocked'[p] = IF p = t \/ clear_wait4_block(p, t) THEN {}
                                            ELSE wait4_blocked[p]
  BY DEF terminate_process
<1>3. par \in Pid => ~ResumesWait4(t)
  BY ArmedIsSatisfied DEF ResumesWait4, WaitAnswered
<1>4. ASSUME NEW p \in Pid
      PROVE  \/ wait_slot'[p] = NoSlot /\ wait4_blocked'[p] = {}
             \/ /\ p # t /\ (p = par => ~WaitAnswered(t))
                /\ wait_slot'[p] = wait_slot[p] /\ wait_req'[p] = wait_req[p]
                /\ wait4_blocked'[p] = wait4_blocked[p]
  BY <1>2, <1>3 DEF clear_wait4_block
<1>5. ASSUME NEW p \in Pid, wait_slot'[p] # NoSlot, p = par
      PROVE  /\ child_events'[p] = QueueAtExit(t) /\ wait_req'[p] = wait_req[p]
             /\ ~has_child_event_matching(QueueAtExit(t), wait_req[p])
             /\ has_live_child_matching(p, wait_req[p], tasks \ {t})
  <2>1. ~WaitAnswered(t) /\ wait_slot[p] # NoSlot /\ wait_req'[p] = wait_req[p] /\ par # 0
    BY <1>4, <1>5
  <2>2. ~WaitSatisfied(t)
    BY <2>1 DEF WaitAnswered
  <2>3. child_events'[p] = QueueAtExit(t)
    BY <1>5, <2>2, Zenon DEF terminate_process, record_child_exit
  <2> QED
    BY <1>5, <2>1, <2>3 DEF WaitAnswered, WaitSatisfied, WaitHopeless
<1>6. \A p \in Pid : p # par => child_events'[p] = child_events[p]
  BY DEF terminate_process, record_child_exit
<1> HIDE DEF par
<1>7. WaiterHasNoReadyExit'
  <2> SUFFICES ASSUME NEW p \in Pid, wait_slot'[p] # NoSlot, NEW i \in DOMAIN child_events'[p],
                      child_events'[p][i].kind = "Exited"
               PROVE  ~EventMatches(child_events'[p][i], wait_req'[p])
    BY DEF WaiterHasNoReadyExit
  <2>1. CASE p = par
    BY <1>5, <2>1 DEF has_child_event_matching
  <2>2. CASE p # par
    BY <1>4, <1>6, <2>2 DEF WaitersSound, WaiterHasNoReadyExit
  <2> QED
    BY <2>1, <2>2
<1>8. WaiterHasLivingChild'
  <2> SUFFICES ASSUME NEW p \in Pid, wait_slot'[p] # NoSlot
               PROVE  \E c \in tasks' : parent_pid'[c] = p
    BY DEF WaiterHasLivingChild
  <2>1. CASE p = par
    BY <1>1, <1>5, <2>1 DEF has_live_child_matching
  <2>2. CASE p # par
    <3>1. PICK c \in tasks : parent_pid[c] = p
      BY <1>4 DEF WaitersSound, WaiterHasLivingChild
    <3> QED
      BY <1>1, <2>2, <3>1 DEF par
  <2> QED
    BY <2>1, <2>2
<1>9. WaitArmedIffQueued'
  BY <1>4 DEF WaitersSound, WaitArmedIffQueued
<1> QED
  BY <1>7, <1>8, <1>9 DEF WaitersSound

\* wait4 blocks only a caller with a living child and no exit to report.
LEMMA WaitWaiters ==
  ASSUME TypeOK, RInv, WaitersSound, NEW p \in Pid, NEW target, NEW options,
         SysWait4(p, target, options)
  PROVE  WaitersSound'
<1> DEFINE req == [target |-> target, options |-> options, pgid |-> process_group_id[p]]
<1>1. UNCHANGED <<tasks, parent_pid>> /\ Received(p)
  BY DEF SysWait4, WaitUnchanged, taskVars
<1>2. wait_slot[p] = NoSlot
  BY <1>1, ReceivedFacts
<1>3. \A r \in Pid \ {p} : /\ child_events'[r] = child_events[r] /\ wait_slot'[r] = wait_slot[r]
                           /\ wait_req'[r] = wait_req[r] /\ wait4_blocked'[r] = wait4_blocked[r]
  BY DEF SysWait4, eventVars, TypeOK, WaitType
<1>4. \/ wait_slot'[p] = NoSlot /\ wait4_blocked'[p] = {}
      \/ /\ wait_req'[p] = req /\ wait_slot'[p] # NoSlot
         /\ wait4_blocked'[p] = {[target |-> target, pgid |-> process_group_id[p]]}
         /\ ~has_child_event_matching(child_events'[p], req)
         /\ has_live_child_matching(p, req, tasks)
  BY <1>2, SlotAssumption DEF SysWait4, eventVars, TypeOK, WaitType, ThreadType
<1>5. WaiterHasNoReadyExit'
  BY <1>3, <1>4 DEF WaitersSound, WaiterHasNoReadyExit, has_child_event_matching
<1>6. WaiterHasLivingChild'
  BY <1>1, <1>3, <1>4 DEF WaitersSound, WaiterHasLivingChild, has_live_child_matching
<1>7. WaitArmedIffQueued'
  <2> SUFFICES ASSUME NEW r \in Pid
               PROVE  wait4_blocked'[r] =
                        IF wait_slot'[r] = NoSlot THEN {}
                        ELSE {[target |-> wait_req'[r].target, pgid |-> wait_req'[r].pgid]}
    BY DEF WaitArmedIffQueued
  <2>1. CASE r = p
    <3>1. req.target = target /\ req.pgid = process_group_id[p]
      OBVIOUS
    <3> QED
      BY <1>4, <2>1, <3>1
  <2>2. CASE r # p
    BY <1>3, <2>2 DEF WaitersSound, WaitArmedIffQueued
  <2> QED
    BY <2>1, <2>2
<1> QED
  BY <1>5, <1>6, <1>7 DEF WaitersSound

\* WaitersSound is inductive, given the types and the replies.
LEMMA WaitersInductive == TypeOK /\ RInv /\ WaitersSound /\ [Next]_vars => WaitersSound'
<1> SUFFICES ASSUME TypeOK, RInv, WaitersSound, [Next]_vars PROVE WaitersSound'
  OBVIOUS
<1> USE DEF waitVars
<1>1. CASE WaitFrame
  BY <1>1 DEF WaitFrame, WaitersSound, WaiterHasNoReadyExit, WaiterHasLivingChild,
              WaitArmedIffQueued
<1>2. CASE RecordsChange
  <2>1. PICK c \in tasks, kind \in {"Stopped", "Continued"} : RecordChange(c, kind)
    BY <1>2 DEF RecordsChange
  <2>2. UNCHANGED <<tasks, parent_pid, wait_slot, wait_req, wait4_blocked>>
    BY <1>2 DEF RecordsChange
  <2>3. ASSUME NEW p \in Pid, NEW i \in DOMAIN child_events'[p],
               child_events'[p][i].kind = "Exited"
        PROVE  i \in DOMAIN child_events[p] /\ child_events'[p][i] = child_events[p][i]
    BY <2>1, <2>3 DEF RecordChange, TypeOK, WaitType
  <2> QED
    BY <2>2, <2>3 DEF WaitersSound, WaiterHasNoReadyExit, WaiterHasLivingChild,
                      WaitArmedIffQueued
<1>3. ASSUME NEW p \in Pid, Forks(p)
      PROVE  WaitersSound'
  <2>1. \A c \in tasks : c \in Pid /\ c # next_pid
    BY DEF TypeOK, TaskType, RInv, FreshPids
  <2>2. \A c \in tasks : c \in tasks' /\ parent_pid'[c] = parent_pid[c]
    BY <1>3, <2>1 DEF Forks, TypeOK, TaskType
  <2> QED
    BY <1>3, <2>2 DEF Forks, WaitersSound, WaiterHasNoReadyExit, WaiterHasLivingChild,
                      WaitArmedIffQueued
<1> QED
  BY <1>1, <1>2, <1>3, WaitStepCases, TerminateWaiters, WaitWaiters

\* At first nobody waits.
LEMMA WaitersInit == Init => WaitersSound
BY DEF Init, WaitersSound, WaiterHasNoReadyExit, WaiterHasLivingChild, WaitArmedIffQueued

\* Whoever sleeps in wait4 waits for something that can still happen, and the
\* fallback that resumes a parent without answering its wait4 never runs.
THEOREM NobodyWaitsInVain == Spec => []WaitersSound
BY RepliesInvariant, WaitersInit, WaitersInductive, PTL DEF Spec

(***************************************************************************)
(* Refinement of ChildWait                                                 *)
(***************************************************************************)
\* The exit that answers a waiting parent at the death of t is the death of t:
\* the parent would not wait if an older exit matched.
LEMMA TakenAtExit ==
  ASSUME TypeOK, WaitersSound, NEW t \in tasks, WaitSatisfied(t)
  PROVE  ExitTaken(QueueAtExit(t), wait_req[parent_pid[t]]) \subseteq {t}
<1> DEFINE par == parent_pid[t]
           q == child_events[par]
           req == wait_req[par]
           e == ExitEvent(t)
<1>1. par \in Pid /\ wait_slot[par] # NoSlot /\ q \in Seq(Event)
  BY DEF WaitSatisfied, TypeOK, TaskType, WaitType
<1>2. QueueAtExit(t) = Append(q, e) /\ has_child_event_matching(QueueAtExit(t), req)
  BY DEF QueueAtExit, WaitSatisfied
<1>3. e \in Event /\ e.child = t
  BY DEF TypeOK, TaskType, Event, Kinds, ExitEvent
<1>4. \A i \in DOMAIN q : q[i].kind = "Exited" => ~EventMatches(q[i], req)
  BY <1>1 DEF WaitersSound, WaiterHasNoReadyExit
<1> HIDE DEF par, q, req, e
<1>5. /\ Append(q, e) \in Seq(Event)
      /\ DOMAIN Append(q, e) = 1..(Len(q) + 1) /\ DOMAIN q = 1..Len(q) /\ Len(q) \in Nat
      /\ Append(q, e)[Len(q) + 1] = e /\ \A i \in 1..Len(q) : Append(q, e)[i] = q[i]
  BY <1>1, <1>3
<1> DEFINE k == OldestMatch(Append(q, e), req)
<1>6. k \in DOMAIN Append(q, e) /\ EventMatches(Append(q, e)[k], req)
  BY <1>2, <1>5, PopKeepsEvents
<1> HIDE DEF k
<1>7. Append(q, e)[k].kind = "Exited" => Append(q, e)[k].child = t
  <2>1. CASE k = Len(q) + 1
    BY <1>3, <1>5, <2>1
  <2>2. CASE k \in 1..Len(q)
    BY <1>4, <1>5, <1>6, <2>2
  <2> QED
    BY <1>5, <1>6, <2>1, <2>2
<1>8. ExitTaken(Append(q, e), req) \subseteq {t}
  BY <1>7 DEF ExitTaken, k
<1> QED
  BY <1>2, <1>8 DEF req, par

\* The death of a process is an Exit of ChildWait.
LEMMA ExitRefines ==
  ASSUME TypeOK, RInv, XInv, WaitersSound, WaitersSound', NEW t \in tasks, terminate_process(t)
  PROVE  CW!Exit(t)
<1> DEFINE par == parent_pid[t]
           taken == IF WaitSatisfied(t) THEN ExitTaken(QueueAtExit(t), wait_req[par]) ELSE {}
           asleep == {p \in Pid : wait_slot[p] # NoSlot}
           life == [c \in Pid |-> LifeOf(c)]
<1>1. /\ tasks' = tasks \ {t} /\ UNCHANGED <<next_pid, parent_pid>>
      /\ parent_pid \in [Pid -> 0..MaxPid] /\ t \in Pid /\ tasks \subseteq Pid
      /\ reported' = reported \cup taken
  BY DEF terminate_process, remove_process, record_child_exit, TypeOK, TaskType
<1>2. taken \subseteq {t}
  BY TakenAtExit
<1>3. \A p \in Pid : wait_slot'[p] = IF p = t \/ (p = par /\ WaitAnswered(t)) THEN NoSlot
                                     ELSE wait_slot[p]
  BY DEF terminate_process
<1>4. taken # {} => WaitAnswered(t) /\ par \in asleep
  BY <1>1 DEF WaitAnswered, WaitSatisfied
<1>5. t \notin reported /\ t < next_pid
  BY <1>1 DEF XInv, ReportedDead, RInv, FreshPids
<1> HIDE DEF taken
<1>6. life[t] = "alive"
  BY <1>1 DEF LifeOf
<1>7. life' = [life EXCEPT ![t] = IF taken = {} THEN "zombie" ELSE "reported"]
  <2>1. \A c \in Pid : c # t => LifeOf(c)' = LifeOf(c)
    BY <1>1, <1>2 DEF LifeOf
  <2>2. t \notin tasks' /\ ~(t >= next_pid') /\ (t \in reported' <=> taken # {})
    <3>1. next_pid \in Nat /\ t \in Nat
      BY <1>1 DEF TypeOK, TaskType
    <3>2. ~(t >= next_pid')
      BY <1>1, <1>5, <3>1
    <3>3. t \in reported' <=> taken # {}
      BY <1>1, <1>2, <1>5
    <3> QED
      BY <1>1, <3>2, <3>3
  <2>3. LifeOf(t)' = IF taken = {} THEN "zombie" ELSE "reported"
    BY <2>2 DEF LifeOf
  <2>4. life' = [c \in Pid |-> LifeOf(c)']
    OBVIOUS
  <2> QED
    BY <1>1, <2>1, <2>3, <2>4
<1>8. asleep' = IF WaitAnswered(t) THEN asleep \ {t, par} ELSE asleep \ {t}
  BY <1>3
<1>9. par \in asleep' => \E c \in Pid : life'[c] = "alive" /\ parent_pid'[c] = par
  <2> SUFFICES ASSUME par \in asleep'
               PROVE  \E c \in Pid : life'[c] = "alive" /\ parent_pid'[c] = par
    OBVIOUS
  <2>1. PICK c \in tasks' : parent_pid'[c] = par
    BY DEF WaitersSound, WaiterHasLivingChild
  <2>2. c \in Pid /\ life'[c] = "alive"
    BY <1>1, <2>1 DEF LifeOf
  <2> QED
    BY <2>1, <2>2
<1> HIDE DEF life, asleep
<1> QED
  BY <1>1, <1>4, <1>6, <1>7, <1>8, <1>9
  DEF CW!Exit, CW!LivingChild, CW!Process, life, asleep

\* A fork is a Birth.
LEMMA ForkRefines ==
  ASSUME TypeOK, RInv, NEW p \in Pid, Forks(p)
  PROVE  \E c \in Pid : CW!Birth(p, c)
<1> DEFINE asleep == {q \in Pid : wait_slot[q] # NoSlot}
           life == [c \in Pid |-> LifeOf(c)]
<1>1. PICK n \in Pid : n = next_pid
  BY DEF Forks, TypeOK, TaskType
<1>2. /\ tasks' = tasks \cup {n} /\ next_pid' = n + 1
      /\ parent_pid' = [parent_pid EXCEPT ![n] = p] /\ UNCHANGED <<reported, wait_slot>>
  BY <1>1 DEF Forks, waitVars
<1>3. p \in tasks /\ wait_slot[p] = NoSlot
  BY ReceivedFacts DEF Forks
<1>4. n \notin tasks
  BY <1>1 DEF RInv, FreshPids
<1>5. life[p] = "alive" /\ p \notin asleep /\ life[n] = "unborn"
  BY <1>1, <1>3, <1>4 DEF LifeOf
<1>6. life' = [life EXCEPT ![n] = "alive"]
  <2>1. \A c \in Pid : c # n => LifeOf(c)' = LifeOf(c)
    BY <1>1, <1>2 DEF LifeOf
  <2>2. LifeOf(n)' = "alive"
    BY <1>2 DEF LifeOf
  <2>3. life' = [c \in Pid |-> LifeOf(c)']
    OBVIOUS
  <2> QED
    BY <2>1, <2>2, <2>3
<1>7. asleep' = asleep
  BY <1>2
<1> HIDE DEF life, asleep
<1>8. CW!Birth(p, n)
  BY <1>2, <1>5, <1>6, <1>7 DEF CW!Birth, life, asleep
<1> QED
  BY <1>8

\* A wait4 reports the exit of a child, changes nothing, or puts a caller with a
\* living child to sleep.
LEMMA WaitRefines ==
  ASSUME TypeOK, RInv, XInv, NEW p \in Pid, NEW target, NEW options,
         SysWait4(p, target, options)
  PROVE  CW!Sleep(p) \/ UNCHANGED CW!vars \/ \E c \in Pid : CW!Report(p, c)
<1> DEFINE asleep == {q \in Pid : wait_slot[q] # NoSlot}
           life == [c \in Pid |-> LifeOf(c)]
           req == [target |-> target, options |-> options, pgid |-> process_group_id[p]]
           q == child_events[p]
           taken == ExitTaken(q, req)
<1>1. /\ UNCHANGED <<tasks, next_pid, parent_pid>> /\ Received(p)
      /\ parent_pid \in [Pid -> 0..MaxPid] /\ next_pid \in Nat /\ q \in Seq(Event)
  BY DEF SysWait4, WaitUnchanged, taskVars, TypeOK, TaskType, WaitType
<1>2. p \in tasks /\ wait_slot[p] = NoSlot
  BY <1>1, ReceivedFacts
<1>3. life[p] = "alive" /\ p \notin asleep
  BY <1>2 DEF LifeOf
<1>4. \/ UNCHANGED <<reported, wait_slot>>
      \/ /\ has_child_event_matching(q, req) /\ UNCHANGED wait_slot
         /\ reported' = reported \cup taken
      \/ /\ has_live_child_matching(p, req, tasks) /\ UNCHANGED reported
         /\ \E s \in free_slots : wait_slot' = [wait_slot EXCEPT ![p] = s]
  BY DEF SysWait4, eventVars
<1>5. reported' = reported => life' = life
  BY <1>1 DEF LifeOf
<1>6. wait_slot' = wait_slot => asleep' = asleep
  OBVIOUS
<1>7. CASE UNCHANGED <<reported, wait_slot>>
  BY <1>1, <1>5, <1>6, <1>7 DEF CW!vars
<1>8. CASE /\ has_child_event_matching(q, req) /\ UNCHANGED wait_slot
           /\ reported' = reported \cup taken
  <2>1. taken = {} \/ \E c : taken = {c}
    BY DEF ExitTaken
  <2>2. CASE taken = {}
    BY <1>1, <1>5, <1>6, <1>8, <2>2 DEF CW!vars
  <2>3. ASSUME NEW c, taken = {c}
        PROVE  c \in Pid /\ CW!Report(p, c)
    <3> HIDE DEF req
    <3>1. HasExit(q, c)
      BY <1>1, <1>8, <2>3, TakenIsExit
    <3>2. c \in Pid
      <4>1. \A i \in DOMAIN q : q[i] \in Event
        BY <1>1
      <4> QED
        BY <3>1, <4>1 DEF HasExit, Event
    <3>3. /\ \A r \in Pid : QueueOK(child_events[r], r, parent_pid, tasks)
          /\ \A d \in Pid : parent_pid[d] # 0 =>
               (HasExit(child_events[parent_pid[d]], d) <=> d \notin tasks /\ d \notin reported)
      BY QueueForm DEF XInv
    <3>4. parent_pid[c] = p /\ c \notin tasks
      BY <3>1, <3>3, ExitOfChild
    <3>5. c \notin reported /\ c < next_pid
      <4>1. p # 0
        OBVIOUS
      <4>2. c \notin reported
        BY <3>1, <3>2, <3>3, <3>4, <4>1
      <4> QED
        BY <1>1, <3>2, <3>4, <4>1, <4>2 DEF XInv, UnbornClean
    <3>6. life[c] = "zombie"
      <4>1. ~(c >= next_pid)
        BY <1>1, <3>2, <3>5
      <4> QED
        BY <3>2, <3>4, <3>5, <4>1 DEF LifeOf
    <3>7. life' = [life EXCEPT ![c] = "reported"]
      <4>1. \A d \in Pid : d # c => LifeOf(d)' = LifeOf(d)
        BY <1>1, <1>8, <2>3 DEF LifeOf
      <4>2. c \notin tasks' /\ ~(c >= next_pid') /\ c \in reported'
        BY <1>1, <1>8, <2>3, <3>2, <3>4, <3>5
      <4>3. LifeOf(c)' = "reported"
        BY <4>2 DEF LifeOf
      <4>4. life' = [d \in Pid |-> LifeOf(d)']
        OBVIOUS
      <4> QED
        BY <3>2, <4>1, <4>3, <4>4
    <3> HIDE DEF life, asleep
    <3> QED
      BY <1>1, <1>3, <1>6, <1>8, <3>2, <3>4, <3>6, <3>7 DEF CW!Report, life, asleep
  <2> QED
    BY <2>1, <2>2, <2>3
<1>9. CASE /\ has_live_child_matching(p, req, tasks) /\ UNCHANGED reported
           /\ \E s \in free_slots : wait_slot' = [wait_slot EXCEPT ![p] = s]
  <2>1. asleep' = asleep \cup {p}
    BY <1>9, SlotAssumption DEF TypeOK, WaitType, ThreadType
  <2>2. \E c \in Pid : life[c] = "alive" /\ parent_pid[c] = p
    BY <1>9 DEF has_live_child_matching, LifeOf, TypeOK, TaskType
  <2> HIDE DEF life, asleep
  <2>3. CW!Sleep(p)
    BY <1>1, <1>3, <1>5, <1>9, <2>1, <2>2
    DEF CW!Sleep, CW!LivingChild, CW!Process, life, asleep
  <2> QED
    BY <2>3
<1> QED
  BY <1>4, <1>7, <1>8, <1>9

\* The first state of APE maps to the first state of ChildWait.
LEMMA RefinesInit == Init => CW!Init
<1> SUFFICES ASSUME Init PROVE CW!Init
  OBVIOUS
<1>1. \A c \in Pid : LifeOf(c) = IF c = 1 THEN "alive" ELSE "unborn"
  BY BoundsAssumption DEF Init, LifeOf
<1> QED
  BY <1>1 DEF Init, CW!Init, CW!Process

\* Every step of APE maps to a step of ChildWait or to a stutter.
LEMMA RefinesStep ==
  ASSUME TypeOK, RInv, XInv, WaitersSound, WaitersSound', [Next]_vars
  PROVE  [CW!Next]_(CW!vars)
<1>1. CASE WaitFrame \/ RecordsChange
  BY <1>1 DEF WaitFrame, RecordsChange, waitVars, LifeOf, CW!vars
<1>2. ASSUME NEW p \in Pid, Forks(p)
      PROVE  CW!Next
  BY <1>2, ForkRefines DEF CW!Next, CW!Process
<1>3. ASSUME NEW t \in tasks, terminate_process(t)
      PROVE  CW!Next
  BY <1>3, ExitRefines DEF CW!Next, CW!Process, TypeOK, TaskType
<1>4. ASSUME NEW p \in Pid, NEW target, NEW options, SysWait4(p, target, options)
      PROVE  [CW!Next]_(CW!vars)
  BY <1>4, WaitRefines DEF CW!Next, CW!Process
<1> QED
  BY <1>1, <1>2, <1>3, <1>4, WaitStepCases

\* Queues, deferred replies, signals and reboot together implement ChildWait:
\* every process is born and exits once, its exit is reported at most once and
\* to its parent, and a sleeping parent always has a living child.
THEOREM WaitRefinesChildWait == Spec => ImplementsChildWait
<1>1. TypeOK /\ RInv /\ XInv /\ WaitersSound /\ WaitersSound' /\ [Next]_vars
        => [CW!Next]_(CW!vars)
  BY RefinesStep
<1> QED
  BY <1>1, RefinesInit, RepliesInvariant, ExitsInvariant, NobodyWaitsInVain, PTL
  DEF Spec, ImplementsChildWait, CW!Spec

=============================================================================
