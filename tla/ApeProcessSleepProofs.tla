----------------------- MODULE ApeProcessSleepProofs -----------------------
(***************************************************************************)
(* nanosleep and the signals that interrupt it: a completion is never      *)
(* forgotten, a sleep keeps its timer and ends only for cause, and no      *)
(* signal is lost on a thread that waits for one.                          *)
(***************************************************************************)
EXTENDS ApeProcessReplyProofs

USE DEF Pid

(***************************************************************************)
(* What a step may do to a pending nanosleep                               *)
(***************************************************************************)
\* No sleep begins or changes its request, one that ends does so with its
\* process or for a deliverable signal, and the async runtime is left alone.
SleepKept ==
  /\ \A p \in Pid : sleep_slot'[p] # NoSlot =>
       sleep_slot'[p] = sleep_slot[p] /\ sleep_req'[p] = sleep_req[p]
  /\ \A p \in Pid : sleep_slot[p] # NoSlot /\ sleep_slot'[p] = NoSlot =>
       p \notin tasks' \/ signal_pending'[p] \ signal_blocked[p] # {}
  /\ UNCHANGED poolVars
  /\ phase' = phase \/ phase \notin {"drain", "halted"}

\* A termination ends the sleep of the dead process and, when SIGCHLD is
\* deliverable to it, that of its parent.
LEMMA TerminateSleep ==
  ASSUME TypeOK, NEW t \in tasks, terminate_process(t), phase \notin {"drain", "halted"}
  PROVE  SleepKept
<1>1. t \in Pid
  BY DEF TypeOK, TaskType
<1>2. /\ \A p \in Pid : sleep_slot'[p] = IF p = t \/ SigchldInterrupts(p, t)
                                         THEN NoSlot ELSE sleep_slot[p]
      /\ \A p \in Pid : sleep_req'[p] = IF p = t \/ SigchldInterrupts(p, t)
                                        THEN 0 ELSE sleep_req[p]
      /\ \A p \in Pid : signal_pending'[p] = IF p = t THEN {} ELSE PendingAtExit(p, t)
      /\ tasks' = tasks \ {t} /\ UNCHANGED poolVars
  BY DEF terminate_process, remove_process
<1>3. \A p \in Pid : SigchldInterrupts(p, t) => PendingAtExit(p, t) \ signal_blocked[p] # {}
  BY DEF SigchldInterrupts, Delivers
<1> QED
  BY <1>1, <1>2, <1>3 DEF SleepKept

\* A signal queued on process t ends its sleep only when it is deliverable.
LEMMA QueueSignalSleep ==
  ASSUME TypeOK, NEW t \in Pid, NEW pend, queue_process_signal(t, pend), UNCHANGED poolVars,
         phase = "kill"
  PROVE  SleepKept
<1> DEFINE S == IF Delivers(t, pend) THEN {sleep_slot[t]} \ {NoSlot} ELSE {}
<1>1. /\ sleep_slot' = IF S = {} THEN sleep_slot ELSE [sleep_slot EXCEPT ![t] = NoSlot]
      /\ sleep_req' = IF S = {} THEN sleep_req ELSE [sleep_req EXCEPT ![t] = 0]
      /\ signal_pending' = [signal_pending EXCEPT ![t] = pend]
  BY DEF queue_process_signal, interrupt_pending_sleep_reply, Slots
<1>2. CASE S = {}
  BY <1>1, <1>2 DEF SleepKept
<1>3. CASE S # {}
  <2>1. pend \ signal_blocked[t] # {}
    BY <1>3 DEF Delivers
  <2>2. signal_pending'[t] = pend
    BY <1>1 DEF TypeOK, SignalType
  <2>3. \A p \in Pid : p # t => sleep_slot'[p] = sleep_slot[p] /\ sleep_req'[p] = sleep_req[p]
    BY <1>1, <1>3 DEF TypeOK, SleepType
  <2>4. sleep_slot'[t] = NoSlot
    BY <1>1, <1>3 DEF TypeOK, SleepType
  <2> QED
    BY <2>1, <2>2, <2>3, <2>4 DEF SleepKept
<1> QED
  BY <1>2, <1>3

\* Every step but nanosleep's and those of the async runtime leaves the pending
\* sleeps so.
LEMMA StepKeepsSleep ==
  ASSUME TypeOK,
         \/ \E p \in Pid : Call(p) \/ (Syscall(p) /\ ~SysNanosleep(p))
         \/ \E t \in Pid : KillStep(t)
         \/ RebootStep \/ Return \/ UNCHANGED vars
  PROVE  SleepKept
<1> USE DEF sleepVars, dispVars, poolVars
<1>1. ASSUME UNCHANGED <<sleepVars, poolVars>>, phase' = phase \/ phase \notin {"drain", "halted"}
      PROVE  SleepKept
  BY <1>1 DEF SleepKept
<1>2. ASSUME NEW p \in Pid, Call(p)
      PROVE  SleepKept
  BY <1>1, <1>2 DEF Call
<1>3. ASSUME NEW p \in Pid, Syscall(p), ~SysNanosleep(p)
      PROVE  SleepKept
  <2>1. phase = "recv" /\ p \in tasks
    BY <1>3 DEF Syscall, Received, SysExit, OtherSyscall, PageFaultResolved, FaultUnanswered,
           SysSetsid, SysSigreturn, SysReboot, SysPowerOff, SysFork, SysWait4, SysSetpgid,
           SysKill, SysSigaction, SysSigprocmask, SysSigtimedwait, SysSigsuspend
  <2>2. CASE SysExit(p)
    BY <2>1, <2>2, TerminateSleep DEF SysExit
  <2>3. CASE ~SysExit(p)
    <3>1. UNCHANGED <<sleepVars, poolVars>>
      BY <1>3, <2>3
      DEF Syscall, OtherSyscall, PageFaultResolved, FaultUnanswered, SysSetsid,
          SysSigreturn, SysReboot, SysPowerOff, SysFork, SysWait4, SysSetpgid, SysKill,
          SysSigaction, SysSigprocmask, SysSigtimedwait, SysSigsuspend, LoopUnchanged,
          GroupUnchanged, SigUnchanged, WaitUnchanged
    <3> QED
      BY <2>1, <3>1, <1>1
  <2> QED
    BY <2>2, <2>3
<1>4. ASSUME NEW t \in Pid, KillStep(t)
      PROVE  SleepKept
  <2>1. CASE KillTerminate(t)
    <3>1. phase = "kill" /\ t \in tasks /\ terminate_process(t)
      BY <2>1 DEF KillTerminate, NextTarget, TypeOK, DispatcherType
    <3> QED
      BY <3>1, TerminateSleep
  <2>2. CASE KillContinue(t) \/ KillStop(t) \/ KillOther(t)
    <3>1. phase = "kill" /\ (\E pend : queue_process_signal(t, pend)) /\ KillUnchanged
      BY <2>2 DEF KillContinue, KillStop, KillOther
    <3> QED
      BY <3>1, QueueSignalSleep DEF KillUnchanged
  <2> QED
    BY <1>4, <2>1, <2>2 DEF KillStep
<1>5. CASE RebootStep
  <2>1. ASSUME NEW t \in Pid, RebootTerminate(t)
        PROVE  SleepKept
    <3>1. phase = "reboot" /\ t \in tasks /\ terminate_process(t)
      BY <2>1 DEF RebootTerminate, NextTarget, TypeOK, DispatcherType
    <3> QED
      BY <3>1, TerminateSleep
  <2>2. ASSUME NEW ok \in BOOLEAN, RebootExec(ok)
        PROVE  SleepKept
    BY <2>2, <1>1 DEF RebootExec
  <2> QED
    BY <1>5, <2>1, <2>2 DEF RebootStep
<1>6. CASE Return
  <2>1. phase = "return"
    BY <1>6 DEF Return, ReturnPlain, ReturnHandled, ReturnStopped, ReturnContinued,
                ReturnKilled, Consumes
  <2>2. ASSUME NEW s \in Signal, ReturnKilled(s)
        PROVE  SleepKept
    BY <2>1, <2>2, TerminateSleep DEF ReturnKilled, Consumes
  <2>3. CASE ReturnUnchanged
    BY <2>1, <2>3, <1>1 DEF ReturnUnchanged
  <2> QED
    BY <1>6, <2>2, <2>3 DEF Return, ReturnPlain, ReturnHandled, ReturnStopped, ReturnContinued
<1>7. CASE UNCHANGED vars
  BY <1>7, <1>1 DEF vars
<1> QED
  BY <1>2, <1>3, <1>4, <1>5, <1>6, <1>7

\* The steps of a run, as the proofs below take them apart.
LEMMA StepCases ==
  ASSUME TypeOK, [Next]_vars
  PROVE  \/ SleepKept
         \/ \E p \in Pid : SysNanosleep(p)
         \/ WorkerTake \/ WorkerSend \/ WorkerNotify
         \/ DrainStart \/ DrainEvent \/ DrainDone
BY StepKeepsSleep DEF Next, Handler, Worker

(***************************************************************************)
(* Completions                                                             *)
(***************************************************************************)
\* Every step keeps a completion in the channel known to someone who will act.
LEMMA NotifiedInductive == TypeOK /\ CompletionNotified /\ [Next]_vars => CompletionNotified'
<1> SUFFICES ASSUME TypeOK, CompletionNotified, [Next]_vars PROVE CompletionNotified'
  OBVIOUS
<1> USE DEF CompletionNotified
<1>1. CASE SleepKept
  BY <1>1 DEF SleepKept, poolVars
<1>2. ASSUME NEW p \in Pid, SysNanosleep(p)
      PROVE  CompletionNotified'
  BY <1>2 DEF SysNanosleep, Deferred, dispVars
<1>3. CASE WorkerTake
  BY <1>3 DEF WorkerTake, dispVars
<1>4. CASE WorkerSend
  <2>1. worker'.state = "notify"
    BY <1>4 DEF WorkerSend, TypeOK, SleepType
  <2> QED
    BY <2>1
<1>5. CASE WorkerNotify
  BY <1>5, Zenon DEF WorkerNotify
<1>6. CASE DrainStart \/ DrainEvent \/ DrainDone
  BY <1>6 DEF DrainStart, DrainEvent, DrainDone, dispVars
<1> QED
  BY <1>1, <1>2, <1>3, <1>4, <1>5, <1>6, StepCases

\* A completion in the channel is never forgotten: in every reachable state the
\* dispatcher drains the channel, or is notified, or is about to be.
THEOREM NoCompletionForgotten == Spec => []CompletionNotified
<1>1. Init => CompletionNotified
  BY DEF Init, CompletionNotified
<1> QED
  BY <1>1, TypeCorrect, NotifiedInductive, PTL DEF Spec

(***************************************************************************)
(* Timers                                                                  *)
(***************************************************************************)
\* The job of p's pending sleep, and the places it can be in.
JobOf(p) == [pid |-> p, id |-> sleep_req[p]]
InFlight(job) ==
  \/ job.id \in refused
  \/ \E i \in DOMAIN executor : executor[i] = job
  \/ worker.state = "sleep" /\ worker.job = job
  \/ \E i \in DOMAIN channel : channel[i] = job

\* What is in a queue stays there when a job is added at its end.
LEMMA AppendKeeps ==
  ASSUME NEW q \in Seq(SleepJob), NEW e \in SleepJob
  PROVE  /\ \A i \in DOMAIN q : \E j \in DOMAIN Append(q, e) : Append(q, e)[j] = q[i]
         /\ \E j \in DOMAIN Append(q, e) : Append(q, e)[j] = e
<1>1. ASSUME NEW i \in DOMAIN q
      PROVE  \E j \in DOMAIN Append(q, e) : Append(q, e)[j] = q[i]
  <2>1. i \in DOMAIN Append(q, e) /\ Append(q, e)[i] = q[i]
    OBVIOUS
  <2> QED
    BY <2>1
<1>2. Len(q) + 1 \in DOMAIN Append(q, e) /\ Append(q, e)[Len(q) + 1] = e
  OBVIOUS
<1> QED
  BY <1>1, <1>2

\* Taking the front of a queue leaves everything else in it.
LEMMA TailKeeps ==
  ASSUME NEW q \in Seq(SleepJob), q # <<>>
  PROVE  /\ Head(q) \in SleepJob
         /\ \A i \in DOMAIN q : q[i] = Head(q) \/ \E j \in DOMAIN Tail(q) : Tail(q)[j] = q[i]
<1>1. ASSUME NEW i \in DOMAIN q, i # 1
      PROVE  \E j \in DOMAIN Tail(q) : Tail(q)[j] = q[i]
  <2>1. i - 1 \in DOMAIN Tail(q) /\ Tail(q)[i - 1] = q[i]
    BY <1>1
  <2> QED
    BY <2>1
<1>2. q[1] = Head(q) /\ Head(q) \in SleepJob
  OBVIOUS
<1> QED
  BY <1>1, <1>2

\* A pending sleep is answered when its own completion is drained, so what is
\* left pending still has its timer under way.
LEMMA InFlightInductive == TypeOK /\ SleepJobInFlight /\ [Next]_vars => SleepJobInFlight'
<1> SUFFICES ASSUME TypeOK, SleepJobInFlight, [Next]_vars,
                    NEW p \in Pid, sleep_slot'[p] # NoSlot
             PROVE  InFlight(JobOf(p))'
  BY DEF SleepJobInFlight, InFlight, JobOf
<1> USE DEF poolVars, sleepVars
<1>t. /\ sleep_slot \in [Pid -> Slot \cup {NoSlot}] /\ sleep_req \in [Pid -> 0..MaxReq]
      /\ executor \in Seq(SleepJob) /\ channel \in Seq(SleepJob)
      /\ worker.state # "idle" => worker.job \in SleepJob
      /\ next_request_id \in 1..(MaxReq + 1)
  BY DEF TypeOK, SleepType
<1>1. sleep_slot[p] # NoSlot => InFlight(JobOf(p))
  BY DEF SleepJobInFlight, InFlight, JobOf
<1>2. CASE SleepKept
  BY <1>1, <1>2 DEF SleepKept, InFlight, JobOf
<1>3. ASSUME NEW q \in Pid, SysNanosleep(q)
      PROVE  InFlight(JobOf(p))'
  <2> DEFINE job == [pid |-> q, id |-> next_request_id]
  <2>1. /\ \E s \in free_slots : sleep_slot' = [sleep_slot EXCEPT ![q] = s]
        /\ sleep_req' = [sleep_req EXCEPT ![q] = next_request_id]
        /\ UNCHANGED <<worker, channel>> /\ next_request_id <= MaxReq
    BY <1>3 DEF SysNanosleep
  <2>2. \/ executor' = Append(executor, job) /\ refused' = refused
        \/ refused' = refused \cup {next_request_id} /\ executor' = executor
    BY <1>3 DEF SysNanosleep
  <2>3. job \in SleepJob /\ job.id = next_request_id
    BY <1>t, <2>1, BoundsAssumption DEF SleepJob
  <2> HIDE DEF job
  <2>4. /\ job.id \in refused' \/ \E i \in DOMAIN executor' : executor'[i] = job
        /\ \A i \in DOMAIN executor : \E j \in DOMAIN executor' : executor'[j] = executor[i]
        /\ refused \subseteq refused'
    <3>1. CASE executor' = Append(executor, job) /\ refused' = refused
      <4>1. /\ \A i \in DOMAIN executor : \E j \in DOMAIN Append(executor, job) :
                 Append(executor, job)[j] = executor[i]
            /\ \E j \in DOMAIN Append(executor, job) : Append(executor, job)[j] = job
        BY <1>t, <2>3, AppendKeeps, Zenon
      <4> QED
        BY <3>1, <4>1, Zenon
    <3>2. CASE refused' = refused \cup {next_request_id} /\ executor' = executor
      BY <2>3, <3>2
    <3> QED
      BY <2>2, <3>1, <3>2
  <2>5. CASE p = q
    <3>1. JobOf(p)' = job
      BY <1>t, <2>1, <2>5 DEF JobOf, job
    <3> QED
      BY <2>4, <3>1 DEF InFlight
  <2>6. CASE p # q
    <3>1. sleep_slot[p] # NoSlot /\ JobOf(p)' = JobOf(p)
      BY <1>t, <2>1, <2>6 DEF JobOf
    <3> QED
      BY <1>1, <2>1, <2>4, <3>1 DEF InFlight
  <2> QED
    BY <2>5, <2>6
<1>4. CASE WorkerTake
  <2>1. /\ executor # <<>> /\ executor' = Tail(executor)
        /\ worker' = [state |-> "sleep", job |-> Head(executor)]
        /\ worker.state # "sleep"
        /\ UNCHANGED <<sleep_slot, sleep_req, channel, refused>>
    BY <1>4 DEF WorkerTake, AsyncUnchanged
  <2>2. \A i \in DOMAIN executor :
          executor[i] = Head(executor) \/ \E j \in DOMAIN executor' : executor'[j] = executor[i]
    BY <1>t, <2>1, TailKeeps
  <2>3. worker'.state = "sleep" /\ worker'.job = Head(executor)
    BY <2>1
  <2> QED
    BY <1>1, <2>1, <2>2, <2>3 DEF InFlight, JobOf
<1>5. CASE WorkerSend
  <2>1. /\ channel' = Append(channel, worker.job)
        /\ UNCHANGED <<sleep_slot, sleep_req, executor, refused>> /\ worker.job \in SleepJob
    BY <1>t, <1>5 DEF WorkerSend, AsyncUnchanged
  <2>2. /\ \A i \in DOMAIN channel : \E j \in DOMAIN channel' : channel'[j] = channel[i]
        /\ \E j \in DOMAIN channel' : channel'[j] = worker.job
    BY <1>t, <2>1, AppendKeeps
  <2> QED
    BY <1>1, <2>1, <2>2 DEF InFlight, JobOf
<1>6. CASE WorkerNotify
  BY <1>1, <1>6 DEF WorkerNotify, AsyncUnchanged, InFlight, JobOf
<1>7. CASE DrainStart \/ DrainDone
  BY <1>1, <1>7 DEF DrainStart, DrainDone, AsyncUnchanged, InFlight, JobOf
<1>8. CASE DrainEvent
  <2> DEFINE job == Head(channel)
             S == IF Completes(job) THEN {sleep_slot[job.pid]} ELSE {}
  <2>1. /\ channel # <<>> /\ channel' = Tail(channel)
        /\ sleep_slot' = IF S = {} THEN sleep_slot
                         ELSE [sleep_slot EXCEPT ![job.pid] = NoSlot]
        /\ sleep_req' = IF S = {} THEN sleep_req ELSE [sleep_req EXCEPT ![job.pid] = 0]
        /\ UNCHANGED <<executor, worker, refused>>
    BY <1>8 DEF DrainEvent, AsyncUnchanged
  <2>2. /\ job \in SleepJob
        /\ \A i \in DOMAIN channel :
             channel[i] = job \/ \E j \in DOMAIN channel' : channel'[j] = channel[i]
    BY <1>t, <2>1, TailKeeps
  <2>3. job.pid \in Pid
    BY <2>2 DEF SleepJob
  <2>4. Completes(job) => p # job.pid
    BY <1>t, <2>1, <2>3
  <2>5. sleep_slot[p] # NoSlot /\ sleep_req'[p] = sleep_req[p]
    BY <1>t, <2>1, <2>3, <2>4
  <2>6. JobOf(p) # job
    BY <2>4, <2>5 DEF Completes, JobOf
  <2> HIDE DEF job, S
  <2> QED
    BY <1>1, <2>1, <2>2, <2>5, <2>6 DEF InFlight, JobOf
<1> QED
  BY <1>2, <1>3, <1>4, <1>5, <1>6, <1>7, <1>8, StepCases

\* A pending nanosleep always has its timer in the executor, in the worker or
\* in the completion channel, unless the executor refused the job.
THEOREM SleepKeepsTimer == Spec => []SleepJobInFlight
<1>1. Init => SleepJobInFlight
  BY DEF Init, SleepJobInFlight
<1> QED
  BY <1>1, TypeCorrect, InFlightInductive, PTL DEF Spec

\* A nanosleep ends only with its process, for a deliverable signal, or by the
\* completion of its own request, however late completions and signals race.
THEOREM SleepCause == Spec => SleepEndsForCause
<1> DEFINE Cause == \A p \in Pid : sleep_slot[p] # NoSlot /\ sleep_slot'[p] = NoSlot =>
                      \/ p \notin tasks'
                      \/ signal_pending'[p] \ signal_blocked[p] # {}
                      \/ channel # <<>> /\ Head(channel) = [pid |-> p, id |-> sleep_req[p]]
<1>1. TypeOK /\ [Next]_vars => [Cause]_vars
  <2> SUFFICES ASSUME TypeOK, [Next]_vars PROVE Cause
    OBVIOUS
  <2> USE DEF TypeOK, SleepType, sleepVars
  <2>1. CASE SleepKept
    BY <2>1 DEF SleepKept
  <2>2. ASSUME NEW p \in Pid, SysNanosleep(p)
        PROVE  Cause
    BY <2>2, SlotAssumption DEF SysNanosleep, ThreadType
  <2>3. CASE WorkerTake \/ WorkerSend \/ WorkerNotify \/ DrainStart \/ DrainDone
    BY <2>3 DEF WorkerTake, WorkerSend, WorkerNotify, DrainStart, DrainDone
  <2>4. CASE DrainEvent
    <3> DEFINE job == Head(channel)
    <3>1. job \in SleepJob /\ channel # <<>>
      BY <2>4 DEF DrainEvent
    <3>2. job.pid \in Pid /\ job = [pid |-> job.pid, id |-> job.id]
      BY <3>1 DEF SleepJob
    <3>3. \/ sleep_slot' = sleep_slot
          \/ Completes(job) /\ sleep_slot' = [sleep_slot EXCEPT ![job.pid] = NoSlot]
      BY <2>4 DEF DrainEvent
    <3> QED
      BY <3>1, <3>2, <3>3 DEF Completes
  <2> QED
    BY <2>1, <2>2, <2>3, <2>4, StepCases
<1> QED
  BY <1>1, TypeCorrect, PTL DEF Spec, SleepEndsForCause

(***************************************************************************)
(* Signals                                                                 *)
(***************************************************************************)
\* A thread in the sigsuspend wait has no call queued, so that nothing but a
\* signal changes its mask or ends the wait.
WaitsSilently == \A p \in Pid : InSigsuspendWait(p) => ipc[p] # "queued"

\* A dead process has left sigsuspend.
SuspendersAlive == in_sigsuspend \subseteq tasks

NInv == NoDeliverableWhileBlocked /\ WaitsSilently /\ SuspendersAlive

\* Nothing deliverable is pending on p while it waits for a signal or a timer.
Quiet(p) ==
  /\ sleep_slot[p] # NoSlot \/ InSigsuspendWait(p) => Deliverable(p) = {}
  /\ InSigsuspendWait(p) => ipc[p] # "queued"

\* NInv says so of every process.
LEMMA NInvPointwise == NInv <=> (\A p \in Pid : Quiet(p)) /\ SuspendersAlive
BY DEF NInv, NoDeliverableWhileBlocked, WaitsSilently, Quiet

\* A step that starts no wait of p, queues no signal on it and leaves its mask.
LEMMA QuietKept ==
  ASSUME NEW p \in Pid, Quiet(p),
         sleep_slot'[p] # NoSlot => sleep_slot[p] # NoSlot,
         InSigsuspendWait(p)' => InSigsuspendWait(p),
         signal_pending'[p] \subseteq signal_pending[p],
         signal_blocked'[p] = signal_blocked[p],
         ipc'[p] = "queued" => ipc[p] = "queued"
  PROVE  Quiet(p)'
BY DEF Quiet, Deliverable

\* A process that waits for nothing has nothing to lose.
LEMMA QuietAwake ==
  ASSUME NEW p \in Pid, sleep_slot'[p] = NoSlot, ~InSigsuspendWait(p)'
  PROVE  Quiet(p)'
BY DEF Quiet

\* A termination: SIGCHLD wakes the parent at the moment it becomes deliverable.
LEMMA TerminateQuiet ==
  ASSUME TypeOK, NInv, NEW t \in tasks, terminate_process(t)
  PROVE  NInv'
<1>1. t \in Pid
  BY DEF TypeOK, TaskType
<1>2. /\ \A p \in Pid : sleep_slot'[p] = IF p = t \/ SigchldInterrupts(p, t)
                                         THEN NoSlot ELSE sleep_slot[p]
      /\ \A p \in Pid : signal_pending'[p] = IF p = t THEN {} ELSE PendingAtExit(p, t)
      /\ \A p \in Pid : p # t /\ ~SigchldEndsSigsuspend(p, t) =>
                           signal_blocked'[p] = signal_blocked[p]
      /\ in_sigsuspend' = {p \in in_sigsuspend : p # t /\ ~SigchldEndsSigsuspend(p, t)}
      /\ suspended' \subseteq suspended /\ stopped' = stopped \ {t}
      /\ tasks' = tasks \ {t}
      /\ \A p \in Pid : ipc'[p] \in {"none", "user", ipc[p]}
  BY DEF terminate_process, remove_process
<1>3. SuspendersAlive'
  BY <1>2 DEF NInv, SuspendersAlive
<1>4. ASSUME NEW p \in Pid
      PROVE  Quiet(p)'
  <2>0. Quiet(p)
    BY NInvPointwise
  <2>1. CASE p = t
    <3>1. sleep_slot'[p] = NoSlot /\ p \notin in_sigsuspend'
      BY <1>2, <2>1
    <3> QED
      BY <3>1, QuietAwake DEF InSigsuspendWait
  <2>2. CASE p # t /\ SigchldInterrupts(p, t)
    <3>1. sleep_slot'[p] = NoSlot /\ p \notin in_sigsuspend'
      BY <1>2, <2>2 DEF SigchldEndsSigsuspend
    <3> QED
      BY <3>1, QuietAwake DEF InSigsuspendWait
  <2>3. CASE p # t /\ ~SigchldInterrupts(p, t)
    <3>1. /\ sleep_slot'[p] = sleep_slot[p] /\ signal_blocked'[p] = signal_blocked[p]
          /\ signal_pending'[p] = PendingAtExit(p, t)
      BY <1>2, <2>3 DEF SigchldEndsSigsuspend
    <3>2. InSigsuspendWait(p)' => InSigsuspendWait(p)
      BY <1>2, <2>3 DEF InSigsuspendWait
    <3>3. ipc'[p] = "queued" => ipc[p] = "queued"
      BY <1>2
    <3>4. CASE GetsSigchld(p, t)
      <4>1. signal_pending'[p] \ signal_blocked'[p] = {}
        BY <2>3, <3>1, <3>4 DEF SigchldInterrupts, Delivers
      <4> QED
        BY <2>0, <3>2, <3>3, <4>1 DEF Quiet, Deliverable
    <3>5. CASE ~GetsSigchld(p, t)
      <4>1. signal_pending'[p] = signal_pending[p]
        BY <3>1, <3>5 DEF PendingAtExit
      <4> QED
        BY <2>0, <3>1, <3>2, <3>3, <4>1, QuietKept
    <3> QED
      BY <3>4, <3>5
  <2> QED
    BY <2>1, <2>2, <2>3
<1> QED
  BY <1>3, <1>4 DEF NInv, NoDeliverableWhileBlocked, WaitsSilently, Quiet

\* A signal queued by kill: deliverable, it ends the wait; blocked, it pends.
LEMMA QueueSignalQuiet ==
  ASSUME TypeOK, NInv, NEW t \in Pid, NEW pend \in SUBSET Signal, queue_process_signal(t, pend),
         UNCHANGED tasks,
         \A p \in Pid \ {t} : /\ p \in suspended' <=> p \in suspended
                              /\ p \in stopped' <=> p \in stopped,
         t \in suspended' /\ t \notin stopped' => t \in suspended /\ t \notin stopped
  PROVE  NInv'
<1> DEFINE S == IF Delivers(t, pend) THEN {sleep_slot[t]} \ {NoSlot} ELSE {}
           ends == EndsSigsuspend(t, pend)
<1>1. /\ sleep_slot' = IF S = {} THEN sleep_slot ELSE [sleep_slot EXCEPT ![t] = NoSlot]
      /\ signal_pending' = [signal_pending EXCEPT ![t] = pend]
      /\ in_sigsuspend' = IF ends THEN in_sigsuspend \ {t} ELSE in_sigsuspend
      /\ signal_blocked' = IF ends /\ t \in in_sigsuspend
                           THEN [signal_blocked EXCEPT ![t] = saved_mask[t] \ UnblockableMask]
                           ELSE signal_blocked
      /\ \A p \in Pid : ipc'[p] \in {"user", ipc[p]}
  BY DEF queue_process_signal, interrupt_pending_sleep_reply, Slots,
         restore_mask_from_sigsuspend_wait
<1>2. SuspendersAlive'
  BY <1>1 DEF NInv, SuspendersAlive
<1>3. ASSUME NEW p \in Pid, p # t
      PROVE  Quiet(p)'
  <2>0. Quiet(p)
    BY NInvPointwise
  <2>1. /\ sleep_slot'[p] = sleep_slot[p] /\ signal_pending'[p] = signal_pending[p]
        /\ signal_blocked'[p] = signal_blocked[p]
    BY <1>1, <1>3 DEF TypeOK, SleepType, SignalType
  <2>2. InSigsuspendWait(p)' => InSigsuspendWait(p)
    BY <1>1, <1>3 DEF InSigsuspendWait
  <2>3. ipc'[p] = "queued" => ipc[p] = "queued"
    BY <1>1
  <2> QED
    BY <2>0, <2>1, <2>2, <2>3, QuietKept
<1>4. Quiet(t)'
  <2>0. Quiet(t)
    BY NInvPointwise
  <2>1. CASE Delivers(t, pend)
    <3>1. sleep_slot'[t] = NoSlot
      BY <1>1, <2>1 DEF TypeOK, SleepType
    <3>2. t \notin in_sigsuspend'
      BY <1>1, <2>1 DEF EndsSigsuspend
    <3> QED
      BY <3>1, <3>2, QuietAwake DEF InSigsuspendWait
  <2>2. CASE ~Delivers(t, pend)
    <3>1. /\ signal_pending'[t] = pend /\ signal_blocked' = signal_blocked
          /\ in_sigsuspend' = in_sigsuspend
      BY <1>1, <2>2 DEF EndsSigsuspend, TypeOK, SignalType
    <3>2. signal_pending'[t] \ signal_blocked'[t] = {}
      BY <2>2, <3>1 DEF Delivers
    <3>3. InSigsuspendWait(t)' => InSigsuspendWait(t)
      BY <3>1 DEF InSigsuspendWait
    <3> QED
      BY <1>1, <2>0, <3>2, <3>3 DEF Quiet, Deliverable
  <2> QED
    BY <2>1, <2>2
<1> QED
  BY <1>2, <1>3, <1>4 DEF NInv, NoDeliverableWhileBlocked, WaitsSilently, Quiet

\* A step that touches the wait of no process but p, which waits for nothing
\* afterwards.
LEMMA OthersQuiet ==
  ASSUME NInv, NEW p \in Pid,
         \A q \in Pid \ {p} :
           /\ sleep_slot'[q] # NoSlot => sleep_slot[q] # NoSlot
           /\ InSigsuspendWait(q)' => InSigsuspendWait(q)
           /\ signal_pending'[q] \subseteq signal_pending[q]
           /\ signal_blocked'[q] = signal_blocked[q]
           /\ ipc'[q] = "queued" => ipc[q] = "queued",
         Quiet(p)', SuspendersAlive'
  PROVE  NInv'
<1>1. ASSUME NEW q \in Pid
      PROVE  Quiet(q)'
  <2>1. CASE q = p
    BY <2>1
  <2>2. CASE q # p
    BY <2>2, QuietKept, NInvPointwise
  <2> QED
    BY <2>1, <2>2
<1> QED
  BY <1>1 DEF NInv, NoDeliverableWhileBlocked, WaitsSilently, Quiet

\* The caller of a system call waits for nothing when it is received.
LEMMA ReceivedQuiet ==
  ASSUME TypeOK, RInv, NInv, NEW p \in Pid, Received(p)
  PROVE  p \in tasks /\ sleep_slot[p] = NoSlot /\ ~InSigsuspendWait(p)
BY ReceivedFacts DEF NInv, WaitsSilently

\* Every system call: only sigsuspend and nanosleep start a wait, both after
\* looking for a deliverable signal.
LEMMA SyscallQuiet ==
  ASSUME TypeOK, RInv, NInv, NEW p \in Pid, Syscall(p)
  PROVE  NInv'
<1> USE DEF taskVars, sleepVars, maskVars
<1>1. CASE SysExit(p)
  BY <1>1, TerminateQuiet DEF SysExit, Received
<1>2. ASSUME Received(p),
             UNCHANGED <<tasks, sleep_slot, signal_pending, in_sigsuspend, suspended, stopped>>,
             \E to \in {"awaiting", "user", "faulted"} : ipc' = [ipc EXCEPT ![p] = to],
             \A q \in Pid \ {p} : signal_blocked'[q] = signal_blocked[q]
      PROVE  NInv'
  <2>1. p \in tasks /\ sleep_slot[p] = NoSlot /\ ~InSigsuspendWait(p)
    BY <1>2, ReceivedQuiet
  <2>2. Quiet(p)'
    BY <1>2, <2>1, QuietAwake DEF InSigsuspendWait
  <2>3. SuspendersAlive'
    BY <1>2 DEF NInv, SuspendersAlive
  <2>4. \A q \in Pid \ {p} : ipc'[q] = ipc[q]
    BY <1>2 DEF TypeOK, ThreadType
  <2> QED
    BY <1>2, <2>2, <2>3, <2>4, OthersQuiet DEF InSigsuspendWait
<1>3. CASE OtherSyscall(p) \/ SysReboot(p)
           \/ \E target \in KillTargets, sig \in KillSignals : SysKill(p, target, sig)
  BY <1>2, <1>3 DEF OtherSyscall, SysReboot, SysKill, Returns, Continue, LoopUnchanged
<1>4. CASE PageFaultResolved(p) \/ FaultUnanswered(p)
  BY <1>2, <1>4 DEF PageFaultResolved, FaultUnanswered
<1>5. CASE SysSetsid(p) \/ \E t \in Pid, g \in Groups : SysSetpgid(p, t, g)
  <2>1. Received(p) /\ Returns(p) /\ GroupUnchanged
    BY <1>5 DEF SysSetsid, SysSetpgid
  <2> QED
    BY <1>2, <2>1 DEF Returns, Continue, GroupUnchanged
<1>6. CASE SysPowerOff(p)
  BY <1>2, <1>6 DEF SysPowerOff
<1>7. CASE \E a \in Actions : SysSigaction(p, a[1], a[2])
  BY <1>2, <1>7 DEF SysSigaction, Returns, Continue, SigUnchanged
<1>8. ASSUME NEW how \in {"BLOCK", "UNBLOCK", "SETMASK"}, NEW set \in Masks,
             SysSigprocmask(p, how, set)
      PROVE  NInv'
  <2>1. \E mask : signal_blocked' = [signal_blocked EXCEPT ![p] = mask]
    BY <1>8, Zenon DEF SysSigprocmask
  <2>2. Received(p) /\ Returns(p) /\ SigUnchanged
        /\ UNCHANGED <<signal_pending, in_sigsuspend, saved_mask, sigaction, suspended>>
    BY <1>8, Zenon DEF SysSigprocmask
  <2>3. \A q \in Pid \ {p} : signal_blocked'[q] = signal_blocked[q]
    BY <2>1 DEF TypeOK, SignalType
  <2> QED
    BY <1>2, <2>2, <2>3 DEF Returns, Continue, SigUnchanged
<1>9. CASE SysSigreturn(p) \/ \E set \in Masks : SysSigtimedwait(p, set) \/ SysSigsuspend(p, set)
  <2>1. Received(p) /\ Returns(p) /\ SigUnchanged
    BY <1>9 DEF SysSigreturn, SysSigtimedwait, SysSigsuspend
  <2>2. p \in tasks /\ sleep_slot[p] = NoSlot /\ ~InSigsuspendWait(p)
    BY <2>1, ReceivedQuiet
  <2>3. /\ UNCHANGED <<tasks, sleep_slot, stopped>>
        /\ \A q \in Pid : ipc'[q] = IF q = p THEN "awaiting" ELSE ipc[q]
    BY <2>1 DEF Returns, Continue, SigUnchanged, TypeOK, ThreadType
  <2>4. ASSUME \A q \in Pid \ {p} : /\ signal_pending'[q] = signal_pending[q]
                                    /\ signal_blocked'[q] = signal_blocked[q],
               in_sigsuspend' \subseteq in_sigsuspend, suspended' = suspended
        PROVE  NInv'
    <3>1. Quiet(p)'
      BY <2>2, <2>3, <2>4, QuietAwake DEF InSigsuspendWait
    <3>2. SuspendersAlive'
      BY <2>3, <2>4 DEF NInv, SuspendersAlive
    <3> QED
      BY <2>3, <2>4, <3>1, <3>2, OthersQuiet DEF InSigsuspendWait
  <2>5. CASE SysSigreturn(p)
    BY <2>4, <2>5 DEF SysSigreturn, restore_mask_from_sigsuspend_wait, TypeOK, SignalType
  <2>6. ASSUME NEW set \in Masks, SysSigtimedwait(p, set)
        PROVE  NInv'
    BY <2>4, <2>6 DEF SysSigtimedwait, TypeOK, SignalType
  <2>7. ASSUME NEW set \in Masks, SysSigsuspend(p, set)
        PROVE  NInv'
    <3> DEFINE mask == set \ UnblockableMask
    <3>1. CASE /\ UNCHANGED <<maskVars, suspended>>
               /\ \E s \in Signal : signal_pending' = [signal_pending EXCEPT ![p] = @ \ {s}]
      BY <2>4, <3>1 DEF TypeOK, SignalType
    <3>2. CASE /\ signal_pending[p] \ mask = {}
               /\ signal_blocked' = [signal_blocked EXCEPT ![p] = mask]
               /\ in_sigsuspend' = in_sigsuspend \cup {p}
               /\ suspended' = suspended \cup {p}
               /\ UNCHANGED signal_pending
      <4>1. \A q \in Pid : signal_blocked'[q] = IF q = p THEN mask ELSE signal_blocked[q]
        BY <3>2 DEF TypeOK, SignalType
      <4>2. Quiet(p)'
        BY <2>3, <3>2, <4>1 DEF Quiet, Deliverable
      <4>3. SuspendersAlive'
        BY <2>2, <2>3, <3>2 DEF NInv, SuspendersAlive
      <4>4. \A q \in Pid \ {p} : InSigsuspendWait(q)' => InSigsuspendWait(q)
        BY <2>3, <3>2 DEF InSigsuspendWait
      <4> QED
        BY <2>3, <3>2, <4>1, <4>2, <4>3, <4>4, OthersQuiet
    <3> QED
      BY <2>7, <3>1, <3>2 DEF SysSigsuspend
  <2> QED
    BY <1>9, <2>5, <2>6, <2>7
<1>10. ASSUME NEW outcome \in ForkOutcomes, SysFork(p, outcome)
       PROVE  NInv'
  <2>0. PICK c \in Pid : c = next_pid
    BY <1>10 DEF SysFork, register_process, TypeOK, TaskType
  <2>1. /\ Received(p) /\ c \in Pid /\ tasks' = tasks \cup {c} /\ c \notin tasks
        /\ ipc' = [ipc EXCEPT ![p] = "awaiting", ![c] = "user"]
        /\ stopped \subseteq stopped' /\ suspended' \subseteq suspended \cup {c}
        /\ UNCHANGED <<signal_pending, in_sigsuspend, sleep_slot>>
        /\ \E mask : signal_blocked' = [signal_blocked EXCEPT ![c] = mask]
    <3>1. /\ Received(p) /\ register_process(p, outcome # "unmapped") /\ c \in Pid
          /\ ipc' = [ipc EXCEPT ![p] = "awaiting", ![c] = "user"]
          /\ suspended' \subseteq suspended \cup {c}
          /\ UNCHANGED <<signal_pending, in_sigsuspend, sleep_slot>>
      BY <1>10, <2>0 DEF SysFork
    <3>2. c \notin tasks
      BY <2>0, <3>1 DEF RInv, FreshPids
    <3>3. /\ tasks' = tasks \cup {c} /\ stopped \subseteq stopped'
          /\ \E mask : signal_blocked' = [signal_blocked EXCEPT ![c] = mask]
      BY <2>0, <3>1 DEF register_process
    <3> QED
      BY <3>1, <3>2, <3>3
  <2>2. sleep_slot[c] = NoSlot /\ c \notin in_sigsuspend
    BY <2>1 DEF RInv, RepliesOwed, ReplySlotOwnership, SlotHeldBy, NInv, SuspendersAlive
  <2>3. Quiet(c)'
    BY <2>1, <2>2, QuietAwake DEF InSigsuspendWait
  <2>4. SuspendersAlive'
    BY <2>1 DEF NInv, SuspendersAlive
  <2>5. \A q \in Pid \ {c} : /\ signal_blocked'[q] = signal_blocked[q]
                             /\ ipc'[q] = "queued" => ipc[q] = "queued"
                             /\ InSigsuspendWait(q)' => InSigsuspendWait(q)
    <3>1. \A q \in Pid \ {c} : /\ signal_blocked'[q] = signal_blocked[q]
                               /\ ipc'[q] \in {"awaiting", ipc[q]}
      BY <2>1 DEF TypeOK, SignalType, ThreadType
    <3>2. \A q \in Pid \ {c} : InSigsuspendWait(q)' => InSigsuspendWait(q)
      BY <2>1 DEF InSigsuspendWait
    <3> QED
      BY <3>1, <3>2
  <2> QED
    <3>1. \A q \in Pid \ {c} :
            /\ sleep_slot'[q] # NoSlot => sleep_slot[q] # NoSlot
            /\ InSigsuspendWait(q)' => InSigsuspendWait(q)
            /\ signal_pending'[q] \subseteq signal_pending[q]
            /\ signal_blocked'[q] = signal_blocked[q]
            /\ ipc'[q] = "queued" => ipc[q] = "queued"
      BY <2>1, <2>5
    <3> QED
      BY <2>3, <2>4, <3>1, OthersQuiet, Zenon
<1>11. ASSUME NEW target \in WaitTargets, NEW options \in WaitOptions, SysWait4(p, target, options)
       PROVE  NInv'
  <2>1. /\ Received(p) /\ WaitUnchanged
        /\ Returns(p) \/ \E s \in free_slots : Deferred(p, s)
    BY <1>11 DEF SysWait4
  <2> QED
    BY <1>2, <2>1 DEF Returns, Continue, Deferred, WaitUnchanged
<1>12. CASE SysNanosleep(p)
  <2>1. /\ Received(p) /\ Deliverable(p) = {}
        /\ \E s \in free_slots : sleep_slot' = [sleep_slot EXCEPT ![p] = s] /\ Deferred(p, s)
        /\ UNCHANGED <<tasks, signal_pending, signal_blocked, in_sigsuspend, suspended, stopped>>
    BY <1>12 DEF SysNanosleep
  <2>2. /\ ~InSigsuspendWait(p)' /\ Deliverable(p)' = {}
        /\ \A q \in Pid \ {p} : sleep_slot'[q] = sleep_slot[q] /\ ipc'[q] = ipc[q]
    BY <2>1, ReceivedQuiet
       DEF InSigsuspendWait, Deliverable, Deferred, TypeOK, SleepType, ThreadType
  <2>3. Quiet(p)' /\ SuspendersAlive'
    BY <2>1, <2>2 DEF Quiet, NInv, SuspendersAlive
  <2> QED
    BY <2>1, <2>2, <2>3, OthersQuiet DEF InSigsuspendWait
<1> QED
  BY <1>1, <1>3, <1>4, <1>5, <1>6, <1>7, <1>8, <1>9, <1>10, <1>11, <1>12 DEF Syscall

\* The loops, the return path and the async runtime.
LEMMA HandlerQuiet ==
  ASSUME TypeOK, RInv, NInv, Handler \/ DrainStart \/ Worker
  PROVE  NInv'
<1> USE DEF taskVars, sleepVars, maskVars, poolVars, dispVars
<1>1. ASSUME NEW t \in Pid, KillStep(t)
      PROVE  NInv'
  <2>1. CASE KillTerminate(t)
    BY <2>1, TerminateQuiet DEF KillTerminate, NextTarget, TypeOK, DispatcherType
  <2>2. kill_sig \in Signal /\ SIGCONT \in Signal /\ signal_pending[t] \in SUBSET Signal
    BY <1>1, SignalAssumption DEF KillStep, KillTerminate, KillContinue, KillStop, KillOther,
       TypeOK, DispatcherType, SignalType
  <2>3. CASE KillContinue(t)
    <3> DEFINE pend == {s \in signal_pending[t] : ~is_stop_signal(s)} \cup {SIGCONT}
    <3>1. /\ queue_process_signal(t, pend) /\ stopped' = stopped \ {t}
          /\ suspended' = suspended \ {t} /\ UNCHANGED tasks
      BY <2>3 DEF KillContinue, KillUnchanged
    <3>2. pend \in SUBSET Signal
      BY <2>2
    <3> HIDE DEF pend
    <3> QED
      BY <3>1, <3>2, QueueSignalQuiet
  <2>4. CASE KillStop(t)
    <3> DEFINE pend == signal_pending[t] \cup {kill_sig}
    <3>1. /\ queue_process_signal(t, pend) /\ UNCHANGED tasks
          /\ \/ t # caller /\ stopped' = stopped \cup {t} /\ suspended' = suspended \cup {t}
             \/ stopped' = stopped /\ suspended' \in {suspended, suspended \ {t}}
      BY <2>4 DEF KillStop, KillUnchanged
    <3>2. pend \in SUBSET Signal
      BY <2>2
    <3> HIDE DEF pend
    <3> QED
      BY <3>1, <3>2, QueueSignalQuiet
  <2>5. CASE KillOther(t)
    <3> DEFINE pend == signal_pending[t] \cup {kill_sig}
    <3>1. /\ queue_process_signal(t, pend) /\ UNCHANGED <<tasks, stopped>>
          /\ suspended' \in {suspended, suspended \ {t}}
      BY <2>5 DEF KillOther, KillUnchanged
    <3>2. pend \in SUBSET Signal
      BY <2>2
    <3> HIDE DEF pend
    <3> QED
      BY <3>1, <3>2, QueueSignalQuiet
  <2> QED
    BY <1>1, <2>1, <2>3, <2>4, <2>5 DEF KillStep
<1>2. CASE RebootStep
  <2>1. ASSUME NEW t \in Pid, RebootTerminate(t)
        PROVE  NInv'
    BY <2>1, TerminateQuiet DEF RebootTerminate, NextTarget, TypeOK, DispatcherType
  <2>2. ASSUME NEW ok \in BOOLEAN, RebootExec(ok)
        PROVE  NInv'
    <3>1. /\ suspended' \subseteq suspended
          /\ UNCHANGED <<tasks, stopped, sleep_slot, signal_pending, signal_blocked,
                         in_sigsuspend, ipc>>
      BY <2>2 DEF RebootExec
    <3> QED
      BY <3>1 DEF NInv, NoDeliverableWhileBlocked, WaitsSilently, SuspendersAlive,
                  InSigsuspendWait, Deliverable
  <2> QED
    BY <1>2, <2>1, <2>2 DEF RebootStep
<1>3. CASE Return
  <2>1. ASSUME NEW s \in Signal, ReturnKilled(s)
        PROVE  NInv'
    BY <2>1, TerminateQuiet DEF ReturnKilled, Consumes
  <2>2. CASE \/ ReturnPlain
             \/ \E s \in Signal : ReturnHandled(s) \/ ReturnStopped(s) \/ ReturnContinued(s)
    <3>1. ReturnUnchanged /\ Reply
      BY <2>2 DEF ReturnPlain, ReturnHandled, ReturnStopped, ReturnContinued
    <3>2. /\ UNCHANGED <<tasks, sleep_slot, signal_blocked, in_sigsuspend>>
          /\ \A q \in Pid : ipc'[q] \in {"user", ipc[q]}
      BY <3>1 DEF ReturnUnchanged, Reply
    <3>3. \A q \in Pid : signal_pending'[q] \subseteq signal_pending[q]
      BY <2>2, ZenonT(60) DEF ReturnPlain, ReturnHandled, ReturnStopped, ReturnContinued,
                              PopSignal, TypeOK, SignalType
    <3>4. \A q \in Pid : InSigsuspendWait(q)' => InSigsuspendWait(q)
      BY <2>2, <3>2 DEF ReturnPlain, ReturnHandled, ReturnStopped, ReturnContinued,
                        InSigsuspendWait
    <3> QED
      BY <3>2, <3>3, <3>4 DEF NInv, NoDeliverableWhileBlocked, WaitsSilently, SuspendersAlive,
                              Deliverable
  <2> QED
    BY <1>3, <2>1, <2>2 DEF Return
<1>4. CASE Worker \/ DrainStart \/ DrainEvent \/ DrainDone
  <2>1. AsyncUnchanged
    BY <1>4 DEF Worker, WorkerTake, WorkerSend, WorkerNotify, DrainStart, DrainEvent, DrainDone
  <2>2. UNCHANGED <<tasks, stopped, suspended, signal_pending, signal_blocked, in_sigsuspend>>
    BY <2>1 DEF AsyncUnchanged
  <2>3. CASE UNCHANGED <<sleep_slot, ipc>>
    BY <2>2, <2>3 DEF NInv, NoDeliverableWhileBlocked, WaitsSilently, SuspendersAlive,
                      InSigsuspendWait, Deliverable
  <2>4. CASE DrainEvent
    <3>1. \A q \in Pid : ipc'[q] \in {"user", ipc[q]}
      BY <2>4 DEF DrainEvent
    <3>2. \A q \in Pid : sleep_slot'[q] # NoSlot => sleep_slot[q] # NoSlot
      BY <2>4 DEF DrainEvent, TypeOK, SleepType
    <3> QED
      BY <2>2, <3>1, <3>2 DEF NInv, NoDeliverableWhileBlocked, WaitsSilently, SuspendersAlive,
                              InSigsuspendWait, Deliverable
  <2> QED
    BY <1>4, <2>3, <2>4 DEF Worker, WorkerTake, WorkerSend, WorkerNotify, DrainStart, DrainDone
<1> QED
  BY <1>1, <1>2, <1>3, <1>4 DEF Handler

\* NInv is inductive, given the types and what the dispatcher owes.
LEMMA QuietInductive == TypeOK /\ RInv /\ NInv /\ [Next]_vars => NInv'
<1> SUFFICES ASSUME TypeOK, RInv, NInv, [Next]_vars PROVE NInv'
  OBVIOUS
<1> USE DEF taskVars, sleepVars, maskVars
<1>1. ASSUME NEW p \in Pid, Call(p)
      PROVE  NInv'
  <2>1. /\ p \notin suspended /\ ipc[p] = "user" /\ ipc' = [ipc EXCEPT ![p] = "queued"]
        /\ UNCHANGED <<tasks, stopped, suspended, sleep_slot, signal_pending, signal_blocked,
                       in_sigsuspend>>
    BY <1>1 DEF Call
  <2>2. \A q \in Pid \ {p} : ipc'[q] = ipc[q]
    BY <2>1 DEF TypeOK, ThreadType
  <2> QED
    BY <2>1, <2>2 DEF NInv, NoDeliverableWhileBlocked, WaitsSilently, SuspendersAlive,
                      InSigsuspendWait, Deliverable
<1>2. CASE UNCHANGED vars
  BY <1>2 DEF vars, NInv, NoDeliverableWhileBlocked, WaitsSilently, SuspendersAlive,
              InSigsuspendWait, Deliverable
<1> QED
  BY <1>1, <1>2, SyscallQuiet, HandlerQuiet DEF Next

\* A thread in nanosleep, or suspended by sigsuspend, never has a deliverable
\* signal pending, for any masks, any dispositions and any number of senders.
THEOREM NoSignalLost == Spec => []NoDeliverableWhileBlocked
<1>1. Init => NInv
  BY DEF Init, NInv, NoDeliverableWhileBlocked, WaitsSilently, SuspendersAlive,
         InSigsuspendWait, Deliverable
<1>2. NInv => NoDeliverableWhileBlocked
  BY DEF NInv
<1> QED
  BY <1>1, <1>2, RepliesInvariant, QuietInductive, PTL DEF Spec
=============================================================================
