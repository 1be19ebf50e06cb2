-------------------------- MODULE ApeProcessProofs --------------------------
(***************************************************************************)
(* Theorems about ApeProcess, for every number of processes, slots,        *)
(* signals and requests.                                                   *)
(***************************************************************************)
EXTENDS ApeProcess, WellFoundedInduction, TLAPS

(***************************************************************************)
(* What taking an event from a queue of child events does, for queues of   *)
(* any length                                                              *)
(***************************************************************************)
\* A nonempty set of naturals has a least element.
LEMMA LeastNatural ==
  ASSUME NEW T, T \subseteq Nat, T # {}
  PROVE  \E m \in T : \A k \in T : m <= k
<1>1. PICK m \in T : \A k \in T : ~(<<k, m>> \in OpToRel(<, Nat))
  BY WFMin, NatLessThanWellFounded, Zenon
<1>2. \A k \in T : ~(k < m)
  BY <1>1 DEF OpToRel
<1> QED
  BY <1>2

\* pop_child_event_matching finds the oldest matching event whenever some event
\* matches.
LEMMA OldestMatchExists ==
  ASSUME NEW S, NEW queue \in Seq(S), NEW req, has_child_event_matching(queue, req)
  PROVE  IsOldestMatch(queue, req, OldestMatch(queue, req))
<1> DEFINE T == {i \in DOMAIN queue : EventMatches(queue[i], req)}
<1>1. T \subseteq Nat /\ T # {}
  BY DEF has_child_event_matching
<1>2. PICK m \in T : \A k \in T : m <= k
  BY <1>1, LeastNatural, Zenon
<1>3. IsOldestMatch(queue, req, m)
  <2>1. m \in DOMAIN queue /\ EventMatches(queue[m], req)
    OBVIOUS
  <2>2. ASSUME NEW j \in 1..(m - 1)
        PROVE  ~EventMatches(queue[j], req)
    <3>1. j \in DOMAIN queue /\ ~(m <= j)
      BY <2>1
    <3> QED
      BY <1>2, <3>1
  <2> QED
    BY <2>1, <2>2 DEF IsOldestMatch
<1> QED
  BY <1>3 DEF OldestMatch, IsOldestMatch

\* Removing the event at position i leaves exactly the events at the other
\* positions, in their order.
LEMMA RemoveEventFacts ==
  ASSUME NEW S, NEW queue \in Seq(S), NEW i \in DOMAIN queue
  PROVE  /\ RemoveEvent(queue, i) \in Seq(S)
         /\ Len(RemoveEvent(queue, i)) = Len(queue) - 1
         /\ \A j \in DOMAIN RemoveEvent(queue, i) :
              /\ j < i => RemoveEvent(queue, i)[j] = queue[j]
              /\ j >= i => RemoveEvent(queue, i)[j] = queue[j + 1]
<1> DEFINE n == Len(queue) - 1
           r == RemoveEvent(queue, i)
<1>1. n \in Nat
  OBVIOUS
<1>2. r = [j \in 1..n |-> IF j < i THEN queue[j] ELSE queue[j + 1]]
  BY DEF RemoveEvent
<1>3. \A j \in 1..n : (IF j < i THEN queue[j] ELSE queue[j + 1]) \in S
  OBVIOUS
<1>4. r \in [1..n -> S]
  BY <1>2, <1>3
<1>5. r \in Seq(S) /\ Len(r) = n
  BY <1>1, <1>4
<1> QED
  BY <1>2, <1>5

\* Every event left was there before, at a position other than the one taken.
LEMMA PopKeepsEvents ==
  ASSUME NEW S, NEW queue \in Seq(S), NEW req, has_child_event_matching(queue, req)
  PROVE  /\ OldestMatch(queue, req) \in DOMAIN queue
         /\ EventMatches(queue[OldestMatch(queue, req)], req)
         /\ pop_child_event_matching(queue, req) \in Seq(S)
         /\ \A j \in DOMAIN pop_child_event_matching(queue, req) :
              \E k \in DOMAIN queue :
                /\ k # OldestMatch(queue, req)
                /\ pop_child_event_matching(queue, req)[j] = queue[k]
<1> DEFINE i == OldestMatch(queue, req)
           r == RemoveEvent(queue, i)
<1>1. i \in DOMAIN queue /\ EventMatches(queue[i], req)
  BY OldestMatchExists DEF IsOldestMatch
<1>2. /\ r \in Seq(S) /\ Len(r) = Len(queue) - 1
      /\ \A j \in DOMAIN r : /\ j < i => r[j] = queue[j]
                             /\ j >= i => r[j] = queue[j + 1]
  BY <1>1, RemoveEventFacts
<1>3. ASSUME NEW j \in DOMAIN r
      PROVE  \E k \in DOMAIN queue : k # i /\ r[j] = queue[k]
  <2>1. j \in 1..(Len(queue) - 1) /\ Len(queue) \in Nat /\ DOMAIN queue = 1..Len(queue)
    BY <1>2
  <2>2. CASE j < i
    BY <2>1, <2>2, <1>2
  <2>3. CASE j >= i
    <3>1. j + 1 \in DOMAIN queue /\ j + 1 # i /\ r[j] = queue[j + 1]
      BY <2>1, <2>3, <1>1, <1>2
    <3> QED
      BY <3>1
  <2> QED
    BY <2>1, <2>2, <2>3, <1>1
<1> QED
  BY <1>1, <1>2, <1>3 DEF pop_child_event_matching

USE DEF Pid

(***************************************************************************)
(* Types                                                                   *)
(***************************************************************************)
\* What terminate_process does to the state preserves every type.
LEMMA TerminateTypes ==
  ASSUME TypeOK, NEW t \in tasks, terminate_process(t)
  PROVE  TaskType' /\ WaitType' /\ SignalType' /\ SleepType' /\ ThreadType'
<1> USE BoundsAssumption, SlotAssumption, SignalAssumption DEF TypeOK
<1>1. TaskType'
  <2>1. remove_process(t)
    BY DEF terminate_process
  <2>2. tasks' \subseteq tasks /\ stopped' \subseteq stopped
    BY <2>1 DEF remove_process
  <2>3. next_pid' = next_pid /\ parent_pid' = parent_pid
    BY <2>1 DEF remove_process
  <2>4. /\ process_group_id' \in [Pid -> 0..MaxPid]
        /\ session_id' \in [Pid -> 0..MaxPid]
    BY <2>1, SMTT(60) DEF TaskType, remove_process
  <2>5. ASSUME NEW p \in tasks'
        PROVE  process_group_id'[p] \in Pid
    <3>1. p \in tasks /\ p # t
      BY <2>1 DEF remove_process
    <3>2. process_group_id'[p] = process_group_id[p]
      BY <2>1, <3>1 DEF TaskType, remove_process
    <3> QED
      BY <3>1, <3>2 DEF TaskType
  <2> QED
    BY <2>2, <2>3, <2>4, <2>5 DEF TaskType
<1>2. WaitType'
  <2>1. ExitEvent(t) \in Event
    BY DEF TaskType, ExitEvent, Event, Kinds
  <2>2. parent_pid[t] \in Pid => QueueAtExit(t) \in Seq(Event)
    BY <2>1 DEF WaitType, QueueAtExit
  <2>3. ASSUME WaitSatisfied(t)
        PROVE  /\ parent_pid[t] \in Pid
               /\ pop_child_event_matching(QueueAtExit(t), wait_req[parent_pid[t]]) \in Seq(Event)
               /\ ExitTaken(QueueAtExit(t), wait_req[parent_pid[t]]) \subseteq Pid
    <3> DEFINE q == QueueAtExit(t)
               r == wait_req[parent_pid[t]]
    <3>1. parent_pid[t] \in Pid
      BY <2>3 DEF WaitSatisfied, TaskType
    <3>2. q \in Seq(Event) /\ has_child_event_matching(q, r)
      BY <2>2, <2>3, <3>1 DEF WaitSatisfied
    <3>3. pop_child_event_matching(q, r) \in Seq(Event) /\ OldestMatch(q, r) \in DOMAIN q
      BY <3>2, PopKeepsEvents
    <3>4. q[OldestMatch(q, r)] \in Event
      BY <3>2, <3>3
    <3> QED
      BY <3>1, <3>3, <3>4 DEF ExitTaken, Event
  <2>4. child_events' \in [Pid -> Seq(Event)] /\ reported' \subseteq Pid
    BY <2>2, <2>3 DEF WaitType, terminate_process, record_child_exit
  <2>5. /\ wait_slot' \in [Pid -> Slot \cup {NoSlot}]
        /\ wait_req' \in [Pid -> Request \cup {NoReq}]
        /\ wait4_blocked' \in [Pid -> SUBSET WaitBlock]
    BY DEF WaitType, terminate_process
  <2> QED
    BY <2>4, <2>5 DEF WaitType
<1>3. SignalType'
  BY DEF SignalType, terminate_process, remove_process, PendingAtExit, Disposition
<1>4. SleepType'
  BY DEF SleepType, terminate_process, poolVars
<1>5. ThreadType'
  <2>1. DroppedAtExit(t) \subseteq Slot
    <3>1. t \in Pid
      BY DEF TaskType
    <3>2. wait_slot[t] \in Slot \cup {NoSlot} /\ sleep_slot[t] \in Slot \cup {NoSlot}
      BY <3>1 DEF WaitType, SleepType
    <3> QED
      BY <3>2 DEF DroppedAtExit, Slots
  <2>2. AnsweredAtExit(t) \subseteq Slot
    BY DEF AnsweredAtExit, Slots, WaitType, SleepType, WaitAnswered, WaitSatisfied,
           WaitHopeless
  <2>3. Release(AnsweredAtExit(t) \cup DroppedAtExit(t))
    BY DEF terminate_process
  <2>4. free_slots' \subseteq Slot /\ cap' \in [Slot -> 0..MaxPid]
    BY <2>1, <2>2, <2>3 DEF ThreadType, Release
  <2>5. /\ suspended' \subseteq suspended
        /\ ipc' = [p \in Pid |->
                    IF p = t THEN "none"
                    ELSE IF p \in {cap[s] : s \in AnsweredAtExit(t)} THEN "user"
                    ELSE ipc[p]]
    BY DEF terminate_process
  <2> QED
    BY <2>4, <2>5 DEF ThreadType
<1> QED
  BY <1>1, <1>2, <1>3, <1>4, <1>5

\* Releasing reply slots keeps the slot tables well typed.
LEMMA ReleaseTypes ==
  ASSUME TypeOK, NEW S \in SUBSET Slot, Release(S)
  PROVE  free_slots' \subseteq Slot /\ cap' \in [Slot -> 0..MaxPid]
BY BoundsAssumption DEF TypeOK, ThreadType, Release

\* Queueing signals of the instance preserves the types of what it touches.
LEMMA QueueSignalTypes ==
  ASSUME TypeOK, NEW t \in Pid, NEW pend \in SUBSET Signal, queue_process_signal(t, pend)
  PROVE  /\ signal_pending' \in [Pid -> SUBSET Signal]
         /\ signal_blocked' \in [Pid -> SUBSET Signal]
         /\ in_sigsuspend' \subseteq Pid /\ saved_mask' \in [Pid -> SUBSET Signal]
         /\ sleep_slot' \in [Pid -> Slot \cup {NoSlot}] /\ sleep_req' \in [Pid -> 0..MaxReq]
         /\ free_slots' \subseteq Slot /\ cap' \in [Slot -> 0..MaxPid]
         /\ ipc' \in [Pid -> {"none", "user", "queued", "awaiting", "faulted"}]
<1> USE BoundsAssumption DEF TypeOK
<1>1. signal_pending' \in [Pid -> SUBSET Signal]
  BY DEF queue_process_signal, SignalType
<1>2. /\ signal_blocked' \in [Pid -> SUBSET Signal]
      /\ in_sigsuspend' \subseteq Pid /\ saved_mask' \in [Pid -> SUBSET Signal]
  BY DEF queue_process_signal, restore_mask_from_sigsuspend_wait, SignalType
<1>3. interrupt_pending_sleep_reply(t, pend)
  BY DEF queue_process_signal
<1>4. Slots({sleep_slot[t]}) \subseteq Slot
  BY DEF Slots, SleepType
<1>5. sleep_slot' \in [Pid -> Slot \cup {NoSlot}] /\ sleep_req' \in [Pid -> 0..MaxReq]
  BY <1>3 DEF interrupt_pending_sleep_reply, SleepType
<1>6. free_slots' \subseteq Slot /\ cap' \in [Slot -> 0..MaxPid]
  <2>1. PICK S \in SUBSET Slot : Release(S)
    BY <1>3, <1>4 DEF interrupt_pending_sleep_reply
  <2> QED
    BY <2>1, ReleaseTypes
<1>7. ipc' \in [Pid -> {"none", "user", "queued", "awaiting", "faulted"}]
  BY <1>3 DEF interrupt_pending_sleep_reply, ThreadType
<1> QED
  BY <1>1, <1>2, <1>5, <1>6, <1>7

\* A stop or a continue adds an event to the queue of the child's parent.
LEMMA RecordChangeTypes ==
  ASSUME TypeOK, NEW c \in tasks, NEW kind \in Kinds, RecordChange(c, kind)
  PROVE  child_events' \in [Pid -> Seq(Event)]
<1>1. [child |-> c, pgid |-> process_group_id[c], kind |-> kind] \in Event
  BY DEF TypeOK, TaskType, Event
<1> QED
  BY <1>1 DEF TypeOK, WaitType, RecordChange

\* A handler that goes on holds a live caller; one that is done holds none.
LEMMA ContinueTypes ==
  ASSUME TypeOK, NEW p \in Pid, NEW ph \in {"kill", "reboot", "return"}, NEW sig, NEW pids,
         sig \in Signal \cup {0}, ph = "kill" => sig \in Signal, pids \subseteq tasks',
         Continue(p, ph, sig, pids)
  PROVE  DispatcherType' /\ ipc' \in [Pid -> {"none", "user", "queued", "awaiting", "faulted"}]
BY BoundsAssumption DEF TypeOK, DispatcherType, ThreadType, Continue

\* A handler that answers at once leaves the dispatcher without a caller.
LEMMA DoneTypes ==
  ASSUME TypeOK, NEW ph \in {"recv", "halted"}, Done(ph), running' = running
  PROVE  DispatcherType'
BY BoundsAssumption DEF TypeOK, DispatcherType, Done

\* A deferred reply takes its slot from the slots of the instance.
LEMMA DeferredTypes ==
  ASSUME TypeOK, NEW p \in Pid, NEW s \in Slot, Deferred(p, s), UNCHANGED tasks
  PROVE  /\ DispatcherType'
         /\ free_slots' \subseteq Slot /\ cap' \in [Slot -> 0..MaxPid]
         /\ ipc' \in [Pid -> {"none", "user", "queued", "awaiting", "faulted"}]
BY BoundsAssumption DEF TypeOK, DispatcherType, ThreadType, Deferred, dispVars

\* Moving process t to group g keeps every live process in a group.
LEMMA GroupTypes ==
  ASSUME TypeOK, NEW t \in Pid, NEW g \in Pid,
         process_group_id' = [process_group_id EXCEPT ![t] = g]
  PROVE  /\ process_group_id' \in [Pid -> 0..MaxPid]
         /\ \A p \in tasks \cup {t} : process_group_id'[p] \in Pid
<1> USE BoundsAssumption DEF TypeOK, TaskType
<1>1. process_group_id' \in [Pid -> 0..MaxPid]
  BY SMTT(60)
<1>2. ASSUME NEW p \in tasks \cup {t}
      PROVE  process_group_id'[p] \in Pid
  <2>1. p \in Pid
    OBVIOUS
  <2>2. CASE p = t
    BY <2>1, <2>2
  <2>3. CASE p # t
    BY <2>1, <2>3
  <2> QED
    BY <2>2, <2>3
<1> QED
  BY <1>1, <1>2

\* One system call, from receipt to its result, preserves every type.
LEMMA SyscallTypes ==
  ASSUME TypeOK, NEW p \in Pid, Syscall(p)
  PROVE  TypeOK'
<1> DEFINE Ipc == {"none", "user", "queued", "awaiting", "faulted"}
<1> USE BoundsAssumption DEF TypeOK, taskVars, eventVars, waitVars, maskVars, sleepVars,
                             poolVars, slotVars, loopVars, dispVars
<1>1. CASE SysExit(p)
  <2>1. p \in tasks /\ terminate_process(p) /\ AfterExit(p)
    BY <1>1 DEF SysExit, Received
  <2>2. TaskType' /\ WaitType' /\ SignalType' /\ SleepType' /\ ThreadType'
    BY <2>1, TerminateTypes
  <2>3. DispatcherType'
    BY <2>1, DoneTypes DEF AfterExit, terminate_process
  <2> QED
    BY <2>2, <2>3
<1>2. CASE OtherSyscall(p) \/ SysReboot(p)
  <2>1. DispatcherType' /\ ipc' \in [Pid -> Ipc]
    BY <1>2, ContinueTypes DEF OtherSyscall, SysReboot, Returns, LoopUnchanged
  <2> QED
    BY <1>2, <2>1, ZenonT(60) DEF OtherSyscall, SysReboot, LoopUnchanged, TaskType, WaitType,
                                  SignalType, SleepType, ThreadType
<1>3. CASE PageFaultResolved(p) \/ FaultUnanswered(p)
  BY <1>3, ZenonT(60) DEF PageFaultResolved, FaultUnanswered, TaskType, WaitType, SignalType,
                          SleepType, ThreadType, DispatcherType
<1>4. CASE SysSetsid(p) \/ \E t \in Pid, g \in Groups : SysSetpgid(p, t, g)
  <2>1. GroupUnchanged /\ Returns(p) /\ p \in tasks
    BY <1>4 DEF SysSetsid, SysSetpgid, Received
  <2>2. DispatcherType' /\ ipc' \in [Pid -> Ipc]
    BY <2>1, ContinueTypes DEF Returns, GroupUnchanged
  <2>3. WaitType' /\ SignalType' /\ SleepType' /\ ThreadType'
    BY <2>1, <2>2 DEF GroupUnchanged, WaitType, SignalType, SleepType, ThreadType
  <2>4. TaskType'
    <3>1. CASE SysSetsid(p)
      <4>1. session_id' \in [Pid -> 0..MaxPid]
        BY <3>1 DEF SysSetsid, TaskType
      <4>2. process_group_id' = [process_group_id EXCEPT ![p] = p]
        BY <3>1 DEF SysSetsid
      <4> QED
        BY <2>1, <4>1, <4>2, GroupTypes DEF GroupUnchanged, TaskType
    <3>2. ASSUME NEW t \in Pid, NEW g \in Groups, SysSetpgid(p, t, g)
          PROVE  TaskType'
      <4> DEFINE h == IF g = 0 THEN t ELSE g
      <4>1. h \in Pid /\ process_group_id' = [process_group_id EXCEPT ![t] = h]
        <5>1. g \in 0..MaxPid
          BY ArgumentAssumption
        <5>2. h \in Pid
          BY <5>1
        <5> QED
          BY <3>2, <5>2 DEF SysSetpgid, NewGroup
      <4> HIDE DEF h
      <4>2. UNCHANGED session_id
        BY <3>2 DEF SysSetpgid
      <4> QED
        BY <2>1, <4>1, <4>2, GroupTypes DEF GroupUnchanged, TaskType
    <3> QED
      BY <1>4, <3>1, <3>2
  <2> QED
    BY <2>2, <2>3, <2>4
<1>5. CASE SysSigreturn(p)
  <2>1. DispatcherType' /\ ipc' \in [Pid -> Ipc]
    BY <1>5, ContinueTypes DEF SysSigreturn, Returns, SigUnchanged
  <2> QED
    BY <1>5, <2>1 DEF SysSigreturn, restore_mask_from_sigsuspend_wait, SigUnchanged,
                      TaskType, WaitType, SignalType, SleepType, ThreadType
<1>6. CASE SysPowerOff(p)
  <2>1. DispatcherType'
    <3>1. running' \in BOOLEAN
      BY <1>6, Zenon DEF SysPowerOff
    <3>2. phase' = "return" /\ caller' = p /\ reply_cap' = p /\ UNCHANGED <<tasks, loopVars>>
      BY <1>6 DEF SysPowerOff
    <3> QED
      BY <3>1, <3>2 DEF DispatcherType
  <2> QED
    BY <1>6, <2>1 DEF SysPowerOff, TaskType, WaitType, SignalType, SleepType, ThreadType
<1>7. ASSUME NEW outcome \in ForkOutcomes, SysFork(p, outcome)
      PROVE  TypeOK'
  <2>1. p \in tasks /\ next_pid \in Pid /\ register_process(p, outcome # "unmapped")
    BY <1>7 DEF SysFork, Received, register_process, TaskType
  <2>2. TaskType'
    <3>1. PICK g \in Pid : process_group_id' = [process_group_id EXCEPT ![next_pid] = g]
      BY <2>1 DEF register_process, TaskType
    <3>2. /\ process_group_id' \in [Pid -> 0..MaxPid]
          /\ \A q \in tasks' : process_group_id'[q] \in Pid
      BY <2>1, <3>1, GroupTypes DEF register_process
    <3>3. session_id' \in [Pid -> 0..MaxPid] /\ parent_pid' \in [Pid -> 0..MaxPid]
      <4>1. session_id \in [Pid -> 0..MaxPid] /\ parent_pid \in [Pid -> 0..MaxPid]
        BY DEF TaskType
      <4>2. \/ session_id' = [session_id EXCEPT ![next_pid] = session_id[p]]
            \/ session_id' = [session_id EXCEPT ![next_pid] = next_pid]
        BY <2>1 DEF register_process
      <4>3. parent_pid' = [parent_pid EXCEPT ![next_pid] = p]
        BY <2>1 DEF register_process
      <4>4. session_id[p] \in 0..MaxPid /\ next_pid \in 0..MaxPid /\ p \in 0..MaxPid
        BY <2>1, <4>1
      <4>5. session_id' \in [Pid -> 0..MaxPid]
        BY <4>1, <4>2, <4>4
      <4>6. parent_pid' \in [Pid -> 0..MaxPid]
        BY <4>1, <4>3, <4>4
      <4> QED
        BY <4>5, <4>6
    <3>4. tasks' \subseteq Pid /\ next_pid' \in 1..(MaxPid + 1)
      <4>1. tasks' = tasks \cup {next_pid} /\ next_pid' = next_pid + 1
        BY <2>1 DEF register_process
      <4> QED
        BY <2>1, <4>1, SMTT(60) DEF TaskType
    <3>5. stopped' \subseteq Pid
      <4>1. stopped' \subseteq stopped \cup {next_pid}
        BY <2>1 DEF register_process
      <4> QED
        BY <2>1, <4>1 DEF TaskType
    <3> QED
      BY <3>2, <3>3, <3>4, <3>5 DEF TaskType
  <2>3. SignalType'
    BY <1>7, <2>1 DEF SysFork, register_process, SignalType
  <2>4. WaitType' /\ SleepType'
    BY <1>7 DEF SysFork, WaitType, SleepType
  <2>5. ThreadType'
    BY <1>7, <2>1 DEF SysFork, ThreadType
  <2>6. DispatcherType'
    BY <1>7, <2>1 DEF SysFork, register_process, DispatcherType
  <2> QED
    BY <2>2, <2>3, <2>4, <2>5, <2>6
<1>8. ASSUME NEW target \in WaitTargets, NEW options \in WaitOptions,
             SysWait4(p, target, options)
      PROVE  TypeOK'
  <2> DEFINE req == [target |-> target, options |-> options, pgid |-> process_group_id[p]]
  <2>1. p \in tasks /\ WaitUnchanged
    BY <1>8 DEF SysWait4, Received
  <2>2. req \in Request /\ [target |-> target, pgid |-> req.pgid] \in WaitBlock
    BY <2>1 DEF Request, WaitBlock, TaskType
  <2>3. TaskType' /\ SignalType' /\ SleepType'
    BY <2>1 DEF WaitUnchanged, TaskType, SignalType, SleepType
  <2>4. CASE Returns(p) /\ UNCHANGED <<wait_slot, wait_req, slotVars>>
             /\ wait4_blocked' = [wait4_blocked EXCEPT ![p] = {}]
             /\ child_events' \in [Pid -> Seq(Event)] /\ reported' \subseteq Pid
    <3>1. DispatcherType' /\ ipc' \in [Pid -> Ipc]
      <4>1. Continue(p, "return", 0, {})
        BY <2>4 DEF Returns
      <4> QED
        BY <4>1, ContinueTypes
    <3> QED
      BY <2>1, <2>3, <2>4, <3>1 DEF WaitUnchanged, WaitType, ThreadType
  <2>5. CASE /\ has_child_event_matching(child_events[p], req)
             /\ child_events' = [child_events EXCEPT ![p] = pop_child_event_matching(@, req)]
             /\ reported' = reported \cup ExitTaken(child_events[p], req)
             /\ wait4_blocked' = [wait4_blocked EXCEPT ![p] = {}]
             /\ Returns(p)
             /\ UNCHANGED <<wait_slot, wait_req, slotVars>>
    <3> DEFINE q == child_events[p]
    <3>1. q \in Seq(Event)
      BY DEF WaitType
    <3>2. pop_child_event_matching(q, req) \in Seq(Event) /\ OldestMatch(q, req) \in DOMAIN q
      BY <2>5, <3>1, PopKeepsEvents
    <3>3. q[OldestMatch(q, req)] \in Event
      BY <3>1, <3>2
    <3>4. ExitTaken(q, req) \subseteq Pid
      BY <3>3 DEF ExitTaken, Event
    <3> QED
      BY <2>4, <2>5, <3>2, <3>4 DEF WaitType
  <2>6. ASSUME NEW s \in free_slots, Deferred(p, s), UNCHANGED eventVars,
               wait_slot' = [wait_slot EXCEPT ![p] = s],
               wait_req' = [wait_req EXCEPT ![p] = req],
               wait4_blocked' = [wait4_blocked EXCEPT
                                   ![p] = {[target |-> target, pgid |-> req.pgid]}]
        PROVE  TypeOK'
    <3>1. s \in Slot
      BY DEF ThreadType
    <3>2. /\ DispatcherType' /\ ipc' \in [Pid -> Ipc]
          /\ free_slots' \subseteq Slot /\ cap' \in [Slot -> 0..MaxPid]
      BY <2>1, <2>6, <3>1, DeferredTypes DEF WaitUnchanged
    <3>3. WaitType'
      BY <2>2, <2>6, <3>1 DEF WaitType
    <3> QED
      BY <2>1, <2>3, <3>2, <3>3 DEF ThreadType, WaitUnchanged
  <2> QED
    BY <1>8, <2>4, <2>5, <2>6 DEF SysWait4, WaitType
<1>9. ASSUME NEW target \in KillTargets, NEW sig \in KillSignals, SysKill(p, target, sig)
      PROVE  TypeOK'
  <2>1. DispatcherType' /\ ipc' \in [Pid -> Ipc]
    BY <1>9, ContinueTypes, SignalAssumption DEF SysKill, KillTargetsOf, LoopUnchanged
  <2> QED
    BY <1>9, <2>1 DEF SysKill, LoopUnchanged, TaskType, WaitType, SignalType, SleepType,
                      ThreadType
<1>10. ASSUME NEW a \in Actions, SysSigaction(p, a[1], a[2])
       PROVE  TypeOK'
  <2>1. DispatcherType' /\ ipc' \in [Pid -> Ipc]
    BY <1>10, ContinueTypes DEF SysSigaction, Returns, SigUnchanged
  <2>2. a[1] \in Signal /\ a[2] \in Disposition
    BY ArgumentAssumption
  <2> QED
    BY <1>10, <2>1, <2>2 DEF SysSigaction, SigUnchanged, TaskType, WaitType, SignalType,
                             SleepType, ThreadType
<1>11. ASSUME NEW how \in {"BLOCK", "UNBLOCK", "SETMASK"}, NEW set \in Masks,
              SysSigprocmask(p, how, set)
       PROVE  TypeOK'
  <2>1. DispatcherType' /\ ipc' \in [Pid -> Ipc]
    BY <1>11, ContinueTypes DEF SysSigprocmask, Returns, SigUnchanged
  <2>2. signal_blocked' \in [Pid -> SUBSET Signal]
    BY <1>11, SignalAssumption DEF SysSigprocmask, SignalType
  <2> QED
    BY <1>11, <2>1, <2>2 DEF SysSigprocmask, SigUnchanged, TaskType, WaitType, SignalType,
                             SleepType, ThreadType
<1>12. ASSUME NEW set \in Masks, SysSigtimedwait(p, set) \/ SysSigsuspend(p, set)
       PROVE  TypeOK'
  <2>1. DispatcherType' /\ ipc' \in [Pid -> Ipc]
    BY <1>12, ContinueTypes DEF SysSigtimedwait, SysSigsuspend, Returns, SigUnchanged
  <2>2. SignalType' /\ suspended' \subseteq Pid
    <3>1. CASE SysSigtimedwait(p, set)
      BY <3>1 DEF SysSigtimedwait, SignalType, ThreadType
    <3>2. CASE SysSigsuspend(p, set)
      <4>1. (set \ UnblockableMask) \in SUBSET Signal
        BY SignalAssumption
      <4>2. sigaction' = sigaction
        BY <3>2 DEF SysSigsuspend
      <4>3. CASE UNCHANGED <<maskVars, suspended>>
                 /\ \E s \in Signal : signal_pending' = [signal_pending EXCEPT ![p] = @ \ {s}]
        BY <4>2, <4>3 DEF SignalType, ThreadType
      <4>4. CASE /\ signal_blocked' = [signal_blocked EXCEPT ![p] = set \ UnblockableMask]
                 /\ saved_mask' = [saved_mask EXCEPT ![p] = signal_blocked[p]]
                 /\ in_sigsuspend' = in_sigsuspend \cup {p}
                 /\ suspended' = suspended \cup {p}
                 /\ UNCHANGED signal_pending
        BY <4>1, <4>2, <4>4 DEF SignalType, ThreadType
      <4> QED
        BY <3>2, <4>3, <4>4 DEF SysSigsuspend
    <3> QED
      BY <1>12, <3>1, <3>2
  <2> QED
    BY <1>12, <2>1, <2>2 DEF SysSigtimedwait, SysSigsuspend, SigUnchanged, TaskType,
                             WaitType, SleepType, ThreadType
<1>13. CASE SysNanosleep(p)
  <2>1. PICK s \in free_slots : Deferred(p, s) /\ sleep_slot' = [sleep_slot EXCEPT ![p] = s]
    BY <1>13 DEF SysNanosleep
  <2>2. s \in Slot /\ UNCHANGED taskVars
    BY <1>13 DEF ThreadType, SysNanosleep
  <2>3. /\ DispatcherType' /\ ipc' \in [Pid -> Ipc]
        /\ free_slots' \subseteq Slot /\ cap' \in [Slot -> 0..MaxPid]
    BY <2>1, <2>2, DeferredTypes
  <2>4. next_request_id \in 1..MaxReq
    BY <1>13 DEF SysNanosleep, SleepType
  <2>5. [pid |-> p, id |-> next_request_id] \in SleepJob
    BY <2>4 DEF SleepJob
  <2>6. SleepType'
    <3>1. sleep_slot' \in [Pid -> Slot \cup {NoSlot}]
      BY <2>1, <2>2 DEF SleepType
    <3>2. sleep_req' \in [Pid -> 0..MaxReq] /\ next_request_id' \in 1..(MaxReq + 1)
      BY <1>13, <2>4 DEF SysNanosleep, SleepType
    <3>3. executor' \in Seq(SleepJob) /\ refused' \subseteq 1..MaxReq
      <4>1. \/ executor' = Append(executor, [pid |-> p, id |-> next_request_id])
               /\ refused' = refused
            \/ executor' = executor /\ refused' = refused \cup {next_request_id}
        BY <1>13 DEF SysNanosleep
      <4>2. executor \in Seq(SleepJob) /\ refused \subseteq 1..MaxReq
        BY DEF SleepType
      <4>3. Append(executor, [pid |-> p, id |-> next_request_id]) \in Seq(SleepJob)
        BY <2>5, <4>2
      <4>4. refused \cup {next_request_id} \subseteq 1..MaxReq
        BY <2>4, <4>2
      <4> QED
        BY <4>1, <4>2, <4>3, <4>4
    <3>4. UNCHANGED <<worker, channel, notified>>
      BY <1>13 DEF SysNanosleep
    <3> QED
      BY <3>1, <3>2, <3>3, <3>4 DEF SleepType
  <2> QED
    BY <1>13, <2>2, <2>3, <2>6 DEF SysNanosleep, TaskType, WaitType, SignalType, ThreadType
<1> QED
  BY <1>1, <1>2, <1>3, <1>4, <1>5, <1>6, <1>7, <1>8, <1>9, <1>10, <1>11, <1>12, <1>13
  DEF Syscall

\* One step of a loop of do_kill preserves every type and the todo list's
\* liveness: a target that dies leaves the list.
LEMMA KillTypes ==
  ASSUME TypeOK, NEW t \in Pid, KillStep(t)
  PROVE  TypeOK'
<1> DEFINE Ipc == {"none", "user", "queued", "awaiting", "faulted"}
<1> USE BoundsAssumption, SignalAssumption
    DEF TypeOK, taskVars, eventVars, waitVars, maskVars, sleepVars, poolVars, slotVars,
        loopVars, dispVars
<1>1. phase = "kill" /\ kill_sig \in Signal /\ t \in tasks
  BY DEF KillStep, KillTerminate, KillContinue, KillStop, KillOther, NextTarget,
         DispatcherType
<1>2. CASE KillTerminate(t)
  <2>1. terminate_process(t)
    BY <1>2 DEF KillTerminate
  <2>2. TaskType' /\ WaitType' /\ SignalType' /\ SleepType' /\ ThreadType'
    BY <1>1, <2>1, TerminateTypes
  <2>3. running' = running /\ tasks' = tasks \ {t}
    BY <2>1 DEF terminate_process, remove_process
  <2>4. DispatcherType'
    <3>1. CASE t = caller \/ t = 1
      BY <1>2, <2>3, <3>1, DoneTypes DEF KillTerminate, AfterExit
    <3>2. CASE ~(t = caller \/ t = 1)
      BY <1>1, <1>2, <2>3, <3>2 DEF KillTerminate, DispatcherType
    <3> QED
      BY <3>1, <3>2
  <2> QED
    BY <2>2, <2>4
<1>3. ASSUME NEW pend \in SUBSET Signal, queue_process_signal(t, pend), KillStepDone(t),
             KillUnchanged, stopped' \subseteq Pid, suspended' \subseteq Pid,
             child_events' \in [Pid -> Seq(Event)]
      PROVE  TypeOK'
  <2>1. /\ signal_pending' \in [Pid -> SUBSET Signal]
        /\ signal_blocked' \in [Pid -> SUBSET Signal]
        /\ in_sigsuspend' \subseteq Pid /\ saved_mask' \in [Pid -> SUBSET Signal]
        /\ sleep_slot' \in [Pid -> Slot \cup {NoSlot}] /\ sleep_req' \in [Pid -> 0..MaxReq]
        /\ free_slots' \subseteq Slot /\ cap' \in [Slot -> 0..MaxPid]
        /\ ipc' \in [Pid -> Ipc]
    BY <1>3, QueueSignalTypes
  <2>2. TaskType' /\ WaitType'
    BY <1>3 DEF KillUnchanged, TaskType, WaitType
  <2>3. SignalType' /\ ThreadType'
    BY <1>3, <2>1 DEF KillUnchanged, SignalType, ThreadType
  <2>4. SleepType'
    BY <1>3, <2>1 DEF KillUnchanged, SleepType
  <2>5. DispatcherType'
    BY <1>1, <1>3 DEF KillStepDone, KillUnchanged, DispatcherType
  <2> QED
    BY <2>2, <2>3, <2>4, <2>5
<1>4. CASE KillContinue(t)
  <2> DEFINE pend == {s \in signal_pending[t] : ~is_stop_signal(s)} \cup {SIGCONT}
  <2>1. pend \in SUBSET Signal
    BY DEF SignalType
  <2>2. child_events' \in [Pid -> Seq(Event)]
    BY <1>1, <1>4, RecordChangeTypes DEF KillContinue, WaitType, Kinds
  <2>3. stopped' \subseteq Pid /\ suspended' \subseteq Pid
    BY <1>4 DEF KillContinue, TaskType, ThreadType
  <2>4. queue_process_signal(t, pend) /\ KillStepDone(t) /\ KillUnchanged
    BY <1>4 DEF KillContinue
  <2> QED
    BY <1>3, <2>1, <2>2, <2>3, <2>4
<1>5. CASE KillStop(t)
  <2> DEFINE pend == signal_pending[t] \cup {kill_sig}
  <2>1. pend \in SUBSET Signal
    BY <1>1 DEF SignalType
  <2>2. child_events' \in [Pid -> Seq(Event)]
    BY <1>1, <1>5, RecordChangeTypes DEF KillStop, WaitType, Kinds
  <2>3. stopped' \subseteq stopped \cup {t} /\ suspended' \subseteq suspended \cup {t}
    BY <1>5 DEF KillStop
  <2>4. stopped' \subseteq Pid /\ suspended' \subseteq Pid
    BY <2>3 DEF TaskType, ThreadType
  <2>5. queue_process_signal(t, pend) /\ KillStepDone(t) /\ KillUnchanged
    BY <1>5 DEF KillStop
  <2> QED
    BY <1>3, <2>1, <2>2, <2>4, <2>5
<1>6. CASE KillOther(t)
  <2> DEFINE pend == signal_pending[t] \cup {kill_sig}
  <2>1. pend \in SUBSET Signal
    BY <1>1 DEF SignalType
  <2>2. child_events' \in [Pid -> Seq(Event)] /\ stopped' \subseteq Pid
    BY <1>6 DEF KillOther, WaitType, TaskType
  <2>3. suspended' \subseteq Pid
    BY <1>6 DEF KillOther, ThreadType
  <2>4. queue_process_signal(t, pend) /\ KillStepDone(t) /\ KillUnchanged
    BY <1>6 DEF KillOther
  <2> QED
    BY <1>3, <2>1, <2>2, <2>3, <2>4
<1> QED
  BY <1>2, <1>4, <1>5, <1>6 DEF KillStep

\* The termination loop of reboot, and the exec of init after it, preserve
\* every type.
LEMMA RebootTypes ==
  ASSUME TypeOK, RebootStep
  PROVE  TypeOK'
<1> USE BoundsAssumption
    DEF TypeOK, taskVars, eventVars, waitVars, maskVars, sleepVars, poolVars, slotVars,
        loopVars, dispVars
<1>1. ASSUME NEW t \in Pid, RebootTerminate(t)
      PROVE  TypeOK'
  <2>1. t \in tasks /\ terminate_process(t)
    BY <1>1 DEF RebootTerminate, NextTarget, DispatcherType
  <2>2. TaskType' /\ WaitType' /\ SignalType' /\ SleepType' /\ ThreadType'
    BY <2>1, TerminateTypes
  <2>3. running' = running /\ tasks' = tasks \ {t}
    BY <2>1 DEF terminate_process, remove_process
  <2>4. DispatcherType'
    BY <1>1, <2>3 DEF RebootTerminate, DispatcherType
  <2> QED
    BY <2>2, <2>4
<1>2. ASSUME NEW ok \in BOOLEAN, RebootExec(ok)
      PROVE  TypeOK'
  <2>1. suspended' \subseteq Pid
    BY <1>2 DEF RebootExec, ThreadType
  <2> QED
    BY <1>2, <2>1 DEF RebootExec, TaskType, WaitType, SignalType, SleepType, ThreadType,
                      DispatcherType
<1> QED
  BY <1>1, <1>2 DEF RebootStep

\* The signal work on the way back from a system call preserves every type.
LEMMA ReturnTypes ==
  ASSUME TypeOK, Return
  PROVE  TypeOK'
<1> DEFINE Ipc == {"none", "user", "queued", "awaiting", "faulted"}
<1> USE BoundsAssumption
    DEF TypeOK, taskVars, eventVars, waitVars, maskVars, sleepVars, poolVars, slotVars,
        loopVars, dispVars
<1>1. ASSUME Reply, ReturnUnchanged, signal_pending' \in [Pid -> SUBSET Signal],
             stopped' \subseteq Pid, suspended' \subseteq Pid,
             child_events' \in [Pid -> Seq(Event)]
      PROVE  TypeOK'
  <2>1. DispatcherType'
    BY <1>1, DoneTypes DEF Reply, AfterReply
  <2>2. ipc' \in [Pid -> Ipc]
    BY <1>1 DEF Reply, ThreadType
  <2>3. TaskType' /\ WaitType' /\ SignalType' /\ SleepType'
    BY <1>1 DEF ReturnUnchanged, TaskType, WaitType, SignalType, SleepType
  <2> QED
    BY <1>1, <2>1, <2>2, <2>3 DEF ReturnUnchanged, ThreadType
<1>2. CASE ReturnPlain
  BY <1>1, <1>2 DEF ReturnPlain, SignalType, TaskType, ThreadType, WaitType
<1>3. ASSUME NEW s \in Signal, ReturnHandled(s)
      PROVE  TypeOK'
  <2>1. signal_pending' \in [Pid -> SUBSET Signal]
    BY <1>3 DEF ReturnHandled, PopSignal, SignalType
  <2> QED
    BY <1>1, <1>3, <2>1 DEF ReturnHandled, TaskType, ThreadType, WaitType
<1>4. ASSUME NEW s \in Signal, ReturnStopped(s) \/ ReturnContinued(s)
      PROVE  TypeOK'
  <2>1. caller \in tasks
    BY <1>4 DEF ReturnStopped, ReturnContinued, Consumes
  <2>2. signal_pending' \in [Pid -> SUBSET Signal]
    BY <1>4, ZenonT(60) DEF ReturnStopped, ReturnContinued, PopSignal, SignalType
  <2>3. child_events' \in [Pid -> Seq(Event)]
    BY <1>4, <2>1, RecordChangeTypes DEF ReturnStopped, ReturnContinued, WaitType, Kinds
  <2>4. /\ stopped' \subseteq stopped \cup {caller}
        /\ suspended' \subseteq suspended \cup {caller}
    BY <1>4 DEF ReturnStopped, ReturnContinued
  <2>5. stopped' \subseteq Pid /\ suspended' \subseteq Pid
    BY <2>1, <2>4 DEF TaskType, ThreadType
  <2> QED
    BY <1>1, <1>4, <2>2, <2>3, <2>5 DEF ReturnStopped, ReturnContinued
<1>5. ASSUME NEW s \in Signal, ReturnKilled(s)
      PROVE  TypeOK'
  <2>1. caller \in tasks /\ terminate_process(caller)
    BY <1>5 DEF ReturnKilled, Consumes
  <2>2. TaskType' /\ WaitType' /\ SignalType' /\ SleepType' /\ ThreadType'
    BY <2>1, TerminateTypes
  <2>3. DispatcherType'
    BY <1>5, <2>1, DoneTypes DEF ReturnKilled, AfterReply, terminate_process
  <2> QED
    BY <2>2, <2>3
<1> QED
  BY <1>2, <1>3, <1>4, <1>5 DEF Return

\* The worker thread and the drain of its completions preserve every type.
LEMMA AsyncTypes ==
  ASSUME TypeOK, Worker \/ DrainStart \/ DrainEvent \/ DrainDone
  PROVE  TypeOK'
<1> DEFINE Ipc == {"none", "user", "queued", "awaiting", "faulted"}
<1> USE BoundsAssumption
    DEF TypeOK, taskVars, eventVars, waitVars, maskVars, sleepVars, poolVars, slotVars,
        loopVars, dispVars
<1>1. AsyncUnchanged
  BY DEF Worker, WorkerTake, WorkerSend, WorkerNotify, DrainStart, DrainEvent, DrainDone
<1>2. TaskType' /\ WaitType' /\ SignalType' /\ suspended' \subseteq Pid
  BY <1>1 DEF AsyncUnchanged, TaskType, WaitType, SignalType, ThreadType
<1>3. CASE WorkerTake
  <2>1. Head(executor) \in SleepJob /\ Tail(executor) \in Seq(SleepJob)
    BY <1>3 DEF WorkerTake, SleepType
  <2>2. SleepType'
    BY <1>1, <1>3, <2>1 DEF WorkerTake, AsyncUnchanged, SleepType
  <2> QED
    BY <1>2, <1>3, <2>2, <1>1 DEF WorkerTake, AsyncUnchanged, ThreadType, DispatcherType
<1>4. CASE WorkerSend
  <2>1. worker.job \in SleepJob
    BY <1>4 DEF WorkerSend, SleepType
  <2>2. Append(channel, worker.job) \in Seq(SleepJob)
    BY <2>1 DEF SleepType
  <2>3. /\ worker' \in [state : {"idle", "sleep", "notify"}, job : SleepJob \cup {NoJob}]
        /\ worker'.state # "idle" => worker'.job \in SleepJob
    BY <1>4, <2>1 DEF WorkerSend, SleepType
  <2>4. SleepType'
    BY <1>1, <1>4, <2>2, <2>3 DEF WorkerSend, AsyncUnchanged, SleepType
  <2> QED
    BY <1>1, <1>2, <1>4, <2>4 DEF WorkerSend, AsyncUnchanged, ThreadType, DispatcherType
<1>5. CASE WorkerNotify
  <2>1. notified' \in BOOLEAN
    BY <1>5, Zenon DEF WorkerNotify
  <2>2. SleepType'
    BY <1>1, <1>5, <2>1 DEF WorkerNotify, AsyncUnchanged, SleepType
  <2> QED
    BY <1>1, <1>2, <1>5, <2>2 DEF WorkerNotify, AsyncUnchanged, ThreadType, DispatcherType
<1>6. CASE DrainStart \/ DrainDone
  <2>1. notified' \in BOOLEAN
    BY <1>6, Zenon DEF DrainStart, DrainDone, SleepType
  <2>2. SleepType' /\ ThreadType'
    BY <1>1, <1>6, <2>1 DEF DrainStart, DrainDone, AsyncUnchanged, SleepType, ThreadType
  <2>3. phase' \in {"recv", "drain"}
    BY <1>6 DEF DrainStart, DrainDone
  <2> QED
    BY <1>1, <1>2, <1>6, <2>2, <2>3 DEF DrainStart, DrainDone, AsyncUnchanged,
                                        DispatcherType
<1>7. CASE DrainEvent
  <2> DEFINE job == Head(channel)
             S == IF Completes(job) THEN {sleep_slot[job.pid]} ELSE {}
  <2>1. job \in SleepJob /\ Tail(channel) \in Seq(SleepJob)
    BY <1>7 DEF DrainEvent, SleepType
  <2>2. job.pid \in Pid
    BY <2>1 DEF SleepJob
  <2>3. sleep_slot[job.pid] \in Slot \cup {NoSlot}
    BY <2>2 DEF SleepType
  <2>4. S \in SUBSET Slot
    BY <2>3 DEF Completes
  <2>5. /\ channel' = Tail(channel) /\ Release(S)
        /\ sleep_slot' = IF S = {} THEN sleep_slot
                         ELSE [sleep_slot EXCEPT ![job.pid] = NoSlot]
        /\ sleep_req' = IF S = {} THEN sleep_req ELSE [sleep_req EXCEPT ![job.pid] = 0]
        /\ ipc' = [p \in Pid |-> IF p \in {cap[s] : s \in S} THEN "user" ELSE ipc[p]]
        /\ UNCHANGED <<executor, worker, notified, dispVars>>
    BY <1>7 DEF DrainEvent
  <2> HIDE DEF job, S
  <2>6. free_slots' \subseteq Slot /\ cap' \in [Slot -> 0..MaxPid]
    BY <2>4, <2>5, ReleaseTypes
  <2>7. ThreadType'
    BY <1>2, <2>5, <2>6 DEF ThreadType
  <2>8. SleepType'
    BY <1>1, <2>1, <2>2, <2>5, SMTT(60) DEF AsyncUnchanged, SleepType
  <2> QED
    BY <1>1, <1>2, <2>5, <2>7, <2>8 DEF AsyncUnchanged, DispatcherType
<1> QED
  BY <1>3, <1>4, <1>5, <1>6, <1>7 DEF Worker

\* The state load_init leaves is well typed.
LEMMA TypeInit == Init => TypeOK
<1> SUFFICES ASSUME Init PROVE TypeOK
  OBVIOUS
<1> USE BoundsAssumption DEF Init
<1>1. TaskType
  BY DEF TaskType
<1>2. WaitType
  BY DEF WaitType
<1>3. SignalType
  BY DEF SignalType, Disposition
<1>4. SleepType
  <2>1. worker \in [state : {"idle", "sleep", "notify"}, job : SleepJob \cup {NoJob}]
        /\ worker.state = "idle"
    OBVIOUS
  <2>2. sleep_slot \in [Pid -> Slot \cup {NoSlot}] /\ sleep_req \in [Pid -> 0..MaxReq]
    OBVIOUS
  <2>3. next_request_id \in 1..(MaxReq + 1) /\ refused \subseteq 1..MaxReq
    OBVIOUS
  <2>4. executor \in Seq(SleepJob) /\ channel \in Seq(SleepJob)
    OBVIOUS
  <2>5. notified \in BOOLEAN
    BY Zenon
  <2> QED
    BY <2>1, <2>2, <2>3, <2>4, <2>5 DEF SleepType
<1>5. ThreadType
  BY DEF ThreadType
<1>6. DispatcherType
  BY DEF DispatcherType
<1> QED
  BY <1>1, <1>2, <1>3, <1>4, <1>5, <1>6 DEF TypeOK

\* Every step of the server preserves the types: TypeOK is inductive.
LEMMA TypeInductive == TypeOK /\ [Next]_vars => TypeOK'
<1> SUFFICES ASSUME TypeOK, [Next]_vars PROVE TypeOK'
  OBVIOUS
<1>1. ASSUME NEW p \in Pid, Call(p)
      PROVE  TypeOK'
  BY <1>1 DEF Call, TypeOK, taskVars, eventVars, waitVars, maskVars, sleepVars, poolVars,
              slotVars, dispVars, TaskType, WaitType, SignalType, SleepType, ThreadType,
              DispatcherType
<1>2. CASE UNCHANGED vars
  BY <1>2, ZenonT(60) DEF vars, TypeOK, taskVars, eventVars, waitVars, maskVars, sleepVars,
                          poolVars, slotVars, dispVars, TaskType, WaitType, SignalType,
                          SleepType, ThreadType, DispatcherType
<1> QED
  BY <1>1, <1>2, SyscallTypes, KillTypes, RebootTypes, ReturnTypes, AsyncTypes
  DEF Next, Handler

\* Every run of the server keeps every variable in its type, the targets of a
\* kill or reboot loop alive, and every live process in a process group.
THEOREM TypeCorrect == Spec => []TypeOK
BY TypeInit, TypeInductive, PTL DEF Spec
=============================================================================
