----------------------------- MODULE ApeProcess -----------------------------
(***************************************************************************)
(* Processes, signals, wait4 and nanosleep of the APE server.              *)
(*                                                                         *)
(* One dispatcher thread receives a message, runs its handler with the     *)
(* manager locked and replies; a handler that cannot answer yet moves the  *)
(* caller's reply capability into a slot and answers later.  A handler is  *)
(* one action, except for the loops of kill, reboot and the completion     *)
(* drain (one step per iteration) and for the signal check every system    *)
(* call ends with: `phase' makes those continuations the dispatcher's only *)
(* next step, while user threads and the async worker go on running.       *)
(***************************************************************************)
EXTENDS ChildEvents, FiniteSets

CONSTANTS
  MaxPid,          \* bound: pids are 1..MaxPid (alloc_pid never reuses one)
  Slot,            \* capability slots for deferred replies
  NoSlot,          \* no slot held
  Signal,          \* the signal numbers the instance uses
  WaitTargets,     \* values of wait4's pid argument
  WaitOptions,     \* values of wait4's options argument
  KillTargets,     \* values of kill's pid argument
  KillSignals,     \* values of kill's sig argument
  Masks,           \* signal sets passed to the sigset calls
  Groups,          \* values of setpgid's pgid argument
  Actions,         \* <<signal, disposition>> pairs passed to sigaction
  Calls,           \* which of the calls without arguments processes make
  ForkOutcomes,    \* how far a fork may get past the registration of the child
  MaxReq,          \* bound on nanosleep requests
  MaxEvents,       \* bound: kill may stop or continue while no queue is longer
  QueueCapacity,   \* APE_ASYNC_SLEEP_QUEUE_CAPACITY of the executor
  ChanCapacity     \* APE_ASYNC_SLEEP_QUEUE_CAPACITY of the channel

SIGKILL == 9
SIGCHLD == 17
SIGCONT == 18
SIGSTOP == 19
SIGTSTP == 20
UnblockableMask == {SIGKILL, SIGSTOP}
is_stop_signal(sig) == sig \in {SIGSTOP, SIGTSTP, 21, 22}
default_ignored_signal(sig) == sig \in {SIGCHLD, 23, 28}

Pid == 1..MaxPid
Disposition == {"DFL", "IGN", "CATCH"}
Request == [target : WaitTargets, options : WaitOptions, pgid : Pid]
WaitBlock == [target : WaitTargets, pgid : Pid]
Event == [child : Pid, pgid : Pid, kind : Kinds]
SleepJob == [pid : Pid, id : 1..MaxReq]

ASSUME BoundsAssumption ==
  /\ MaxPid \in Nat \ {0}
  /\ MaxReq \in Nat /\ MaxEvents \in Nat
  /\ QueueCapacity \in Nat \ {0} /\ ChanCapacity \in Nat \ {0}
ASSUME SlotAssumption == NoSlot \notin Slot
ASSUME SignalAssumption ==
  /\ Signal \subseteq 1..64 /\ {SIGCHLD, SIGCONT} \subseteq Signal
  /\ KillSignals \subseteq Signal /\ Masks \subseteq SUBSET Signal
ASSUME ArgumentAssumption ==
  /\ WaitTargets \subseteq Int /\ KillTargets \subseteq Int
  /\ WaitOptions \subseteq SUBSET {"WNOHANG", "WUNTRACED", "WCONTINUED"}
  /\ Groups \subseteq 0..MaxPid /\ Actions \subseteq Signal \X Disposition
  /\ ForkOutcomes \subseteq {"unmapped", "unstarted", "started"}

VARIABLES
  tasks,             \* ApeTaskState.tasks: pids with a TaskStruct
  next_pid,          \* ApeTaskState.next_pid
  parent_pid, process_group_id, session_id, stopped,   \* TaskStruct
  child_events,      \* ApeTaskState.child_events, empty when absent
  reported,          \* history: pids whose exit a wait4 has taken from its queue
  wait_slot,         \* pending_wait_replies: the reply slot, NoSlot when absent
  wait_req,          \* pending_wait_replies: the request of the slot's holder
  wait4_blocked,     \* SignalState.wait4_blocked, as a set of at most one
  signal_pending, signal_blocked, sigaction,           \* SignalStruct
  in_sigsuspend,     \* pids whose sigsuspend_saved_mask is Some
  saved_mask,        \* that mask
  sleep_slot,        \* pending_sleep_replies: the reply slot, NoSlot when absent
  sleep_req,         \* pending_sleep_replies: the request id, 0 when absent
  next_request_id,
  executor,          \* jobs spawned on the thread pool and not yet taken
  worker,            \* the async worker thread
  channel,           \* completion channel
  notified,          \* the async notification is pending on the endpoint
  refused,           \* history: requests whose spawn failed
  free_slots,        \* cspace_mgr: slots free to be allocated
  cap,               \* external: whose reply capability a slot holds, 0 if none
  reply_cap,         \* external: the same for the fixed reply slot
  ipc,               \* external: what a process's thread does
  suspended,         \* external: threads the kernel keeps suspended
  phase, caller,     \* the dispatcher and ipc.active_caller_pid, 0 if none
  kill_sig, todo,    \* the loop of do_kill or do_reboot_runtime in progress
  running            \* service_state.ipc.running

taskVars == <<tasks, next_pid, parent_pid, process_group_id, session_id, stopped>>
eventVars == <<child_events, reported>>
waitVars == <<wait_slot, wait_req, wait4_blocked>>
maskVars == <<signal_blocked, in_sigsuspend, saved_mask>>
sleepVars == <<sleep_slot, sleep_req>>
poolVars == <<executor, worker, channel, notified, refused>>
slotVars == <<free_slots, cap>>
loopVars == <<kill_sig, todo>>
dispVars == <<reply_cap, phase, caller, kill_sig, todo, running>>
vars == <<taskVars, eventVars, waitVars, signal_pending, maskVars, sigaction,
          sleepVars, next_request_id, poolVars, slotVars, ipc, suspended, dispVars>>

NoReq == [target |-> -1, options |-> {}, pgid |-> 0]
NoJob == [pid |-> 0, id |-> 0]

(***************************************************************************)
(* Init: load_init has registered and resumed the init process.            *)
(***************************************************************************)
Init ==
  /\ tasks = {1} /\ next_pid = 2
  /\ parent_pid = [p \in Pid |-> 0]
  /\ process_group_id = [p \in Pid |-> IF p = 1 THEN 1 ELSE 0]
  /\ session_id = [p \in Pid |-> IF p = 1 THEN 1 ELSE 0]
  /\ stopped = {}
  /\ child_events = [p \in Pid |-> <<>>] /\ reported = {}
  /\ wait_slot = [p \in Pid |-> NoSlot] /\ wait_req = [p \in Pid |-> NoReq]
  /\ wait4_blocked = [p \in Pid |-> {}]
  /\ signal_pending = [p \in Pid |-> {}] /\ signal_blocked = [p \in Pid |-> {}]
  /\ sigaction = [p \in Pid |-> [s \in Signal |-> "DFL"]]
  /\ in_sigsuspend = {} /\ saved_mask = [p \in Pid |-> {}]
  /\ sleep_slot = [p \in Pid |-> NoSlot] /\ sleep_req = [p \in Pid |-> 0]
  /\ next_request_id = 1
  /\ executor = <<>> /\ worker = [state |-> "idle", job |-> NoJob]
  /\ channel = <<>> /\ notified = FALSE /\ refused = {}
  /\ free_slots = Slot /\ cap = [s \in Slot |-> 0] /\ reply_cap = 0
  /\ ipc = [p \in Pid |-> IF p = 1 THEN "user" ELSE "none"]
  /\ suspended = {}
  /\ phase = "recv" /\ caller = 0 /\ kill_sig = 0 /\ todo = {}
  /\ running = TRUE

(***************************************************************************)
(* The dispatcher's side of a system call.                                 *)
(***************************************************************************)
\* A user thread traps: its message waits on the endpoint.
Call(p) ==
  /\ phase # "halted"
  /\ ipc[p] = "user" /\ p \notin suspended
  /\ ipc' = [ipc EXCEPT ![p] = "queued"]
  /\ UNCHANGED <<taskVars, eventVars, waitVars, signal_pending, maskVars,
                 sigaction, sleepVars, next_request_id, poolVars, slotVars,
                 suspended, dispVars>>

\* The dispatcher may receive p's message.
Received(p) == phase = "recv" /\ p \in tasks /\ ipc[p] = "queued"

\* The handler goes on with step ph, holding the caller's reply capability.
Continue(p, ph, sig, pids) ==
  /\ phase' = ph /\ caller' = p /\ reply_cap' = p
  /\ kill_sig' = sig /\ todo' = pids
  /\ ipc' = [ipc EXCEPT ![p] = "awaiting"]
  /\ UNCHANGED running

\* The handler has its result: the signal check and the reply follow.
Returns(p) == Continue(p, "return", 0, {})

\* The handler is done: the dispatcher goes to ph without a reply to give.
Done(ph) == phase' = ph /\ caller' = 0 /\ kill_sig' = 0 /\ todo' = {} /\ reply_cap' = 0

\* The handler moved the reply capability to slot s and returned Err(Success).
Deferred(p, s) ==
  /\ free_slots' = free_slots \ {s}
  /\ cap' = [cap EXCEPT ![s] = p]
  /\ ipc' = [ipc EXCEPT ![p] = "awaiting"]
  /\ UNCHANGED dispVars

\* Slots S are answered or dropped: delete the capabilities, free the slots.
Release(S) ==
  /\ free_slots' = free_slots \cup S
  /\ cap' = [s \in Slot |-> IF s \in S THEN 0 ELSE cap[s]]

Slots(S) == S \ {NoSlot}

(***************************************************************************)
(* Signals: queue_process_signal on process t, whose pending set becomes   *)
(* pend.  A deliverable signal interrupts t's sleep with EINTR and ends    *)
(* its sigsuspend: the saved mask is restored and the thread resumed.      *)
(***************************************************************************)
Deliverable(p) == signal_pending[p] \ signal_blocked[p]
Delivers(t, pend) == pend \ signal_blocked[t] # {}
\* Mutant of EndsSigsuspend: tests the mask of before the sigsuspend.
EndsSigsuspendOldMask(t, pend) == pend \ saved_mask[t] # {} /\ t \in in_sigsuspend
EndsSigsuspend(t, pend) == Delivers(t, pend) /\ t \in in_sigsuspend

interrupt_pending_sleep_reply(t, pend) ==
  LET S == IF Delivers(t, pend) THEN Slots({sleep_slot[t]}) ELSE {}
  IN  /\ Release(S)
      /\ sleep_slot' = IF S = {} THEN sleep_slot ELSE [sleep_slot EXCEPT ![t] = NoSlot]
      /\ sleep_req' = IF S = {} THEN sleep_req ELSE [sleep_req EXCEPT ![t] = 0]
      /\ ipc' = [p \in Pid |-> IF p \in {cap[s] : s \in S} THEN "user" ELSE ipc[p]]

restore_mask_from_sigsuspend_wait(t, ends) ==
  /\ in_sigsuspend' = IF ends THEN in_sigsuspend \ {t} ELSE in_sigsuspend
  /\ signal_blocked' = IF ends /\ t \in in_sigsuspend
                       THEN [signal_blocked EXCEPT ![t] = saved_mask[t] \ UnblockableMask]
                       ELSE signal_blocked
  /\ saved_mask' = IF ends THEN [saved_mask EXCEPT ![t] = {}] ELSE saved_mask

queue_process_signal(t, pend) ==
  /\ signal_pending' = [signal_pending EXCEPT ![t] = pend]
  /\ interrupt_pending_sleep_reply(t, pend)
  /\ restore_mask_from_sigsuspend_wait(t, EndsSigsuspend(t, pend))

\* record_child_stopped / record_child_continued: child c's event, if it has a parent.
RecordChange(c, kind) ==
  child_events' = [p \in Pid |->
    IF p = parent_pid[c]
    THEN Append(child_events[p], [child |-> c, pgid |-> process_group_id[c], kind |-> kind])
    ELSE child_events[p]]

(***************************************************************************)
(* terminate_process(t).  The parent's queue gets the exit; a parent       *)
(* blocked in wait4 is answered if an event now matches its request or it  *)
(* has no child left that could (try_wake_pending_wait4_reply); any other  *)
(* live parent gets SIGCHLD.                                               *)
(***************************************************************************)
\* Mutant of has_live_child_matching: any process counts as a child.
has_live_process_matching(p, req, alive) ==
  \E c \in alive : matches_wait_target(c, process_group_id[c], req)
has_live_child_matching(p, req, alive) ==
  \E c \in alive : parent_pid[c] = p /\ matches_wait_target(c, process_group_id[c], req)

ExitEvent(t) == [child |-> t, pgid |-> process_group_id[t], kind |-> "Exited"]
QueueAtExit(t) == Append(child_events[parent_pid[t]], ExitEvent(t))

\* Mutant of WaitSatisfied: looks at the queue before the exit is recorded.
WaitSatisfiedEarly(t) ==
  LET par == parent_pid[t]
  IN  /\ par # 0 /\ wait_slot[par] # NoSlot
      /\ has_child_event_matching(child_events[par], wait_req[par])

\* The parent is blocked in wait4 and an event of its queue satisfies it.
WaitSatisfied(t) ==
  LET par == parent_pid[t]
  IN  /\ par # 0 /\ wait_slot[par] # NoSlot
      /\ has_child_event_matching(QueueAtExit(t), wait_req[par])

\* The parent is blocked in wait4 and has lost its last matching child: ECHILD.
WaitHopeless(t) ==
  LET par == parent_pid[t]
  IN  /\ par # 0 /\ wait_slot[par] # NoSlot
      /\ ~has_child_event_matching(QueueAtExit(t), wait_req[par])
      /\ ~has_live_child_matching(par, wait_req[par], tasks \ {t})

WaitAnswered(t) == WaitSatisfied(t) \/ WaitHopeless(t)

\* The fallback: no reply was pending but the parent is marked blocked.
ResumesWait4(t) ==
  /\ ~WaitAnswered(t) /\ parent_pid[t] \in tasks
  /\ \E r \in wait4_blocked[parent_pid[t]] :
        matches_wait_target(t, process_group_id[t], r)

\* The parent's wait4_blocked is cleared on both paths.
clear_wait4_block(p, t) == p = parent_pid[t] /\ (WaitAnswered(t) \/ ResumesWait4(t))

GetsSigchld(p, t) == p = parent_pid[t] /\ p \in tasks /\ ~WaitAnswered(t)
PendingAtExit(p, t) == IF GetsSigchld(p, t) THEN signal_pending[p] \cup {SIGCHLD}
                       ELSE signal_pending[p]
\* Mutant of SigchldInterrupts: SIGCHLD is queued without waking a sleeper.
SigchldEndsOnlySigsuspend(p, t) ==
  GetsSigchld(p, t) /\ Delivers(p, PendingAtExit(p, t)) /\ p \in in_sigsuspend
SigchldInterrupts(p, t) == GetsSigchld(p, t) /\ Delivers(p, PendingAtExit(p, t))
SigchldEndsSigsuspend(p, t) == SigchldInterrupts(p, t) /\ p \in in_sigsuspend

\* Mutant of AnsweredAtExit: the interrupted sleep is forgotten, not answered.
AnsweredAtExitWaitOnly(t) ==
  IF parent_pid[t] \in Pid /\ WaitAnswered(t) THEN {wait_slot[parent_pid[t]]} ELSE {}

\* The slots of the parent's replies that the exit answers.
AnsweredAtExit(t) ==
  LET par == parent_pid[t]
  IN  IF par \notin Pid THEN {}
      ELSE IF WaitAnswered(t) THEN {wait_slot[par]}
      ELSE IF SigchldInterrupts(par, t) THEN Slots({sleep_slot[par]})
      ELSE {}

\* Mutant of DroppedAtExit: the reply of a pending wait4 is not dropped.
DroppedAtExitSleepOnly(t) == Slots({sleep_slot[t]})

\* The slots of t's own pending replies, dropped without a reply.
DroppedAtExit(t) == Slots({wait_slot[t], sleep_slot[t]})

\* The exit that taking the oldest match of req from queue reports, if it is one.
ExitTaken(queue, req) ==
  LET e == queue[OldestMatch(queue, req)]
  IN  IF e.kind = "Exited" THEN {e.child} ELSE {}

remove_process(t) ==
  /\ tasks' = tasks \ {t}
  /\ process_group_id' = [process_group_id EXCEPT ![t] = 0]
  /\ session_id' = [session_id EXCEPT ![t] = 0]
  /\ stopped' = stopped \ {t}
  /\ sigaction' = [sigaction EXCEPT ![t] = [s \in Signal |-> "DFL"]]
  /\ UNCHANGED <<next_pid, parent_pid>>

record_child_exit(t) ==
  /\ child_events' = [p \in Pid |->
    IF p # parent_pid[t] THEN child_events[p]
    ELSE IF WaitSatisfied(t) THEN pop_child_event_matching(QueueAtExit(t), wait_req[p])
    ELSE QueueAtExit(t)]
  /\ reported' = IF WaitSatisfied(t)
                 THEN reported \cup ExitTaken(QueueAtExit(t), wait_req[parent_pid[t]])
                 ELSE reported

terminate_process(t) ==
  LET par == parent_pid[t]
      answered == AnsweredAtExit(t)
  IN  /\ remove_process(t)
      /\ record_child_exit(t)
      /\ wait_slot' = [p \in Pid |-> IF p = t \/ (p = par /\ WaitAnswered(t))
                                     THEN NoSlot ELSE wait_slot[p]]
      /\ wait_req' = [p \in Pid |-> IF p = t \/ (p = par /\ WaitAnswered(t))
                                    THEN NoReq ELSE wait_req[p]]
      /\ wait4_blocked' = [p \in Pid |-> IF p = t \/ clear_wait4_block(p, t)
                                         THEN {} ELSE wait4_blocked[p]]
      /\ signal_pending' = [p \in Pid |-> IF p = t THEN {} ELSE PendingAtExit(p, t)]
      /\ in_sigsuspend' = {p \in in_sigsuspend : p # t /\ ~SigchldEndsSigsuspend(p, t)}
      /\ signal_blocked' = [p \in Pid |->
           IF p = t THEN {}
           ELSE IF SigchldEndsSigsuspend(p, t) THEN saved_mask[p] \ UnblockableMask
           ELSE signal_blocked[p]]
      /\ saved_mask' = [p \in Pid |->
           IF p = t \/ SigchldEndsSigsuspend(p, t) THEN {} ELSE saved_mask[p]]
      /\ suspended' = {p \in suspended :
           /\ p # t /\ ~SigchldEndsSigsuspend(p, t)
           /\ ~(p = par /\ ResumesWait4(t))}
      /\ sleep_slot' = [p \in Pid |-> IF p = t \/ SigchldInterrupts(p, t)
                                      THEN NoSlot ELSE sleep_slot[p]]
      /\ sleep_req' = [p \in Pid |-> IF p = t \/ SigchldInterrupts(p, t)
                                     THEN 0 ELSE sleep_req[p]]
      /\ Release(answered \cup DroppedAtExit(t))
      /\ ipc' = [p \in Pid |-> IF p = t THEN "none"
                               ELSE IF p \in {cap[s] : s \in answered} THEN "user"
                               ELSE ipc[p]]
      /\ UNCHANGED <<next_request_id, poolVars, running>>

\* Where the dispatcher goes after its caller p has been terminated: the fixed
\* reply slot is deleted; the death of init is a panic.
AfterExit(p) == Done(IF p = 1 THEN "halted" ELSE "recv")

\* exit, exit_group, sys_stub_kill, and every fault that is fatal.
SysExit(p) == Received(p) /\ terminate_process(p) /\ AfterExit(p)

\* A page fault that was resolved: the thread goes on.
PageFaultResolved(p) ==
  /\ Received(p)
  /\ ipc' = [ipc EXCEPT ![p] = "user"]
  /\ UNCHANGED <<taskVars, eventVars, waitVars, signal_pending, maskVars,
                 sigaction, sleepVars, next_request_id, poolVars, slotVars,
                 suspended, dispVars>>

\* A fault handler failed with an error other than Success: "Dispatch error" is
\* logged and nobody replies, the next message overwrites the reply capability.
FaultUnanswered(p) ==
  /\ Received(p)
  /\ ipc' = [ipc EXCEPT ![p] = "faulted"]
  /\ UNCHANGED <<taskVars, eventVars, waitVars, signal_pending, maskVars,
                 sigaction, sleepVars, next_request_id, poolVars, slotVars,
                 suspended, dispVars>>

(***************************************************************************)
(* fork / clone.  The child is registered first, with a fresh TaskStruct;  *)
(* an error while its memory is mapped leaves it so, an error on its TCB   *)
(* leaves it with its parent's attributes; both leave it never started.    *)
(***************************************************************************)
register_process(p, copied) ==
  LET c == next_pid
  IN  /\ next_pid <= MaxPid
      /\ next_pid' = next_pid + 1
      /\ tasks' = tasks \cup {c}
      /\ parent_pid' = [parent_pid EXCEPT ![c] = p]
      /\ process_group_id' =
           [process_group_id EXCEPT ![c] = IF copied THEN process_group_id[p] ELSE c]
      /\ session_id' = [session_id EXCEPT ![c] = IF copied THEN session_id[p] ELSE c]
      /\ stopped' = IF copied /\ p \in stopped THEN stopped \cup {c} ELSE stopped
      /\ signal_blocked' =
           [signal_blocked EXCEPT ![c] = IF copied THEN signal_blocked[p] ELSE {}]
      /\ sigaction' = IF copied THEN [sigaction EXCEPT ![c] = sigaction[p]] ELSE sigaction

SysFork(p, outcome) ==
  /\ Received(p)
  /\ register_process(p, outcome # "unmapped")
  /\ ipc' = [ipc EXCEPT ![p] = "awaiting", ![next_pid] = "user"]
  /\ suspended' = IF outcome = "started" THEN suspended ELSE suspended \cup {next_pid}
  /\ phase' = "return" /\ caller' = p /\ reply_cap' = p
  /\ UNCHANGED <<eventVars, waitVars, signal_pending, in_sigsuspend, saved_mask,
                 sleepVars, next_request_id, poolVars, slotVars, loopVars, running>>

(***************************************************************************)
(* wait4                                                                   *)
(***************************************************************************)
WaitUnchanged == UNCHANGED <<taskVars, signal_pending, maskVars, sigaction, sleepVars,
                             next_request_id, poolVars, suspended>>

SysWait4(p, target, options) ==
  LET req == [target |-> target, options |-> options, pgid |-> process_group_id[p]]
      ready == has_child_event_matching(child_events[p], req)
      child == has_live_child_matching(p, req, tasks)
  IN  /\ Received(p)
      /\ WaitUnchanged
      /\ \/ \* an event is waiting: report it
            /\ ready
            /\ child_events' = [child_events EXCEPT ![p] = pop_child_event_matching(@, req)]
            /\ reported' = reported \cup ExitTaken(child_events[p], req)
            /\ wait4_blocked' = [wait4_blocked EXCEPT ![p] = {}]
            /\ Returns(p)
            /\ UNCHANGED <<wait_slot, wait_req, slotVars>>
         \/ \* ECHILD, or 0 under WNOHANG, or an errno: WouldBlock, no slot left
            /\ ~ready
            /\ wait4_blocked' = [wait4_blocked EXCEPT ![p] = {}]
            /\ Returns(p)
            /\ UNCHANGED <<eventVars, wait_slot, wait_req, slotVars>>
         \/ \* block until a child exits
            /\ ~ready /\ child /\ "WNOHANG" \notin options
            /\ wait_slot[p] = NoSlot
            /\ \E s \in free_slots :
                 /\ wait_slot' = [wait_slot EXCEPT ![p] = s]
                 /\ Deferred(p, s)
            /\ wait_req' = [wait_req EXCEPT ![p] = req]
            /\ wait4_blocked' = [wait4_blocked EXCEPT
                                   ![p] = {[target |-> target, pgid |-> req.pgid]}]
            /\ UNCHANGED eventVars

(***************************************************************************)
(* Sessions and groups                                                     *)
(***************************************************************************)
GroupUnchanged == UNCHANGED <<tasks, next_pid, parent_pid, stopped, eventVars, waitVars,
                              signal_pending, maskVars, sigaction, sleepVars,
                              next_request_id, poolVars, slotVars, suspended>>

SysSetsid(p) ==
  /\ Received(p)
  /\ process_group_id[p] # p
  /\ session_id' = [session_id EXCEPT ![p] = p]
  /\ process_group_id' = [process_group_id EXCEPT ![p] = p]
  /\ Returns(p)
  /\ GroupUnchanged

\* The group setpgid(t, g) moves t to.
NewGroup(t, g) == IF g = 0 THEN t ELSE g

\* Mutant of SysSetpgid: the checks read 0 as t, the assignment stores it.
SysSetpgidRaw(p, t, g) ==
  LET new_pgid == NewGroup(t, g)
  IN  /\ Received(p)
      /\ t \in tasks
      /\ t # p => parent_pid[t] = p /\ session_id[t] = session_id[p]
      /\ new_pgid # t => new_pgid \in tasks /\ session_id[new_pgid] = session_id[t]
      /\ process_group_id' = [process_group_id EXCEPT ![t] = g]
      /\ Returns(p)
      /\ UNCHANGED session_id
      /\ GroupUnchanged

\* setpgid(t, g) by p, past its permission checks (a refusal is OtherSyscall).
SysSetpgid(p, t, g) ==
  LET new_pgid == NewGroup(t, g)
  IN  /\ Received(p)
      /\ t \in tasks
      /\ t # p => parent_pid[t] = p /\ session_id[t] = session_id[p]
      /\ new_pgid # t => new_pgid \in tasks /\ session_id[new_pgid] = session_id[t]
      /\ process_group_id' = [process_group_id EXCEPT ![t] = new_pgid]
      /\ Returns(p)
      /\ UNCHANGED session_id
      /\ GroupUnchanged

(***************************************************************************)
(* kill                                                                    *)
(***************************************************************************)
KillTargetsOf(p, target) ==
  {t \in tasks : \/ target > 0 /\ t = target
                 \/ target = 0 /\ process_group_id[t] = process_group_id[p]
                 \/ target = -1
                 \/ target < -1 /\ process_group_id[t] = -target}

LoopUnchanged == UNCHANGED <<taskVars, eventVars, waitVars, signal_pending, maskVars,
                             sigaction, sleepVars, next_request_id, poolVars, slotVars,
                             suspended>>

SysKill(p, target, sig) ==
  /\ Received(p)
  /\ KillTargetsOf(p, target) # {}
  /\ is_stop_signal(sig) \/ sig = SIGCONT =>
       \A q \in Pid : Len(child_events[q]) < MaxEvents
  /\ Continue(p, "kill", sig, KillTargetsOf(p, target))
  /\ LoopUnchanged

\* The loops go through the pids in ascending order; SIGKILL leaves the caller
\* for the end.
NextTarget(t, last) ==
  /\ t \in todo
  /\ t \in last => todo \subseteq last
  /\ \A u \in todo \ last : t \notin last => t <= u

KillStepDone(t) ==
  /\ todo' = todo \ {t}
  /\ phase' = IF todo' = {} THEN "return" ELSE "kill"
  /\ kill_sig' = IF todo' = {} THEN 0 ELSE kill_sig
  /\ UNCHANGED <<caller, reply_cap, running>>

KillTerminate(t) ==
  /\ phase = "kill" /\ kill_sig = SIGKILL
  /\ NextTarget(t, {caller})
  /\ terminate_process(t)
  /\ IF t = caller \/ t = 1 THEN AfterExit(t) ELSE
       /\ todo' = todo \ {t}
       /\ phase' = IF todo' = {} THEN "return" ELSE "kill"
       /\ kill_sig' = IF todo' = {} THEN 0 ELSE kill_sig
       /\ UNCHANGED <<caller, reply_cap>>

KillUnchanged == UNCHANGED <<tasks, next_pid, parent_pid, process_group_id, session_id,
                             reported, waitVars, sigaction, next_request_id, poolVars>>

KillContinue(t) ==
  LET pend == {s \in signal_pending[t] : ~is_stop_signal(s)} \cup {SIGCONT}
  IN  /\ phase = "kill" /\ kill_sig = SIGCONT
      /\ NextTarget(t, {})
      /\ queue_process_signal(t, pend)
      /\ stopped' = stopped \ {t}
      /\ suspended' = suspended \ {t}
      /\ IF t \in stopped THEN RecordChange(t, "Continued") ELSE UNCHANGED child_events
      /\ KillStepDone(t)
      /\ KillUnchanged

KillStop(t) ==
  LET pend == signal_pending[t] \cup {kill_sig}
      awake == IF EndsSigsuspend(t, pend) THEN suspended \ {t} ELSE suspended
  IN  /\ phase = "kill" /\ is_stop_signal(kill_sig)
      /\ NextTarget(t, {})
      /\ queue_process_signal(t, pend)
      /\ stopped' = IF t = caller THEN stopped ELSE stopped \cup {t}
      /\ suspended' = IF t = caller THEN awake ELSE suspended \cup {t}
      /\ IF t \in stopped THEN UNCHANGED child_events ELSE RecordChange(t, "Stopped")
      /\ KillStepDone(t)
      /\ KillUnchanged

KillOther(t) ==
  LET pend == signal_pending[t] \cup {kill_sig}
  IN  /\ phase = "kill" /\ kill_sig # SIGKILL /\ kill_sig # SIGCONT
      /\ ~is_stop_signal(kill_sig)
      /\ NextTarget(t, {})
      /\ queue_process_signal(t, pend)
      /\ suspended' = IF EndsSigsuspend(t, pend) THEN suspended \ {t} ELSE suspended
      /\ KillStepDone(t)
      /\ UNCHANGED <<stopped, child_events>>
      /\ KillUnchanged

(***************************************************************************)
(* Signal state of the caller                                              *)
(***************************************************************************)
SigUnchanged == UNCHANGED <<taskVars, eventVars, waitVars, sleepVars,
                            next_request_id, poolVars, slotVars>>

SysSigaction(p, sig, act) ==
  /\ Received(p)
  /\ sig \notin UnblockableMask
  /\ sigaction' = [sigaction EXCEPT ![p] = [@ EXCEPT ![sig] = act]]
  /\ Returns(p)
  /\ UNCHANGED <<signal_pending, maskVars, suspended>>
  /\ SigUnchanged

SysSigprocmask(p, how, set) ==
  /\ Received(p)
  /\ LET mask == CASE how = "BLOCK" -> signal_blocked[p] \cup set
                   [] how = "UNBLOCK" -> signal_blocked[p] \ set
                   [] how = "SETMASK" -> set
     IN  signal_blocked' = [signal_blocked EXCEPT ![p] = mask \ UnblockableMask]
  /\ Returns(p)
  /\ UNCHANGED <<signal_pending, in_sigsuspend, saved_mask, sigaction, suspended>>
  /\ SigUnchanged

\* pop_pending_signal_from_mask takes the lowest-numbered signal of the set.
Lowest(s, set) == s \in set /\ \A u \in set : s <= u

\* rt_sigtimedwait takes a pending signal of the set; with the manager locked no
\* signal arrives while it polls, so without one it ends in EAGAIN (OtherSyscall).
SysSigtimedwait(p, set) ==
  /\ Received(p)
  /\ \E s \in Signal :
       /\ Lowest(s, signal_pending[p] \cap set)
       /\ signal_pending' = [signal_pending EXCEPT ![p] = @ \ {s}]
  /\ Returns(p)
  /\ UNCHANGED <<maskVars, sigaction, suspended>>
  /\ SigUnchanged

SysSigsuspend(p, set) ==
  LET mask == set \ UnblockableMask
      ready == signal_pending[p] \ mask
  IN  /\ Received(p)
      /\ \/ \* a signal is deliverable under the new mask: take it, mask unchanged
            /\ \E s \in Signal :
                 /\ Lowest(s, ready)
                 /\ signal_pending' = [signal_pending EXCEPT ![p] = @ \ {s}]
            /\ UNCHANGED <<maskVars, suspended>>
         \/ \* remember the old mask and suspend the thread
            /\ ready = {}
            /\ signal_blocked' = [signal_blocked EXCEPT ![p] = mask]
            /\ saved_mask' = [saved_mask EXCEPT ![p] = signal_blocked[p]]
            /\ in_sigsuspend' = in_sigsuspend \cup {p}
            /\ suspended' = suspended \cup {p}
            /\ UNCHANGED signal_pending
      /\ Returns(p)
      /\ UNCHANGED sigaction
      /\ SigUnchanged

SysSigreturn(p) ==
  /\ Received(p)
  /\ restore_mask_from_sigsuspend_wait(p, TRUE)
  /\ Returns(p)
  /\ UNCHANGED <<signal_pending, sigaction, suspended>>
  /\ SigUnchanged

(***************************************************************************)
(* nanosleep and the async runtime                                         *)
(***************************************************************************)
SysNanosleep(p) ==
  /\ Received(p)
  /\ Deliverable(p) = {}                    \* otherwise EINTR: OtherSyscall
  /\ next_request_id <= MaxReq
  /\ \E s \in free_slots :
       /\ sleep_slot' = [sleep_slot EXCEPT ![p] = s]
       /\ Deferred(p, s)
  /\ sleep_req' = [sleep_req EXCEPT ![p] = next_request_id]
  /\ next_request_id' = next_request_id + 1
  /\ IF Len(executor) < QueueCapacity       \* the result of spawn is ignored
     THEN /\ executor' = Append(executor, [pid |-> p, id |-> next_request_id])
          /\ UNCHANGED refused
     ELSE /\ refused' = refused \cup {next_request_id}
          /\ UNCHANGED executor
  /\ UNCHANGED <<taskVars, eventVars, waitVars, signal_pending, maskVars, sigaction,
                 worker, channel, notified, suspended>>

AsyncUnchanged == UNCHANGED <<taskVars, eventVars, waitVars, signal_pending, maskVars,
                              sigaction, next_request_id, refused, suspended>>

\* The worker runs the oldest job: it sleeps, sends the completion, notifies.
WorkerTake ==
  /\ worker.state = "idle" /\ executor # <<>>
  /\ worker' = [state |-> "sleep", job |-> Head(executor)]
  /\ executor' = Tail(executor)
  /\ UNCHANGED <<channel, notified, sleepVars, slotVars, ipc, dispVars>>
  /\ AsyncUnchanged

\* Mutant of WorkerSend: a full channel drops the completion.
WorkerTrySend ==
  /\ worker.state = "sleep"
  /\ channel' = IF Len(channel) < ChanCapacity THEN Append(channel, worker.job) ELSE channel
  /\ worker' = [worker EXCEPT !.state = "notify"]
  /\ UNCHANGED <<executor, notified, sleepVars, slotVars, ipc, dispVars>>
  /\ AsyncUnchanged

WorkerSend ==
  /\ worker.state = "sleep" /\ Len(channel) < ChanCapacity
  /\ channel' = Append(channel, worker.job)
  /\ worker' = [worker EXCEPT !.state = "notify"]
  /\ UNCHANGED <<executor, notified, sleepVars, slotVars, ipc, dispVars>>
  /\ AsyncUnchanged

\* Mutant of WorkerNotify: the worker forgets to notify.
WorkerSilent ==
  /\ worker.state = "notify"
  /\ worker' = [state |-> "idle", job |-> NoJob]
  /\ UNCHANGED <<executor, channel, notified, sleepVars, slotVars, ipc, dispVars>>
  /\ AsyncUnchanged

WorkerNotify ==
  /\ worker.state = "notify"
  /\ worker' = [state |-> "idle", job |-> NoJob]
  /\ notified' = TRUE
  /\ UNCHANGED <<executor, channel, sleepVars, slotVars, ipc, dispVars>>
  /\ AsyncUnchanged

\* The dispatcher receives the notification and drains the channel.
DrainStart ==
  /\ phase = "recv" /\ notified
  /\ notified' = FALSE /\ phase' = "drain"
  /\ UNCHANGED <<executor, worker, channel, sleepVars, slotVars, ipc,
                 reply_cap, caller, loopVars, running>>
  /\ AsyncUnchanged

\* Mutant of Completes: any completion of the process ends its sleep.
CompletesAnyRequest(job) == sleep_slot[job.pid] # NoSlot

\* complete_sleep_reply: only the completion of the pending request answers it.
Completes(job) == sleep_slot[job.pid] # NoSlot /\ sleep_req[job.pid] = job.id

DrainEvent ==
  /\ phase = "drain" /\ channel # <<>>
  /\ LET job == Head(channel)
         S == IF Completes(job) THEN {sleep_slot[job.pid]} ELSE {}
     IN  /\ channel' = Tail(channel)
         /\ Release(S)
         /\ sleep_slot' = IF S = {} THEN sleep_slot
                          ELSE [sleep_slot EXCEPT ![job.pid] = NoSlot]
         /\ sleep_req' = IF S = {} THEN sleep_req ELSE [sleep_req EXCEPT ![job.pid] = 0]
         /\ ipc' = [p \in Pid |-> IF p \in {cap[s] : s \in S} THEN "user" ELSE ipc[p]]
  /\ UNCHANGED <<executor, worker, notified, dispVars>>
  /\ AsyncUnchanged

\* Mutant of DrainDone: the drain may end with events left.
DrainDoneEarly ==
  /\ phase = "drain"
  /\ phase' = "recv"
  /\ UNCHANGED <<executor, worker, channel, notified, sleepVars, slotVars, ipc,
                 reply_cap, caller, loopVars, running>>
  /\ AsyncUnchanged

DrainDone ==
  /\ phase = "drain" /\ channel = <<>>
  /\ phase' = "recv"
  /\ UNCHANGED <<executor, worker, channel, notified, sleepVars, slotVars, ipc,
                 reply_cap, caller, loopVars, running>>
  /\ AsyncUnchanged

(***************************************************************************)
(* reboot                                                                  *)
(***************************************************************************)
\* RESTART: everyone but init is terminated, the caller too.
SysReboot(p) ==
  /\ Received(p)
  /\ Continue(p, "reboot", 0, tasks \ {1})
  /\ LoopUnchanged

RebootTerminate(t) ==
  /\ phase = "reboot"
  /\ NextTarget(t, {})
  /\ terminate_process(t)
  /\ todo' = todo \ {t}
  /\ reply_cap' = IF t = caller THEN 0 ELSE reply_cap
  /\ UNCHANGED <<phase, caller, kill_sig>>

\* init gets a new image; its thread is resumed when exec succeeds and init is
\* not the caller.  The handler then returns, its caller possibly gone.
RebootExec(ok) ==
  /\ phase = "reboot" /\ todo = {}
  /\ phase' = "return"
  /\ suspended' = IF ok /\ caller # 1 THEN suspended \ {1} ELSE suspended
  /\ UNCHANGED <<taskVars, eventVars, waitVars, signal_pending, maskVars, sigaction,
                 sleepVars, next_request_id, poolVars, slotVars, ipc,
                 reply_cap, caller, loopVars, running>>

\* POWER_OFF and HALT: the dispatcher exits after this reply.
SysPowerOff(p) ==
  /\ Received(p)
  /\ running' = FALSE
  /\ phase' = "return" /\ caller' = p /\ reply_cap' = p
  /\ ipc' = [ipc EXCEPT ![p] = "awaiting"]
  /\ UNCHANGED <<taskVars, eventVars, waitVars, signal_pending, maskVars, sigaction,
                 sleepVars, next_request_id, poolVars, slotVars, suspended, loopVars>>

\* Any call that returns without touching this state: queries, file and memory
\* calls, and the error returns of the calls above.
OtherSyscall(p) == Received(p) /\ Returns(p) /\ LoopUnchanged

(***************************************************************************)
(* Return from a system call: one deliverable signal is consumed, then the *)
(* dispatcher replies.                                                     *)
(***************************************************************************)
AfterReply == IF running THEN "recv" ELSE "halted"

Reply ==
  /\ Done(AfterReply)
  /\ ipc' = [p \in Pid |-> IF p = reply_cap THEN "user" ELSE ipc[p]]
  /\ UNCHANGED running

ReturnUnchanged == UNCHANGED <<tasks, next_pid, parent_pid, process_group_id, session_id,
                               reported, waitVars, maskVars, sigaction, sleepVars,
                               next_request_id, poolVars, slotVars>>

\* No deliverable signal, or a caller that reboot terminated.
ReturnPlain ==
  /\ phase = "return"
  /\ caller \in tasks => Deliverable(caller) = {}
  /\ Reply
  /\ UNCHANGED <<signal_pending, stopped, suspended, child_events>>
  /\ ReturnUnchanged

\* The caller's lowest deliverable signal is s, and is consumed.
Consumes(s) ==
  /\ phase = "return" /\ caller \in tasks
  /\ Lowest(s, Deliverable(caller))

PopSignal(s) == signal_pending' = [signal_pending EXCEPT ![caller] = @ \ {s}]

\* Ignored, or handed to the user's handler.
ReturnHandled(s) ==
  /\ Consumes(s)
  /\ sigaction[caller][s] # "DFL" \/ default_ignored_signal(s)
  /\ PopSignal(s)
  /\ Reply
  /\ UNCHANGED <<stopped, suspended, child_events>>
  /\ ReturnUnchanged

ReturnStopped(s) ==
  /\ Consumes(s)
  /\ sigaction[caller][s] = "DFL" /\ is_stop_signal(s)
  /\ PopSignal(s)
  /\ stopped' = stopped \cup {caller}
  /\ suspended' = suspended \cup {caller}
  /\ IF caller \in stopped THEN UNCHANGED child_events ELSE RecordChange(caller, "Stopped")
  /\ Reply
  /\ ReturnUnchanged

ReturnContinued(s) ==
  /\ Consumes(s)
  /\ sigaction[caller][s] = "DFL" /\ s = SIGCONT
  /\ PopSignal(s)
  /\ stopped' = stopped \ {caller}
  /\ suspended' = suspended \ {caller}
  /\ IF caller \in stopped THEN RecordChange(caller, "Continued") ELSE UNCHANGED child_events
  /\ Reply
  /\ ReturnUnchanged

ReturnKilled(s) ==
  /\ Consumes(s)
  /\ sigaction[caller][s] = "DFL"
  /\ ~default_ignored_signal(s) /\ ~is_stop_signal(s) /\ s # SIGCONT
  /\ terminate_process(caller)
  /\ Done(IF caller = 1 THEN "halted" ELSE AfterReply)
-----------------------------------------------------------------------------
Syscall(p) ==
  \/ SysExit(p) \/ OtherSyscall(p)
  \/ "fault" \in Calls /\ (PageFaultResolved(p) \/ FaultUnanswered(p))
  \/ "setsid" \in Calls /\ SysSetsid(p)
  \/ "sigreturn" \in Calls /\ SysSigreturn(p)
  \/ "reboot" \in Calls /\ SysReboot(p)
  \/ "poweroff" \in Calls /\ SysPowerOff(p)
  \/ \E outcome \in ForkOutcomes : SysFork(p, outcome)
  \/ \E target \in WaitTargets, options \in WaitOptions : SysWait4(p, target, options)
  \/ \E t \in Pid, g \in Groups : SysSetpgid(p, t, g)
  \/ \E target \in KillTargets, sig \in KillSignals : SysKill(p, target, sig)
  \/ \E a \in Actions : SysSigaction(p, a[1], a[2])
  \/ \E how \in {"BLOCK", "UNBLOCK", "SETMASK"}, set \in Masks : SysSigprocmask(p, how, set)
  \/ \E set \in Masks : SysSigtimedwait(p, set) \/ SysSigsuspend(p, set)
  \/ SysNanosleep(p)

KillStep(t) == KillTerminate(t) \/ KillContinue(t) \/ KillStop(t) \/ KillOther(t)

RebootStep == (\E t \in Pid : RebootTerminate(t)) \/ (\E ok \in BOOLEAN : RebootExec(ok))

Return ==
  \/ ReturnPlain
  \/ \E s \in Signal :
       ReturnHandled(s) \/ ReturnStopped(s) \/ ReturnContinued(s) \/ ReturnKilled(s)

Worker == WorkerTake \/ WorkerSend \/ WorkerNotify

\* The steps the dispatcher takes on its own once it has received a message.
Handler == (\E t \in Pid : KillStep(t)) \/ RebootStep \/ Return \/ DrainEvent \/ DrainDone

Next ==
  \/ \E p \in Pid : Call(p) \/ Syscall(p)
  \/ Handler \/ DrainStart \/ Worker

Spec == Init /\ [][Next]_vars

\* The dispatcher and the worker are threads that keep running; the endpoint
\* serves its messages in turn, so a pending notification is received although
\* calls keep arriving.
FairSpec == Spec /\ WF_vars(Handler) /\ WF_vars(Worker) /\ SF_vars(DrainStart)

-----------------------------------------------------------------------------
(***************************************************************************)
(* Invariants                                                              *)
(***************************************************************************)
TaskType ==
  /\ tasks \subseteq Pid /\ next_pid \in 1..(MaxPid + 1)
  /\ parent_pid \in [Pid -> 0..MaxPid]
  /\ process_group_id \in [Pid -> 0..MaxPid] /\ session_id \in [Pid -> 0..MaxPid]
  /\ \A p \in tasks : process_group_id[p] \in Pid
  /\ stopped \subseteq Pid
WaitType ==
  /\ child_events \in [Pid -> Seq(Event)] /\ reported \subseteq Pid
  /\ wait_slot \in [Pid -> Slot \cup {NoSlot}]
  /\ wait_req \in [Pid -> Request \cup {NoReq}]
  /\ wait4_blocked \in [Pid -> SUBSET WaitBlock]
SignalType ==
  /\ signal_pending \in [Pid -> SUBSET Signal] /\ signal_blocked \in [Pid -> SUBSET Signal]
  /\ sigaction \in [Pid -> [Signal -> Disposition]]
  /\ in_sigsuspend \subseteq Pid /\ saved_mask \in [Pid -> SUBSET Signal]
SleepType ==
  /\ sleep_slot \in [Pid -> Slot \cup {NoSlot}] /\ sleep_req \in [Pid -> 0..MaxReq]
  /\ next_request_id \in 1..(MaxReq + 1)
  /\ executor \in Seq(SleepJob) /\ channel \in Seq(SleepJob)
  /\ worker \in [state : {"idle", "sleep", "notify"}, job : SleepJob \cup {NoJob}]
  /\ worker.state # "idle" => worker.job \in SleepJob
  /\ notified \in BOOLEAN /\ refused \subseteq 1..MaxReq
ThreadType ==
  /\ free_slots \subseteq Slot /\ cap \in [Slot -> 0..MaxPid]
  /\ ipc \in [Pid -> {"none", "user", "queued", "awaiting", "faulted"}]
  /\ suspended \subseteq Pid
DispatcherType ==
  /\ reply_cap \in 0..MaxPid /\ caller \in 0..MaxPid /\ running \in BOOLEAN
  /\ phase \in {"recv", "kill", "reboot", "drain", "return", "halted"}
  /\ kill_sig \in Signal \cup {0} /\ todo \subseteq tasks
  /\ phase = "kill" => kill_sig \in Signal

\* Every variable has its type; a loop in progress has live targets, and a kill
\* loop a signal to send.
TypeOK ==
  TaskType /\ WaitType /\ SignalType /\ SleepType /\ ThreadType /\ DispatcherType

\* Each slot a deferred reply holds is allocated, holds the reply capability of
\* that very process, and serves one reply only; every other slot is free and
\* empty.  Freeing a slot twice, keeping it after the reply or after the
\* process died, or leaking it breaks this.
SlotHeldBy(s, p) == s # NoSlot => p \in tasks /\ s \notin free_slots /\ cap[s] = p
ReplySlotOwnership ==
  /\ \A p \in Pid : /\ SlotHeldBy(wait_slot[p], p) /\ SlotHeldBy(sleep_slot[p], p)
                    /\ wait_slot[p] = NoSlot \/ sleep_slot[p] = NoSlot
  /\ \A s \in Slot : \/ s \in free_slots /\ cap[s] = 0
                     \/ \E p \in Pid : s = wait_slot[p] \/ s = sleep_slot[p]

\* A thread blocked in a system call has exactly one answer coming: the handler
\* in progress, its pending wait4 or its pending nanosleep; no one else has.
NoStrandedCaller ==
  phase # "halted" => \A p \in Pid :
    /\ ipc[p] = "awaiting" <=>
         reply_cap = p \/ wait_slot[p] # NoSlot \/ sleep_slot[p] # NoSlot
    /\ reply_cap = p => wait_slot[p] = NoSlot /\ sleep_slot[p] = NoSlot

\* Reply slots and blocked callers match one to one: every blocked caller of
\* the server is owed one reply, through a capability that is its own, and no
\* slot is held for anything else.
RepliesOwed == ReplySlotOwnership /\ NoStrandedCaller

\* Nobody stays blocked in wait4 while an exit that satisfies the request is
\* already in the queue: terminate_process leaves no such exit behind.
WaiterHasNoReadyExit ==
  \A p \in Pid : wait_slot[p] # NoSlot =>
    \A i \in DOMAIN child_events[p] :
      child_events[p][i].kind = "Exited" => ~EventMatches(child_events[p][i], wait_req[p])

\* Nobody stays blocked in wait4 without a living child: whoever waits can still
\* be woken by an exit, whatever setpgid did to the groups meanwhile.
WaiterHasLivingChild ==
  \A p \in Pid : wait_slot[p] # NoSlot => \E c \in tasks : parent_pid[c] = p

\* wait4_blocked is set exactly while a reply is queued, with the queued
\* request: the resume in terminate_process that bypasses the reply never runs.
WaitArmedIffQueued ==
  \A p \in Pid :
    wait4_blocked[p] = IF wait_slot[p] = NoSlot THEN {}
                       ELSE {[target |-> wait_req[p].target, pgid |-> wait_req[p].pgid]}

\* Whoever is blocked in wait4 waits for something that has not happened and
\* still can, and the two records of the wait agree.
WaitersSound == WaiterHasNoReadyExit /\ WaiterHasLivingChild /\ WaitArmedIffQueued

\* A child's events sit only in its parent's queue, and its exit is single and
\* comes after all of them; a living child has none.
ExitIsLast ==
  \A p \in Pid : \A i \in DOMAIN child_events[p] :
    LET e == child_events[p][i]
    IN  /\ parent_pid[e.child] = p
        /\ e.kind = "Exited" =>
             /\ e.child \notin tasks
             /\ \A j \in DOMAIN child_events[p] : j > i => child_events[p][j].child # e.child

\* The queue of a parent holds exactly the exits of its children that no wait4
\* has taken: none is lost, none can be taken twice.
ExitQueued(c) ==
  \E i \in DOMAIN child_events[parent_pid[c]] :
    /\ child_events[parent_pid[c]][i].child = c
    /\ child_events[parent_pid[c]][i].kind = "Exited"
ExitsConserved ==
  \A c \in Pid : parent_pid[c] # 0 =>
    (ExitQueued(c) <=> c \notin tasks /\ c \notin reported)

\* The event queues hold every unreported exit once, in its parent's queue and
\* after the child's other events, whichever events wait4 takes from the middle.
ExitQueueSound == ExitIsLast /\ ExitsConserved

\* No signal is lost on a thread that waits for one: a process in nanosleep, or
\* suspended by sigsuspend, has no deliverable signal pending.  (A stopped
\* process is suspended by job control: SIGCONT resumes a thread out of its
\* sigsuspend without ending it, and a call that thread had queued before the
\* next stop may still change its mask.)
InSigsuspendWait(p) == p \in in_sigsuspend /\ p \in suspended /\ p \notin stopped
NoDeliverableWhileBlocked ==
  \A p \in Pid : sleep_slot[p] # NoSlot \/ InSigsuspendWait(p) => Deliverable(p) = {}

\* A pending nanosleep has its timer somewhere between the executor and the
\* completion channel, unless the executor refused it.
SleepJobInFlight ==
  \A p \in Pid : sleep_slot[p] # NoSlot =>
    LET job == [pid |-> p, id |-> sleep_req[p]]
    IN  \/ job.id \in refused
        \/ \E i \in DOMAIN executor : executor[i] = job
        \/ worker.state = "sleep" /\ worker.job = job
        \/ \E i \in DOMAIN channel : channel[i] = job

\* A completion in the channel is never forgotten: the dispatcher is draining,
\* has a notification pending, or the worker is about to notify.
CompletionNotified ==
  channel # <<>> => phase \in {"drain", "halted"} \/ notified \/ worker.state = "notify"

(***************************************************************************)
(* Action and temporal properties                                          *)
(***************************************************************************)
\* A nanosleep ends only with its process, for a signal that is deliverable to
\* it, or by the completion of its own request, never by a late completion of
\* an earlier one.
SleepEndsForCause ==
  [][\A p \in Pid : sleep_slot[p] # NoSlot /\ sleep_slot'[p] = NoSlot =>
       \/ p \notin tasks'
       \/ signal_pending'[p] \ signal_blocked[p] # {}
       \/ channel # <<>> /\ Head(channel) = [pid |-> p, id |-> sleep_req[p]]]_vars

\* Every nanosleep the executor accepted ends, unless the server stops.
SleepersWake ==
  \A p \in Pid, r \in 1..MaxReq :
    sleep_req[p] = r /\ r \notin refused ~> sleep_req[p] # r \/ phase = "halted"

\* The fate of each process as its parent sees it.
LifeOf(c) ==
  IF c \in tasks THEN "alive"
  ELSE IF c >= next_pid THEN "unborn"
  ELSE IF c \in reported THEN "reported"
  ELSE "zombie"

CW == INSTANCE ChildWait WITH
  life <- [c \in Pid |-> LifeOf(c)],
  parent <- parent_pid,
  asleep <- {p \in Pid : wait_slot[p] # NoSlot}

\* Queues, deferred replies, signals and reboot implement ChildWait: no exit is
\* reported twice, to another process than the parent, or before it happens.
ImplementsChildWait == CW!Spec
=============================================================================
