----------------------- MODULE ApeProcessReplyProofs -----------------------
(***************************************************************************)
(* Every blocked caller is owed exactly one reply: the proof that the      *)
(* deferred replies of wait4 and nanosleep, the handler in progress and    *)
(* the capability slots agree (RepliesOwed), for any number of processes,  *)
(* slots, signals and requests.                                            *)
(***************************************************************************)
EXTENDS ApeProcessProofs

USE DEF Pid

(***************************************************************************)
(* The inductive invariant                                                 *)
(***************************************************************************)
\* Exactly the registered processes have a thread.
ThreadsAlive == \A p \in Pid : p \in tasks <=> ipc[p] # "none"

\* alloc_pid gives out pids that were never used.
FreshPids == \A p \in Pid : p \in tasks => p < next_pid

\* The fixed reply slot is empty between two messages and during a drain, holds
\* the caller's capability while kill runs, and is emptied by reboot when the
\* caller is among its victims.
ReplyCapHeld ==
  /\ phase \in {"recv", "drain"} => reply_cap = 0
  /\ phase = "kill" => reply_cap = caller
  /\ phase \in {"reboot", "return"} => reply_cap \in {0, caller}

RInv == RepliesOwed /\ ThreadsAlive /\ FreshPids /\ ReplyCapHeld

(***************************************************************************)
(* Slots                                                                   *)
(***************************************************************************)
\* A slot serves one process: two holders of the same slot are the same.
LEMMA SlotHolder ==
  ASSUME TypeOK, ReplySlotOwnership, NEW p \in Pid, NEW s \in Slot,
         s = wait_slot[p] \/ s = sleep_slot[p]
  PROVE  p \in tasks /\ s \notin free_slots /\ cap[s] = p
BY SlotAssumption DEF ReplySlotOwnership, SlotHeldBy

\* Releasing a set of slots and forgetting them in the two tables of deferred
\* replies keeps every slot accounted for.
LEMMA ReleaseOwnership ==
  ASSUME TypeOK, ReplySlotOwnership, NEW S \in SUBSET Slot, Release(S),
         \A p \in Pid :
           /\ wait_slot'[p] = IF wait_slot[p] \in S THEN NoSlot ELSE wait_slot[p]
           /\ sleep_slot'[p] = IF sleep_slot[p] \in S THEN NoSlot ELSE sleep_slot[p]
           /\ wait_slot'[p] # NoSlot \/ sleep_slot'[p] # NoSlot => p \in tasks'
  PROVE  ReplySlotOwnership'
<1> USE SlotAssumption DEF TypeOK, WaitType, SleepType, ThreadType
<1>1. ASSUME NEW p \in Pid
      PROVE  /\ SlotHeldBy(wait_slot[p], p)' /\ SlotHeldBy(sleep_slot[p], p)'
             /\ wait_slot'[p] = NoSlot \/ sleep_slot'[p] = NoSlot
  <2>1. wait_slot'[p] # NoSlot => /\ wait_slot'[p] = wait_slot[p] /\ wait_slot[p] \in Slot \ S
                                  /\ p \in tasks'
    OBVIOUS
  <2>2. sleep_slot'[p] # NoSlot => /\ sleep_slot'[p] = sleep_slot[p]
                                   /\ sleep_slot[p] \in Slot \ S /\ p \in tasks'
    OBVIOUS
  <2>3. \A s \in Slot \ S : cap'[s] = cap[s] /\ (s \in free_slots' <=> s \in free_slots)
    BY DEF Release
  <2> QED
    BY <2>1, <2>2, <2>3 DEF ReplySlotOwnership, SlotHeldBy
<1>2. ASSUME NEW s \in Slot
      PROVE  \/ s \in free_slots' /\ cap'[s] = 0
             \/ \E p \in Pid : s = wait_slot'[p] \/ s = sleep_slot'[p]
  <2>1. CASE s \in S
    BY <2>1 DEF Release
  <2>2. CASE s \notin S
    <3>1. CASE s \in free_slots /\ cap[s] = 0
      BY <2>2, <3>1 DEF Release
    <3>2. CASE \E p \in Pid : s = wait_slot[p] \/ s = sleep_slot[p]
      BY <2>2, <3>2
    <3> QED
      BY <3>1, <3>2 DEF ReplySlotOwnership
  <2> QED
    BY <2>1, <2>2
<1> QED
  BY <1>1, <1>2 DEF ReplySlotOwnership

\* A termination drops the replies of the dead process and may answer its
\* parent; everyone else's pending reply is untouched.
LEMMA TerminateReplies ==
  ASSUME TypeOK, ReplySlotOwnership, NEW t \in tasks, terminate_process(t)
  PROVE  /\ ReplySlotOwnership'
         /\ wait_slot'[t] = NoSlot /\ sleep_slot'[t] = NoSlot /\ ipc'[t] = "none"
         /\ \A p \in Pid \ {t} :
              \/ /\ wait_slot'[p] = wait_slot[p] /\ sleep_slot'[p] = sleep_slot[p]
                 /\ ipc'[p] = ipc[p]
              \/ /\ wait_slot[p] # NoSlot \/ sleep_slot[p] # NoSlot
                 /\ wait_slot'[p] = NoSlot /\ sleep_slot'[p] = NoSlot /\ ipc'[p] = "user"
<1> DEFINE par == parent_pid[t]
           A == AnsweredAtExit(t)
           D == DroppedAtExit(t)
<1>t. t \in Pid /\ par \in 0..MaxPid
  BY DEF TypeOK, TaskType
<1>1. \A p \in Pid : /\ wait_slot[p] \in Slot \cup {NoSlot}
                     /\ sleep_slot[p] \in Slot \cup {NoSlot}
  BY DEF TypeOK, WaitType, SleepType
<1>2. D = {wait_slot[t], sleep_slot[t]} \ {NoSlot}
  BY DEF DroppedAtExit, Slots
<1>3. /\ WaitAnswered(t) => par \in Pid /\ wait_slot[par] # NoSlot /\ A = {wait_slot[par]}
      /\ par \in Pid /\ ~WaitAnswered(t) /\ SigchldInterrupts(par, t) =>
           A = {sleep_slot[par]} \ {NoSlot}
      /\ par \in Pid /\ ~WaitAnswered(t) /\ ~SigchldInterrupts(par, t) => A = {}
      /\ par \notin Pid => A = {}
  <2>1. WaitAnswered(t) => par # 0 /\ wait_slot[par] # NoSlot
    BY DEF WaitAnswered, WaitSatisfied, WaitHopeless
  <2>2. A = IF par \notin Pid THEN {}
            ELSE IF WaitAnswered(t) THEN {wait_slot[par]}
            ELSE IF SigchldInterrupts(par, t) THEN {sleep_slot[par]} \ {NoSlot} ELSE {}
    BY Zenon DEF AnsweredAtExit, Slots
  <2>3. WaitAnswered(t) => par \in Pid
    BY <1>t, <2>1, BoundsAssumption
  <2>4. CASE par \notin Pid
    BY <2>2, <2>3, <2>4
  <2>5. CASE par \in Pid /\ WaitAnswered(t)
    BY <2>1, <2>2, <2>5
  <2>6. CASE par \in Pid /\ ~WaitAnswered(t)
    BY <2>2, <2>6
  <2> QED
    BY <2>4, <2>5, <2>6
<1>4. \A p \in Pid : SigchldInterrupts(p, t) => p = par /\ ~WaitAnswered(t)
  BY DEF SigchldInterrupts, GetsSigchld
<1>5. /\ \A p \in Pid : wait_slot'[p] = IF p = t \/ (p = par /\ WaitAnswered(t))
                                       THEN NoSlot ELSE wait_slot[p]
      /\ \A p \in Pid : sleep_slot'[p] = IF p = t \/ SigchldInterrupts(p, t)
                                        THEN NoSlot ELSE sleep_slot[p]
      /\ Release(A \cup D)
      /\ \A p \in Pid : ipc'[p] = IF p = t THEN "none"
                                 ELSE IF p \in {cap[s] : s \in A} THEN "user" ELSE ipc[p]
      /\ tasks' = tasks \ {t}
  BY DEF terminate_process, remove_process
<1> HIDE DEF A, D
<1>6. A \cup D \in SUBSET Slot
  BY <1>t, <1>1, <1>2, <1>3
<1>7. \A p \in Pid : /\ wait_slot[p] # NoSlot => cap[wait_slot[p]] = p /\ p \in tasks
                     /\ sleep_slot[p] # NoSlot => cap[sleep_slot[p]] = p /\ p \in tasks
                     /\ wait_slot[p] = NoSlot \/ sleep_slot[p] = NoSlot
  BY DEF ReplySlotOwnership, SlotHeldBy
<1>8. \A s \in A : \/ WaitAnswered(t) /\ s = wait_slot[par] /\ cap[s] = par
                   \/ SigchldInterrupts(par, t) /\ s = sleep_slot[par] /\ cap[s] = par
  <2>1. CASE WaitAnswered(t)
    <3>1. par \in Pid /\ A = {wait_slot[par]} /\ cap[wait_slot[par]] = par
      BY <2>1, <1>3, <1>7
    <3> QED
      BY <2>1, <3>1
  <2>2. CASE ~WaitAnswered(t) /\ SigchldInterrupts(par, t)
    BY <2>2, <1>3, <1>7
  <2>3. CASE ~WaitAnswered(t) /\ ~SigchldInterrupts(par, t)
    BY <2>3, <1>3
  <2> QED
    BY <2>1, <2>2, <2>3
<1>9. \A s \in D : s \in {wait_slot[t], sleep_slot[t]} /\ cap[s] = t
  BY <1>t, <1>2, <1>7
<1>10. ASSUME NEW p \in Pid
       PROVE  /\ wait_slot'[p] = IF wait_slot[p] \in A \cup D THEN NoSlot ELSE wait_slot[p]
              /\ sleep_slot'[p] = IF sleep_slot[p] \in A \cup D THEN NoSlot ELSE sleep_slot[p]
              /\ wait_slot'[p] # NoSlot \/ sleep_slot'[p] # NoSlot => p \in tasks'
  <2>1. CASE p = t
    BY <2>1, <1>2, <1>5, <1>6, SlotAssumption
  <2>2. CASE p # t
    <3>1. wait_slot[p] \in A \cup D <=> p = par /\ WaitAnswered(t)
      BY <2>2, <1>3, <1>6, <1>7, <1>8, <1>9, SlotAssumption
    <3>2. sleep_slot[p] \in A \cup D => SigchldInterrupts(p, t)
      BY <2>2, <1>6, <1>7, <1>8, <1>9, SlotAssumption
    <3>3. SigchldInterrupts(p, t) => sleep_slot[p] \in A \/ sleep_slot[p] = NoSlot
      BY <1>3, <1>4
    <3> QED
      BY <2>2, <3>1, <3>2, <3>3, <1>5, <1>7
  <2> QED
    BY <2>1, <2>2
<1>11. ReplySlotOwnership'
  BY <1>5, <1>6, <1>10, ReleaseOwnership
<1>12. ASSUME NEW p \in Pid \ {t}
       PROVE  \/ /\ wait_slot'[p] = wait_slot[p] /\ sleep_slot'[p] = sleep_slot[p]
                 /\ ipc'[p] = ipc[p]
              \/ /\ wait_slot[p] # NoSlot \/ sleep_slot[p] # NoSlot
                 /\ wait_slot'[p] = NoSlot /\ sleep_slot'[p] = NoSlot /\ ipc'[p] = "user"
  <2>1. CASE p \in {cap[s] : s \in A}
    <3>1. PICK s \in A : cap[s] = p
      BY <2>1
    <3>2. \/ WaitAnswered(t) /\ s = wait_slot[p] /\ p = par
          \/ SigchldInterrupts(p, t) /\ s = sleep_slot[p] /\ p = par
      BY <3>1, <1>8
    <3>3. s # NoSlot /\ ipc'[p] = "user"
      BY <2>1, <1>5, <1>6, SlotAssumption
    <3> QED
      BY <3>2, <3>3, <1>5, <1>7
  <2>2. CASE p \notin {cap[s] : s \in A}
    <3>1. ipc'[p] = ipc[p]
      BY <2>2, <1>5
    <3>2. ~(p = par /\ WaitAnswered(t))
      BY <2>2, <1>3, <1>8
    <3>3. SigchldInterrupts(p, t) => sleep_slot[p] = NoSlot
      BY <2>2, <1>3, <1>4, <1>7
    <3> QED
      BY <3>1, <3>2, <3>3, <1>5
  <2> QED
    BY <2>1, <2>2
<1> QED
  BY <1>t, <1>5, <1>11, <1>12

\* Answering a pending nanosleep resumes its caller and nobody else.
LEMMA SleepAnswered ==
  ASSUME TypeOK, RepliesOwed, ThreadsAlive, phase # "halted",
         NEW t \in Pid, NEW S \in SUBSET ({sleep_slot[t]} \ {NoSlot}), Release(S),
         sleep_slot' = IF S = {} THEN sleep_slot ELSE [sleep_slot EXCEPT ![t] = NoSlot],
         ipc' = [p \in Pid |-> IF p \in {cap[s] : s \in S} THEN "user" ELSE ipc[p]],
         UNCHANGED <<tasks, wait_slot, reply_cap>>
  PROVE  RepliesOwed' /\ ThreadsAlive'
<1> USE DEF TypeOK, WaitType, SleepType, ThreadType
<1>1. S \in SUBSET Slot
  OBVIOUS
<1>2. CASE S = {}
  <2>1. cap' = cap /\ free_slots' = free_slots /\ sleep_slot' = sleep_slot /\ ipc' = ipc
    BY <1>2 DEF Release
  <2>2. ReplySlotOwnership'
    BY <2>1 DEF RepliesOwed, ReplySlotOwnership, SlotHeldBy
  <2>3. NoStrandedCaller'
    BY <2>1 DEF RepliesOwed, NoStrandedCaller
  <2> QED
    BY <2>1, <2>2, <2>3 DEF RepliesOwed, ThreadsAlive
<1>3. CASE S # {}
  <2> DEFINE s == sleep_slot[t]
  <2>1. S = {s} /\ s \in Slot /\ s # NoSlot
    BY <1>3
  <2>2. ReplySlotOwnership
    BY DEF RepliesOwed
  <2>3. t \in tasks /\ cap[s] = t /\ wait_slot[t] = NoSlot
    BY <2>1, <2>2 DEF ReplySlotOwnership, SlotHeldBy
  <2>4. reply_cap # t /\ ipc[t] = "awaiting"
    BY <2>1 DEF RepliesOwed, NoStrandedCaller
  <2>5. ASSUME NEW p \in Pid
        PROVE  /\ wait_slot'[p] = IF wait_slot[p] \in S THEN NoSlot ELSE wait_slot[p]
               /\ sleep_slot'[p] = IF sleep_slot[p] \in S THEN NoSlot ELSE sleep_slot[p]
               /\ wait_slot'[p] # NoSlot \/ sleep_slot'[p] # NoSlot => p \in tasks'
    <3>1. wait_slot[p] # s /\ (sleep_slot[p] = s => p = t)
      BY <2>1, <2>2, <2>3 DEF ReplySlotOwnership, SlotHeldBy
    <3>2. sleep_slot'[p] = IF p = t THEN NoSlot ELSE sleep_slot[p]
      BY <1>3
    <3> QED
      BY <2>1, <2>2, <3>1, <3>2 DEF ReplySlotOwnership, SlotHeldBy
  <2>6. ReplySlotOwnership'
    BY <1>1, <2>2, <2>5, ReleaseOwnership
  <2>7. \A p \in Pid : /\ ipc'[p] = IF p = t THEN "user" ELSE ipc[p]
                       /\ sleep_slot'[p] = IF p = t THEN NoSlot ELSE sleep_slot[p]
    BY <1>3, <2>1, <2>3
  <2>8. NoStrandedCaller'
    BY <2>3, <2>4, <2>7 DEF RepliesOwed, NoStrandedCaller
  <2> QED
    BY <2>3, <2>6, <2>7, <2>8 DEF RepliesOwed, ThreadsAlive
<1> QED
  BY <1>2, <1>3

\* Queueing a signal on a process answers at most its own nanosleep.
LEMMA QueueSignalReplies ==
  ASSUME TypeOK, RepliesOwed, ThreadsAlive, phase # "halted",
         NEW t \in Pid, NEW pend, queue_process_signal(t, pend),
         UNCHANGED <<tasks, wait_slot, reply_cap>>
  PROVE  RepliesOwed' /\ ThreadsAlive'
<1> DEFINE S == IF Delivers(t, pend) THEN {sleep_slot[t]} \ {NoSlot} ELSE {}
<1>1. /\ Release(S)
      /\ sleep_slot' = IF S = {} THEN sleep_slot ELSE [sleep_slot EXCEPT ![t] = NoSlot]
      /\ ipc' = [p \in Pid |-> IF p \in {cap[s] : s \in S} THEN "user" ELSE ipc[p]]
  BY DEF queue_process_signal, interrupt_pending_sleep_reply, Slots
<1>2. S \in SUBSET ({sleep_slot[t]} \ {NoSlot})
  OBVIOUS
<1> HIDE DEF S
<1> QED
  BY <1>1, <1>2, SleepAnswered

\* A message that is received comes from a thread nobody owes a reply.
LEMMA ReceivedFacts ==
  ASSUME TypeOK, RInv, NEW p \in Pid, Received(p)
  PROVE  /\ p \in tasks /\ ipc[p] = "queued" /\ phase = "recv" /\ reply_cap = 0
         /\ wait_slot[p] = NoSlot /\ sleep_slot[p] = NoSlot
BY DEF RInv, RepliesOwed, NoStrandedCaller, ReplyCapHeld, Received

\* Moving the reply capability of the caller to a free slot.
LEMMA DeferredReplies ==
  ASSUME TypeOK, RInv, NEW p \in Pid, Received(p), NEW s \in free_slots, Deferred(p, s),
         UNCHANGED <<tasks, next_pid>>,
         \/ wait_slot' = [wait_slot EXCEPT ![p] = s] /\ UNCHANGED sleep_slot
         \/ sleep_slot' = [sleep_slot EXCEPT ![p] = s] /\ UNCHANGED wait_slot
  PROVE  RInv'
<1> USE SlotAssumption DEF TypeOK, WaitType, SleepType, ThreadType
<1>1. /\ p \in tasks /\ ipc[p] = "queued" /\ phase = "recv" /\ reply_cap = 0
      /\ wait_slot[p] = NoSlot /\ sleep_slot[p] = NoSlot
  BY ReceivedFacts
<1>2. s \in Slot /\ s # NoSlot
  OBVIOUS
<1>3. ReplySlotOwnership /\ NoStrandedCaller /\ ThreadsAlive
  BY DEF RInv, RepliesOwed
<1>4. \A q \in Pid : wait_slot[q] # s /\ sleep_slot[q] # s
  BY <1>2, <1>3 DEF ReplySlotOwnership, SlotHeldBy
<1>5. /\ free_slots' = free_slots \ {s}
      /\ \A u \in Slot : cap'[u] = IF u = s THEN p ELSE cap[u]
      /\ \A q \in Pid : ipc'[q] = IF q = p THEN "awaiting" ELSE ipc[q]
      /\ UNCHANGED <<phase, caller, reply_cap>>
  BY DEF Deferred, dispVars
<1>6. \A q \in Pid \ {p} : wait_slot'[q] = wait_slot[q] /\ sleep_slot'[q] = sleep_slot[q]
  OBVIOUS
<1>7. \/ wait_slot'[p] = s /\ sleep_slot'[p] = NoSlot
      \/ wait_slot'[p] = NoSlot /\ sleep_slot'[p] = s
  BY <1>1
<1>8. ASSUME NEW q \in Pid
      PROVE  /\ SlotHeldBy(wait_slot[q], q)' /\ SlotHeldBy(sleep_slot[q], q)'
             /\ wait_slot'[q] = NoSlot \/ sleep_slot'[q] = NoSlot
  <2>1. CASE q = p
    BY <2>1, <1>1, <1>2, <1>5, <1>7 DEF SlotHeldBy
  <2>2. CASE q # p
    <3>1. /\ wait_slot'[q] = wait_slot[q] /\ sleep_slot'[q] = sleep_slot[q]
          /\ wait_slot[q] \in (Slot \ {s}) \cup {NoSlot}
          /\ sleep_slot[q] \in (Slot \ {s}) \cup {NoSlot}
      BY <2>2, <1>4, <1>6
    <3> QED
      BY <3>1, <1>3, <1>5 DEF ReplySlotOwnership, SlotHeldBy
  <2> QED
    BY <2>1, <2>2
<1>9. ASSUME NEW u \in Slot
      PROVE  \/ u \in free_slots' /\ cap'[u] = 0
             \/ \E q \in Pid : u = wait_slot'[q] \/ u = sleep_slot'[q]
  <2>1. CASE u = s
    BY <2>1, <1>7
  <2>2. CASE u # s /\ u \in free_slots /\ cap[u] = 0
    BY <2>2, <1>5
  <2>3. CASE u # s /\ \E q \in Pid : u = wait_slot[q] \/ u = sleep_slot[q]
    <3>1. PICK q \in Pid : u = wait_slot[q] \/ u = sleep_slot[q]
      BY <2>3
    <3>2. q # p
      BY <1>1, <3>1
    <3> QED
      BY <3>1, <3>2, <1>6
  <2> QED
    BY <2>1, <2>2, <2>3, <1>3 DEF ReplySlotOwnership
<1>10. ReplySlotOwnership'
  BY <1>8, <1>9 DEF ReplySlotOwnership
<1>11. NoStrandedCaller'
  <2>1. phase # "halted" /\ reply_cap' = 0
    BY <1>1, <1>5
  <2>2. \A q \in Pid \ {p} :
          ipc'[q] = "awaiting" <=> wait_slot'[q] # NoSlot \/ sleep_slot'[q] # NoSlot
    BY <1>1, <1>3, <1>5, <1>6, <2>1 DEF NoStrandedCaller
  <2>3. ipc'[p] = "awaiting" /\ (wait_slot'[p] # NoSlot \/ sleep_slot'[p] # NoSlot)
    BY <1>2, <1>5, <1>7
  <2> QED
    BY <2>1, <2>2, <2>3 DEF NoStrandedCaller
<1>12. ThreadsAlive' /\ FreshPids' /\ ReplyCapHeld'
  BY <1>1, <1>5 DEF RInv, ThreadsAlive, FreshPids, ReplyCapHeld
<1> QED
  BY <1>10, <1>11, <1>12 DEF RInv, RepliesOwed

(***************************************************************************)
(* Steps                                                                   *)
(***************************************************************************)
\* A handler that keeps the reply capability owes the caller its reply.
LEMMA ContinueReplies ==
  ASSUME TypeOK, RInv, NEW p \in Pid, Received(p),
         phase' \in {"kill", "reboot", "return"}, caller' = p, reply_cap' = p,
         ipc' = [ipc EXCEPT ![p] = "awaiting"],
         UNCHANGED <<tasks, next_pid, wait_slot, sleep_slot, slotVars>>
  PROVE  RInv'
<1>1. /\ p \in tasks /\ ipc[p] = "queued" /\ phase = "recv" /\ reply_cap = 0
      /\ wait_slot[p] = NoSlot /\ sleep_slot[p] = NoSlot
  BY ReceivedFacts
<1>2. ReplySlotOwnership'
  BY DEF RInv, RepliesOwed, ReplySlotOwnership, SlotHeldBy, slotVars
<1>3. \A q \in Pid : ipc'[q] = IF q = p THEN "awaiting" ELSE ipc[q]
  BY DEF TypeOK, ThreadType
<1>4. NoStrandedCaller'
  BY <1>1, <1>3, BoundsAssumption DEF RInv, RepliesOwed, NoStrandedCaller
<1>5. ThreadsAlive' /\ FreshPids' /\ ReplyCapHeld'
  BY <1>1, <1>3 DEF RInv, ThreadsAlive, FreshPids, ReplyCapHeld
<1> QED
  BY <1>2, <1>4, <1>5 DEF RInv, RepliesOwed

\* A thread that neither blocks nor is answered changes nothing of what is owed.
LEMMA ThreadMoves ==
  ASSUME TypeOK, RInv, NEW p \in Pid, ipc[p] \in {"user", "queued"},
         NEW to \in {"user", "queued", "faulted"}, ipc' = [ipc EXCEPT ![p] = to],
         UNCHANGED <<tasks, next_pid, wait_slot, sleep_slot, slotVars, dispVars>>
  PROVE  RInv'
<1>1. ReplySlotOwnership'
  BY DEF RInv, RepliesOwed, ReplySlotOwnership, SlotHeldBy, slotVars
<1>2. \A q \in Pid : ipc'[q] = IF q = p THEN to ELSE ipc[q]
  BY DEF TypeOK, ThreadType
<1>3. NoStrandedCaller'
  BY <1>2 DEF RInv, RepliesOwed, NoStrandedCaller, dispVars
<1>4. ThreadsAlive' /\ FreshPids' /\ ReplyCapHeld'
  BY <1>2 DEF RInv, ThreadsAlive, FreshPids, ReplyCapHeld, dispVars
<1> QED
  BY <1>1, <1>3, <1>4 DEF RInv, RepliesOwed

\* Everything a termination leaves, but for the dispatcher's own caller.
LEMMA TerminateRest ==
  ASSUME TypeOK, RInv, NEW t \in tasks, terminate_process(t)
  PROVE  /\ ReplySlotOwnership' /\ ThreadsAlive' /\ FreshPids'
         /\ phase # "halted" =>
              \A p \in Pid \ {t} :
                /\ ipc'[p] = "awaiting" <=>
                     reply_cap = p \/ wait_slot'[p] # NoSlot \/ sleep_slot'[p] # NoSlot
                /\ reply_cap = p => wait_slot'[p] = NoSlot /\ sleep_slot'[p] = NoSlot
         /\ wait_slot'[t] = NoSlot /\ sleep_slot'[t] = NoSlot /\ ipc'[t] = "none"
<1>1. /\ ReplySlotOwnership'
      /\ wait_slot'[t] = NoSlot /\ sleep_slot'[t] = NoSlot /\ ipc'[t] = "none"
      /\ \A p \in Pid \ {t} :
           \/ /\ wait_slot'[p] = wait_slot[p] /\ sleep_slot'[p] = sleep_slot[p]
              /\ ipc'[p] = ipc[p]
           \/ /\ wait_slot[p] # NoSlot \/ sleep_slot[p] # NoSlot
              /\ wait_slot'[p] = NoSlot /\ sleep_slot'[p] = NoSlot /\ ipc'[p] = "user"
  BY TerminateReplies DEF RInv, RepliesOwed
<1>2. tasks' = tasks \ {t} /\ next_pid' = next_pid
  BY DEF terminate_process, remove_process
<1>3. \A p \in Pid : wait_slot[p] # NoSlot \/ sleep_slot[p] # NoSlot => p \in tasks
  BY DEF RInv, RepliesOwed, ReplySlotOwnership, SlotHeldBy
<1>4. ThreadsAlive'
  <2>1. ASSUME NEW p \in Pid
        PROVE  p \in tasks' <=> ipc'[p] # "none"
    <3>1. CASE p = t
      BY <3>1, <1>1, <1>2
    <3>2. CASE p # t
      BY <3>2, <1>1, <1>2, <1>3 DEF RInv, ThreadsAlive
    <3> QED
      BY <3>1, <3>2
  <2> QED
    BY <2>1 DEF ThreadsAlive
<1>5. FreshPids'
  BY <1>2 DEF RInv, FreshPids
<1>6. ASSUME phase # "halted", NEW p \in Pid \ {t}
      PROVE  /\ ipc'[p] = "awaiting" <=>
                  reply_cap = p \/ wait_slot'[p] # NoSlot \/ sleep_slot'[p] # NoSlot
             /\ reply_cap = p => wait_slot'[p] = NoSlot /\ sleep_slot'[p] = NoSlot
  BY <1>1, <1>6 DEF RInv, RepliesOwed, NoStrandedCaller
<1> QED
  BY <1>1, <1>4, <1>5, <1>6

\* A termination after which the dispatcher holds no capability, or holds that
\* of a caller other than the dead process.
LEMMA TerminateOwed ==
  ASSUME TypeOK, RInv, NEW t \in tasks, terminate_process(t), phase # "halted",
         \/ reply_cap \in {0, t} /\ reply_cap' = 0
         \/ reply_cap # t /\ reply_cap' = reply_cap
         \/ phase' = "halted"
  PROVE  RepliesOwed' /\ ThreadsAlive' /\ FreshPids'
<1> USE BoundsAssumption
<1>1. /\ ReplySlotOwnership' /\ ThreadsAlive' /\ FreshPids'
      /\ \A p \in Pid \ {t} :
           /\ ipc'[p] = "awaiting" <=>
                reply_cap = p \/ wait_slot'[p] # NoSlot \/ sleep_slot'[p] # NoSlot
           /\ reply_cap = p => wait_slot'[p] = NoSlot /\ sleep_slot'[p] = NoSlot
      /\ wait_slot'[t] = NoSlot /\ sleep_slot'[t] = NoSlot /\ ipc'[t] = "none"
  BY TerminateRest
<1>2. t \in Pid
  BY DEF TypeOK, TaskType
<1>3. CASE reply_cap \in {0, t} /\ reply_cap' = 0
  <2>1. NoStrandedCaller'
    BY <1>1, <1>2, <1>3 DEF NoStrandedCaller
  <2> QED
    BY <1>1, <2>1 DEF RepliesOwed
<1>4. CASE reply_cap # t /\ reply_cap' = reply_cap
  <2>1. NoStrandedCaller'
    BY <1>1, <1>2, <1>4 DEF NoStrandedCaller
  <2> QED
    BY <1>1, <2>1 DEF RepliesOwed
<1>5. CASE phase' = "halted"
  BY <1>1, <1>5 DEF RepliesOwed, NoStrandedCaller
<1> QED
  BY <1>3, <1>4, <1>5

\* Every system call, from receipt to its result.
LEMMA SyscallReplies ==
  ASSUME TypeOK, RInv, NEW p \in Pid, Syscall(p)
  PROVE  RInv'
<1> USE DEF taskVars, sleepVars, waitVars, slotVars
<1>1. CASE SysExit(p)
  <2>1. /\ Received(p) /\ terminate_process(p) /\ phase' \in {"recv", "halted"}
        /\ reply_cap' = 0
    BY <1>1 DEF SysExit, AfterExit, Done
  <2>2. p \in tasks /\ phase = "recv" /\ reply_cap = 0
    BY <2>1, ReceivedFacts
  <2>3. RepliesOwed' /\ ThreadsAlive' /\ FreshPids'
    BY <2>1, <2>2, TerminateOwed
  <2> QED
    BY <2>1, <2>3 DEF RInv, ReplyCapHeld
<1>2. CASE OtherSyscall(p) \/ SysReboot(p)
           \/ \E target \in KillTargets, sig \in KillSignals : SysKill(p, target, sig)
  <2>1. Received(p) /\ LoopUnchanged
    BY <1>2 DEF OtherSyscall, SysReboot, SysKill
  <2>2. \E ph \in {"kill", "reboot", "return"} : \E sig, pids : Continue(p, ph, sig, pids)
    BY <1>2 DEF OtherSyscall, SysReboot, SysKill, Returns
  <2> QED
    BY <2>1, <2>2, ContinueReplies DEF Continue, LoopUnchanged
<1>3. CASE PageFaultResolved(p) \/ FaultUnanswered(p)
  <2>1. ipc[p] = "queued"
    BY <1>3 DEF PageFaultResolved, FaultUnanswered, Received
  <2>2. /\ \E to \in {"user", "faulted"} : ipc' = [ipc EXCEPT ![p] = to]
        /\ UNCHANGED <<tasks, next_pid, wait_slot, sleep_slot, slotVars, dispVars>>
    BY <1>3 DEF PageFaultResolved, FaultUnanswered
  <2> QED
    BY <2>1, <2>2, ThreadMoves
<1>4. CASE SysSetsid(p) \/ \E t \in Pid, g \in Groups : SysSetpgid(p, t, g)
  <2>1. Received(p) /\ Returns(p) /\ GroupUnchanged
    BY <1>4 DEF SysSetsid, SysSetpgid
  <2> QED
    BY <2>1, ContinueReplies DEF Returns, Continue, GroupUnchanged
<1>5. CASE \/ SysSigreturn(p)
           \/ \E a \in Actions : SysSigaction(p, a[1], a[2])
           \/ \E how \in {"BLOCK", "UNBLOCK", "SETMASK"}, set \in Masks :
                SysSigprocmask(p, how, set)
           \/ \E set \in Masks : SysSigtimedwait(p, set) \/ SysSigsuspend(p, set)
  <2>1. Received(p) /\ Returns(p) /\ SigUnchanged
    BY <1>5 DEF SysSigreturn, SysSigaction, SysSigprocmask, SysSigtimedwait, SysSigsuspend
  <2> QED
    BY <2>1, ContinueReplies DEF Returns, Continue, SigUnchanged
<1>6. CASE SysPowerOff(p)
  BY <1>6, ContinueReplies DEF SysPowerOff
<1>7. ASSUME NEW outcome \in ForkOutcomes, SysFork(p, outcome)
      PROVE  RInv'
  <2> DEFINE c == next_pid
  <2>1. /\ Received(p) /\ c \in Pid /\ next_pid' = c + 1 /\ tasks' = tasks \cup {c}
        /\ ipc' = [ipc EXCEPT ![p] = "awaiting", ![c] = "user"]
        /\ phase' = "return" /\ caller' = p /\ reply_cap' = p
        /\ UNCHANGED <<wait_slot, sleep_slot, slotVars>>
    BY <1>7 DEF SysFork, register_process, TypeOK, TaskType
  <2>2. /\ p \in tasks /\ ipc[p] = "queued" /\ phase = "recv" /\ reply_cap = 0
        /\ wait_slot[p] = NoSlot /\ sleep_slot[p] = NoSlot
    BY <2>1, ReceivedFacts
  <2>3. c \notin tasks /\ c # p
    BY <2>1, <2>2 DEF RInv, FreshPids
  <2>4. \A q \in Pid : ipc'[q] = IF q = c THEN "user" ELSE IF q = p THEN "awaiting" ELSE ipc[q]
    BY <2>1 DEF TypeOK, ThreadType
  <2>5. wait_slot[c] = NoSlot /\ sleep_slot[c] = NoSlot
    BY <2>1, <2>3 DEF RInv, RepliesOwed, ReplySlotOwnership, SlotHeldBy
  <2>6. ReplySlotOwnership'
    <3>1. \A q \in Pid : /\ SlotHeldBy(wait_slot[q], q)' /\ SlotHeldBy(sleep_slot[q], q)'
                         /\ wait_slot'[q] = NoSlot \/ sleep_slot'[q] = NoSlot
      BY <2>1 DEF RInv, RepliesOwed, ReplySlotOwnership, SlotHeldBy
    <3>2. \A s \in Slot : \/ s \in free_slots' /\ cap'[s] = 0
                          \/ \E q \in Pid : s = wait_slot'[q] \/ s = sleep_slot'[q]
      BY <2>1 DEF RInv, RepliesOwed, ReplySlotOwnership
    <3> QED
      BY <3>1, <3>2 DEF ReplySlotOwnership
  <2>7. NoStrandedCaller'
    <3>1. ASSUME NEW q \in Pid
          PROVE  /\ ipc'[q] = "awaiting" <=>
                      p = q \/ wait_slot[q] # NoSlot \/ sleep_slot[q] # NoSlot
                 /\ p = q => wait_slot[q] = NoSlot /\ sleep_slot[q] = NoSlot
      <4>1. CASE q = c
        BY <4>1, <2>3, <2>4, <2>5
      <4>2. CASE q = p
        BY <4>2, <2>2, <2>3, <2>4
      <4>3. CASE q # c /\ q # p
        BY <4>3, <2>2, <2>4, BoundsAssumption DEF RInv, RepliesOwed, NoStrandedCaller
      <4> QED
        BY <4>1, <4>2, <4>3
    <3> QED
      BY <2>1, <3>1 DEF NoStrandedCaller
  <2>8. ThreadsAlive'
    <3>1. ASSUME NEW q \in Pid
          PROVE  q \in tasks' <=> ipc'[q] # "none"
      <4>1. CASE q = c \/ q = p
        <5>1. q \in tasks' /\ ipc'[q] \in {"user", "awaiting"}
          BY <4>1, <2>1, <2>2, <2>4
        <5> QED
          BY <5>1
      <4>2. CASE q # c /\ q # p
        BY <4>2, <2>1, <2>4 DEF RInv, ThreadsAlive
      <4> QED
        BY <4>1, <4>2
    <3> QED
      BY <3>1 DEF ThreadsAlive
  <2>9. FreshPids'
    BY <2>1 DEF RInv, FreshPids, TypeOK, TaskType
  <2>10. ReplyCapHeld'
    BY <2>1 DEF ReplyCapHeld
  <2> QED
    BY <2>6, <2>7, <2>8, <2>9, <2>10 DEF RInv, RepliesOwed
<1>8. ASSUME NEW target \in WaitTargets, NEW options \in WaitOptions,
             SysWait4(p, target, options)
      PROVE  RInv'
  <2>1. Received(p) /\ WaitUnchanged
    BY <1>8 DEF SysWait4
  <2>2. CASE Returns(p) /\ UNCHANGED <<wait_slot, slotVars>>
    BY <2>1, <2>2, ContinueReplies DEF Returns, Continue, WaitUnchanged
  <2>3. CASE \E s \in free_slots : wait_slot' = [wait_slot EXCEPT ![p] = s] /\ Deferred(p, s)
    BY <2>1, <2>3, DeferredReplies DEF WaitUnchanged
  <2> QED
    BY <1>8, <2>2, <2>3 DEF SysWait4
<1>9. CASE SysNanosleep(p)
  BY <1>9, DeferredReplies DEF SysNanosleep
<1> QED
  BY <1>1, <1>2, <1>3, <1>4, <1>5, <1>6, <1>7, <1>8, <1>9 DEF Syscall

\* One target of a kill loop.
LEMMA KillReplies ==
  ASSUME TypeOK, RInv, NEW t \in Pid, KillStep(t)
  PROVE  RInv'
<1> USE DEF taskVars, sleepVars, waitVars, slotVars
<1>1. CASE KillTerminate(t)
  <2>1. /\ phase = "kill" /\ t \in tasks /\ terminate_process(t)
        /\ reply_cap = caller
    BY <1>1 DEF KillTerminate, NextTarget, TypeOK, DispatcherType, RInv, ReplyCapHeld
  <2>2. CASE t = caller \/ t = 1
    <3>1. reply_cap' = 0 /\ phase' \in {"recv", "halted"} /\ (t = 1 => phase' = "halted")
      BY <1>1, <2>2 DEF KillTerminate, AfterExit, Done
    <3>2. RepliesOwed' /\ ThreadsAlive' /\ FreshPids'
      BY <2>1, <2>2, <3>1, TerminateOwed
    <3> QED
      BY <3>1, <3>2 DEF RInv, ReplyCapHeld
  <2>3. CASE t # caller /\ t # 1
    <3>1. phase' \in {"return", "kill"} /\ UNCHANGED <<caller, reply_cap>>
      BY <1>1, <2>3 DEF KillTerminate
    <3>2. RepliesOwed' /\ ThreadsAlive' /\ FreshPids'
      BY <2>1, <2>3, <3>1, TerminateOwed
    <3> QED
      BY <2>1, <3>1, <3>2 DEF RInv, ReplyCapHeld
  <2> QED
    BY <2>2, <2>3
<1>2. CASE KillContinue(t) \/ KillStop(t) \/ KillOther(t)
  <2>1. /\ phase = "kill" /\ \E pend : queue_process_signal(t, pend)
        /\ KillStepDone(t) /\ KillUnchanged
    BY <1>2 DEF KillContinue, KillStop, KillOther
  <2>2. /\ UNCHANGED <<tasks, next_pid, wait_slot, reply_cap, caller>>
        /\ phase' \in {"return", "kill"}
    BY <2>1 DEF KillStepDone, KillUnchanged
  <2>3. RepliesOwed' /\ ThreadsAlive'
    BY <2>1, <2>2, QueueSignalReplies DEF RInv
  <2> QED
    BY <2>1, <2>2, <2>3 DEF RInv, FreshPids, ReplyCapHeld
<1> QED
  BY <1>1, <1>2 DEF KillStep

\* reboot, its victims one by one and the new image of init.
LEMMA RebootReplies ==
  ASSUME TypeOK, RInv, RebootStep
  PROVE  RInv'
<1> USE DEF taskVars, sleepVars, waitVars, slotVars
<1>1. ASSUME NEW t \in Pid, RebootTerminate(t)
      PROVE  RInv'
  <2>1. /\ phase = "reboot" /\ t \in tasks /\ terminate_process(t)
        /\ reply_cap' = (IF t = caller THEN 0 ELSE reply_cap)
        /\ UNCHANGED <<phase, caller>> /\ reply_cap \in {0, caller}
    BY <1>1 DEF RebootTerminate, NextTarget, TypeOK, DispatcherType, RInv, ReplyCapHeld
  <2>2. \/ reply_cap \in {0, t} /\ reply_cap' = 0
        \/ reply_cap # t /\ reply_cap' = reply_cap
    BY <2>1, BoundsAssumption
  <2>3. RepliesOwed' /\ ThreadsAlive' /\ FreshPids'
    BY <2>1, <2>2, TerminateOwed
  <2> QED
    BY <2>1, <2>3 DEF RInv, ReplyCapHeld
<1>2. ASSUME NEW ok \in BOOLEAN, RebootExec(ok)
      PROVE  RInv'
  <2>1. /\ phase = "reboot" /\ phase' = "return"
        /\ UNCHANGED <<tasks, next_pid, wait_slot, sleep_slot, slotVars, ipc, reply_cap, caller>>
    BY <1>2 DEF RebootExec
  <2>2. ReplySlotOwnership' /\ NoStrandedCaller'
    BY <2>1 DEF RInv, RepliesOwed, ReplySlotOwnership, SlotHeldBy, NoStrandedCaller
  <2> QED
    BY <2>1, <2>2 DEF RInv, RepliesOwed, ThreadsAlive, FreshPids, ReplyCapHeld
<1> QED
  BY <1>1, <1>2 DEF RebootStep

\* The signal check and the reply that end a system call.
LEMMA ReturnReplies ==
  ASSUME TypeOK, RInv, Return
  PROVE  RInv'
<1> USE DEF taskVars, sleepVars, waitVars, slotVars
<1>1. ASSUME phase = "return", Reply, ReturnUnchanged
      PROVE  RInv'
  <2>1. /\ phase' \in {"recv", "halted"} /\ reply_cap' = 0
        /\ \A p \in Pid : ipc'[p] = IF p = reply_cap THEN "user" ELSE ipc[p]
        /\ UNCHANGED <<tasks, next_pid, wait_slot, sleep_slot, slotVars>>
    BY <1>1 DEF Reply, Done, AfterReply, ReturnUnchanged
  <2>2. ReplySlotOwnership'
    BY <2>1 DEF RInv, RepliesOwed, ReplySlotOwnership, SlotHeldBy
  <2>3. NoStrandedCaller'
    BY <1>1, <2>1, BoundsAssumption DEF RInv, RepliesOwed, NoStrandedCaller
  <2>4. ThreadsAlive'
    <3>1. \A p \in Pid : p = reply_cap => ipc[p] = "awaiting"
      BY <1>1 DEF RInv, RepliesOwed, NoStrandedCaller
    <3> QED
      BY <2>1, <3>1 DEF RInv, ThreadsAlive
  <2> QED
    BY <2>1, <2>2, <2>3, <2>4 DEF RInv, RepliesOwed, FreshPids, ReplyCapHeld
<1>2. CASE \/ ReturnPlain
           \/ \E s \in Signal : ReturnHandled(s) \/ ReturnStopped(s) \/ ReturnContinued(s)
  BY <1>1, <1>2 DEF ReturnPlain, ReturnHandled, ReturnStopped, ReturnContinued, Consumes
<1>3. ASSUME NEW s \in Signal, ReturnKilled(s)
      PROVE  RInv'
  <2>1. /\ phase = "return" /\ caller \in tasks /\ terminate_process(caller)
        /\ phase' \in {"recv", "halted"} /\ reply_cap' = 0 /\ reply_cap \in {0, caller}
    BY <1>3 DEF ReturnKilled, Consumes, Done, AfterReply, RInv, ReplyCapHeld
  <2>2. RepliesOwed' /\ ThreadsAlive' /\ FreshPids'
    BY <2>1, TerminateOwed
  <2> QED
    BY <2>1, <2>2 DEF RInv, ReplyCapHeld
<1> QED
  BY <1>2, <1>3 DEF Return

\* The worker thread and the drain of its completions.
LEMMA AsyncReplies ==
  ASSUME TypeOK, RInv, Worker \/ DrainStart \/ DrainEvent \/ DrainDone
  PROVE  RInv'
<1> USE DEF taskVars, sleepVars, waitVars, slotVars, dispVars
<1>1. AsyncUnchanged
  BY DEF Worker, WorkerTake, WorkerSend, WorkerNotify, DrainStart, DrainEvent, DrainDone
<1>2. CASE Worker \/ DrainStart \/ DrainDone
  <2>1. UNCHANGED <<tasks, next_pid, wait_slot, sleep_slot, slotVars, ipc, reply_cap, caller>>
    BY <1>1, <1>2 DEF Worker, WorkerTake, WorkerSend, WorkerNotify, DrainStart, DrainDone,
                      AsyncUnchanged
  <2>2. phase' = phase \/ (phase \in {"recv", "drain"} /\ phase' \in {"recv", "drain"})
    BY <1>2 DEF Worker, WorkerTake, WorkerSend, WorkerNotify, DrainStart, DrainDone
  <2>3. ReplySlotOwnership'
    BY <2>1 DEF RInv, RepliesOwed, ReplySlotOwnership, SlotHeldBy
  <2>4. NoStrandedCaller'
    BY <2>1, <2>2 DEF RInv, RepliesOwed, NoStrandedCaller
  <2>5. ThreadsAlive' /\ FreshPids' /\ ReplyCapHeld'
    BY <2>1, <2>2 DEF RInv, ThreadsAlive, FreshPids, ReplyCapHeld
  <2> QED
    BY <2>3, <2>4, <2>5 DEF RInv, RepliesOwed
<1>3. CASE DrainEvent
  <2> DEFINE job == Head(channel)
             S == IF Completes(job) THEN {sleep_slot[job.pid]} ELSE {}
  <2>1. job.pid \in Pid
    <3>1. job \in SleepJob
      BY <1>3 DEF DrainEvent, TypeOK, SleepType
    <3> QED
      BY <3>1 DEF SleepJob
  <2>2. S \in SUBSET ({sleep_slot[job.pid]} \ {NoSlot})
    BY DEF Completes
  <2>3. /\ phase = "drain" /\ UNCHANGED dispVars /\ Release(S)
        /\ sleep_slot' = IF S = {} THEN sleep_slot
                         ELSE [sleep_slot EXCEPT ![job.pid] = NoSlot]
        /\ ipc' = [p \in Pid |-> IF p \in {cap[s] : s \in S} THEN "user" ELSE ipc[p]]
    BY <1>3 DEF DrainEvent
  <2> HIDE DEF job, S
  <2>4. RepliesOwed' /\ ThreadsAlive'
    BY <1>1, <2>1, <2>2, <2>3, SleepAnswered DEF AsyncUnchanged, RInv
  <2> QED
    BY <1>1, <2>3, <2>4 DEF AsyncUnchanged, RInv, FreshPids, ReplyCapHeld
<1> QED
  BY <1>2, <1>3

\* After load_init nobody is owed a reply.
LEMMA RepliesInit == Init => RInv
BY BoundsAssumption
DEF Init, RInv, RepliesOwed, ReplySlotOwnership, SlotHeldBy, NoStrandedCaller, ThreadsAlive,
    FreshPids, ReplyCapHeld

\* RInv is inductive, given the types.
LEMMA RepliesInductive == TypeOK /\ RInv /\ [Next]_vars => RInv'
<1> SUFFICES ASSUME TypeOK, RInv, [Next]_vars PROVE RInv'
  OBVIOUS
<1>1. ASSUME NEW p \in Pid, Call(p)
      PROVE  RInv'
  BY <1>1, ThreadMoves DEF Call, taskVars, sleepVars, waitVars
<1>2. CASE UNCHANGED vars
  <2>1. UNCHANGED <<tasks, next_pid, wait_slot, sleep_slot, free_slots, cap, ipc, reply_cap,
                    caller, phase>>
    BY <1>2 DEF vars, taskVars, sleepVars, waitVars, slotVars, dispVars
  <2>2. ReplySlotOwnership'
    BY <2>1 DEF RInv, RepliesOwed, ReplySlotOwnership, SlotHeldBy
  <2> QED
    BY <2>1, <2>2 DEF RInv, RepliesOwed, NoStrandedCaller, ThreadsAlive, FreshPids, ReplyCapHeld
<1> QED
  BY <1>1, <1>2, SyscallReplies, KillReplies, RebootReplies, ReturnReplies, AsyncReplies
  DEF Next, Handler

\* The invariant holds in every reachable state.
LEMMA RepliesInvariant == Spec => [](TypeOK /\ RInv)
BY TypeInit, TypeInductive, RepliesInit, RepliesInductive, PTL DEF Spec

\* Whatever calls, signals, exits, completions and reboots interleave, every
\* caller blocked in the server is owed exactly one reply, through a capability
\* that is its own, and no slot is leaked, shared or kept for a dead process.
THEOREM EveryCallerOwed == Spec => []RepliesOwed
<1>1. RInv => RepliesOwed
  BY DEF RInv
<1> QED
  BY <1>1, RepliesInvariant, PTL
=============================================================================
