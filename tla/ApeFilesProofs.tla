--------------------------- MODULE ApeFilesProofs ---------------------------
(***************************************************************************)
(* Proofs about ApeFiles, for any number of processes, slots, names, pipes *)
(* and descriptors, in four parts.                                         *)
(*                                                                         *)
(* Close frees a slot after a scan of the tables of the live processes, so *)
(* NoDanglingSlot needs that a process without a task has no descriptor;   *)
(* exit needs CloexecIsOpen to leave no mark behind.  FInv collects these  *)
(* with the types of the tables and is inductive.  PInv is about the pipe  *)
(* ends the slots hold, and is inductive by itself.  TInv is about what    *)
(* the tables hold besides slots, and about what they must not lose; its   *)
(* steps use FInv and PInv.  OInv is what the refinement of OpenFiles      *)
(* needs besides these.                                                    *)
(***************************************************************************)
EXTENDS ApeFiles, FiniteSetTheorems, TLAPS

TableType ==
  /\ tasks \subseteq Pid /\ next_pid \in 1..(MaxPid + 1)
  /\ fds \in [Pid -> [Fd -> Slot \cup {NoSlot}]]
  /\ fd_cloexec \in [Pid -> SUBSET Fd]
  /\ next_fd \in [Pid -> Fd]
  /\ free_slots \subseteq Slot
  /\ limit_reached \in BOOLEAN

OnlyLive == \A p \in Pid : OpenFds(p) # {} => p \in tasks

FInv == TableType /\ OnlyLive /\ NoDanglingSlot /\ CloexecIsOpen /\ NextFdFresh

\* The conjuncts of FInv about the descriptors, descriptor by descriptor.
LEMMA ByDescriptor ==
  /\ OnlyLive <=> \A p \in Pid, f \in Fd : fds[p][f] # NoSlot => p \in tasks
  /\ NoDanglingSlot <=>
       \A p \in Pid, f \in Fd : fds[p][f] # NoSlot => fds[p][f] \notin free_slots
  /\ CloexecIsOpen <=>
       \A p \in Pid : \A f \in fd_cloexec[p] : f \in Fd /\ fds[p][f] # NoSlot
  /\ NextFdFresh <=>
       (~limit_reached => \A p \in Pid, f \in Fd : fds[p][f] # NoSlot => f < next_fd[p])
BY DEF OnlyLive, NoDanglingSlot, CloexecIsOpen, NextFdFresh, OpenFds

\* The same for the next state.
LEMMA ByDescriptorNext ==
  /\ OnlyLive' <=> \A p \in Pid, f \in Fd : fds'[p][f] # NoSlot => p \in tasks'
  /\ NoDanglingSlot' <=>
       \A p \in Pid, f \in Fd : fds'[p][f] # NoSlot => fds'[p][f] \notin free_slots'
  /\ CloexecIsOpen' <=>
       \A p \in Pid : \A f \in fd_cloexec'[p] : f \in Fd /\ fds'[p][f] # NoSlot
  /\ NextFdFresh' <=>
       (~limit_reached' => \A p \in Pid, f \in Fd : fds'[p][f] # NoSlot => f < next_fd'[p])
BY DEF OnlyLive, NoDanglingSlot, CloexecIsOpen, NextFdFresh, OpenFds

\* Closing descriptors F of a live process p empties exactly those, and frees no
\* slot that is still named.
LEMMA CloseTable ==
  ASSUME FInv, NEW p \in tasks, NEW F \in SUBSET Fd, do_close(p, F)
  PROVE  /\ fds' \in [Pid -> [Fd -> Slot \cup {NoSlot}]]
         /\ fd_cloexec' \in [Pid -> SUBSET Fd] /\ free_slots' \subseteq Slot
         /\ \A f \in F : fds'[p][f] = NoSlot
         /\ \A q \in Pid, f \in Fd : q # p \/ f \notin F => fds'[q][f] = fds[q][f]
         /\ NoDanglingSlot'
         /\ fd_cloexec'[p] = fd_cloexec[p] \ F
         /\ \A q \in Pid : q # p => fd_cloexec'[q] = fd_cloexec[q]
<1>1. p \in Pid
  BY DEF FInv, TableType
<1>2. /\ fds' \in [Pid -> [Fd -> Slot \cup {NoSlot}]]
      /\ \A f \in F : fds'[p][f] = NoSlot
      /\ \A q \in Pid, f \in Fd : q # p \/ f \notin F => fds'[q][f] = fds[q][f]
  BY <1>1 DEF FInv, TableType, do_close, Without
<1>3. /\ fd_cloexec' \in [Pid -> SUBSET Fd]
      /\ fd_cloexec'[p] = fd_cloexec[p] \ F
      /\ \A q \in Pid : q # p => fd_cloexec'[q] = fd_cloexec[q]
  BY <1>1 DEF FInv, TableType, do_close
<1>4. free_slots' = free_slots \cup ReleasedBy(p, F)
  BY DEF do_close, ReleaseSlots
<1>5. free_slots' \subseteq Slot
  BY <1>4 DEF FInv, TableType, ReleasedBy
<1>6. ASSUME NEW q \in Pid, NEW f \in Fd, fds'[q][f] # NoSlot
      PROVE  fds'[q][f] \notin free_slots'
  <2>1. ~(q = p /\ f \in F) /\ fds'[q][f] = fds[q][f] /\ fds[q][f] # NoSlot
    BY <1>2, <1>6
  <2>2. q \in tasks /\ fds[q][f] \notin free_slots
    BY <2>1, ByDescriptor DEF FInv
  <2>3. still_shared(fds[q][f], p, F)
    BY <2>1, <2>2 DEF still_shared
  <2>4. QED
    BY <1>4, <2>1, <2>2, <2>3 DEF ReleasedBy
<1>7. NoDanglingSlot'
  BY <1>6, ByDescriptorNext
<1>8. QED
  BY <1>2, <1>3, <1>5, <1>7

\* A call that closes descriptors of p and leaves next_fd alone or, with all of
\* them gone, forgets it.
LEMMA CloseInv ==
  ASSUME FInv, NEW p \in tasks, NEW F \in SUBSET Fd, do_close(p, F),
         tasks' = tasks \/ (tasks' = tasks \ {p} /\ F = OpenFds(p)),
         UNCHANGED <<next_pid, limit_reached>>,
         next_fd' \in [Pid -> Fd],
         \A q \in Pid : q # p \/ F # OpenFds(p) => next_fd'[q] = next_fd[q]
  PROVE  FInv'
<1>1a. /\ \A f \in F : fds'[p][f] = NoSlot
       /\ \A q \in Pid, f \in Fd : q # p \/ f \notin F => fds'[q][f] = fds[q][f]
  BY CloseTable
<1>1b. NoDanglingSlot'
  BY CloseTable
<1>1c. /\ fd_cloexec'[p] = fd_cloexec[p] \ F
       /\ \A q \in Pid : q # p => fd_cloexec'[q] = fd_cloexec[q]
  BY CloseTable
<1>2. TableType'
  BY CloseTable DEF FInv, TableType
<1>3. OnlyLive'
  <2>1. SUFFICES ASSUME NEW q \in Pid, NEW f \in Fd, fds'[q][f] # NoSlot
                 PROVE  q \in tasks'
    BY ByDescriptorNext
  <2>2. fds[q][f] # NoSlot /\ ~(q = p /\ f \in F)
    BY <1>1a, <1>1c, <2>1
  <2>3. q \in tasks
    BY <2>2, ByDescriptor DEF FInv
  <2>4. QED
    BY <2>2, <2>3 DEF OpenFds
<1>4. CloexecIsOpen'
  <2>1. SUFFICES ASSUME NEW q \in Pid, NEW f \in fd_cloexec'[q]
                 PROVE  f \in Fd /\ fds'[q][f] # NoSlot
    BY ByDescriptorNext
  <2>2. f \in fd_cloexec[q] /\ ~(q = p /\ f \in F)
    BY <1>1a, <1>1c, <2>1
  <2>3. f \in Fd /\ fds[q][f] # NoSlot
    BY <2>2, ByDescriptor DEF FInv
  <2>4. QED
    BY <2>2, <2>3, <1>1a
<1>5. NextFdFresh'
  <2>1. SUFFICES ASSUME ~limit_reached', NEW q \in Pid, NEW f \in Fd, fds'[q][f] # NoSlot
                 PROVE  f < next_fd'[q]
    BY ByDescriptorNext
  <2>2. fds[q][f] # NoSlot /\ ~(q = p /\ f \in F)
    BY <1>1a, <1>1c, <2>1
  <2>3. f < next_fd[q]
    BY <2>1, <2>2, ByDescriptor DEF FInv
  <2>4. q # p \/ F # OpenFds(p)
    BY <2>2 DEF OpenFds
  <2>5. QED
    BY <2>3, <2>4
<1>6. QED
  BY <1>2, <1>3, <1>4, <1>5, <1>1b DEF FInv

\* What open, dup and dup3 have in common: entry g of p's table is set to a slot
\* s in use, no other descriptor loses its slot, and next_fd goes above g.
Inserts(p, g, s) ==
  /\ fds' = [fds EXCEPT ![p][g] = s]
  /\ free_slots' \subseteq Slot /\ s \notin free_slots'
  /\ \A q \in Pid, f \in Fd : fds[q][f] # NoSlot /\ ~(q = p /\ f = g) =>
       fds[q][f] \notin free_slots'
  /\ fd_cloexec' \in [Pid -> SUBSET Fd]
  /\ \A q \in Pid : \A f \in fd_cloexec'[q] : f \in fd_cloexec[q] \/ (q = p /\ f = g)
  /\ next_fd' \in [Pid -> Fd]
  /\ limit_reached' \in BOOLEAN /\ (limit_reached => limit_reached')
  /\ ~limit_reached' => /\ \A q \in Pid : next_fd[q] <= next_fd'[q]
                        /\ g < next_fd'[p]
  /\ UNCHANGED taskVars

\* Such a call preserves the invariant.
LEMMA InsertInv ==
  ASSUME FInv, NEW p \in tasks, NEW g \in Fd, NEW s \in Slot, Inserts(p, g, s)
  PROVE  FInv'
<1> USE DEF Inserts
<1>1. p \in Pid
  BY DEF FInv, TableType
<1>2. /\ fds' \in [Pid -> [Fd -> Slot \cup {NoSlot}]]
      /\ \A q \in Pid, f \in Fd : fds'[q][f] = IF q = p /\ f = g THEN s ELSE fds[q][f]
  BY <1>1 DEF FInv, TableType
<1>3. TableType'
  BY <1>2 DEF FInv, TableType, taskVars
<1>4. OnlyLive'
  <2>1. SUFFICES ASSUME NEW q \in Pid, NEW f \in Fd, fds'[q][f] # NoSlot
                 PROVE  q \in tasks
    BY ByDescriptorNext DEF taskVars
  <2>2. QED
    BY <1>2, <2>1, ByDescriptor DEF FInv
<1>5. NoDanglingSlot'
  BY <1>2, ByDescriptorNext, ByDescriptor DEF FInv
<1>6. CloexecIsOpen'
  <2>1. SUFFICES ASSUME NEW q \in Pid, NEW f \in fd_cloexec'[q]
                 PROVE  f \in Fd /\ fds'[q][f] # NoSlot
    BY ByDescriptorNext
  <2>2. (q = p /\ f = g) \/ f \in fd_cloexec[q]
    BY <2>1
  <2>3. s # NoSlot
    BY NamesAssumption
  <2>4. QED
    BY <1>1, <1>2, <2>2, <2>3, ByDescriptor DEF FInv
<1>7. NextFdFresh'
  <2>1. SUFFICES ASSUME ~limit_reached', NEW q \in Pid, NEW f \in Fd, fds'[q][f] # NoSlot
                 PROVE  f < next_fd'[q]
    BY ByDescriptorNext
  <2>2. CASE q = p /\ f = g
    BY <2>1, <2>2
  <2>3. CASE ~(q = p /\ f = g)
    <3>1. fds[q][f] # NoSlot
      BY <1>2, <2>1, <2>3
    <3>2. f < next_fd[q] /\ next_fd[q] <= next_fd'[q]
      BY <2>1, <3>1, ByDescriptor DEF FInv
    <3>3. f \in Int /\ next_fd[q] \in Int /\ next_fd'[q] \in Int
      BY <1>3, BoundsAssumption DEF FInv, TableType, Fd
    <3>4. QED
      BY <3>2, <3>3
  <2>4. QED
    BY <2>2, <2>3
<1>8. QED
  BY <1>3, <1>4, <1>5, <1>6, <1>7 DEF FInv

\* Marking a descriptor, or taking its mark, leaves the other marks alone.
LEMMA MarkTypes ==
  ASSUME FInv, NEW p \in tasks, NEW g \in Fd, NEW cloexec, SetCloexec(p, g, cloexec)
  PROVE  /\ fd_cloexec' \in [Pid -> SUBSET Fd]
         /\ \A q \in Pid : \A f \in fd_cloexec'[q] :
              f \in fd_cloexec[q] \/ (q = p /\ f = g)
BY DEF FInv, TableType, SetCloexec

\* next_fd goes above the number taken, unless that is the last one.
LEMMA AboveTypes ==
  ASSUME FInv, NEW p \in tasks, NEW g \in Fd, next_fd_above(p, g)
  PROVE  /\ next_fd' \in [Pid -> Fd]
         /\ g # MaxFd => /\ \A q \in Pid : next_fd[q] <= next_fd'[q]
                         /\ g < next_fd'[p]
<1>1. p \in Pid /\ next_fd[p] \in Fd
  BY DEF FInv, TableType
<1>2. SaturatingSucc(g) \in Fd /\ (g # MaxFd => g < SaturatingSucc(g))
  BY BoundsAssumption DEF SaturatingSucc, Fd
<1>3. next_fd' \in [Pid -> Fd]
  BY <1>1, <1>2 DEF FInv, TableType, next_fd_above
<1>4. ASSUME g # MaxFd
      PROVE  /\ \A q \in Pid : next_fd[q] <= next_fd'[q]
             /\ g < next_fd'[p]
  <2>1. next_fd'[p] = IF next_fd[p] <= g THEN SaturatingSucc(g) ELSE next_fd[p]
    BY <1>1 DEF FInv, TableType, next_fd_above
  <2>2. \A q \in Pid : q # p => next_fd'[q] = next_fd[q]
    BY DEF FInv, TableType, next_fd_above
  <2>3. \A q \in Pid : next_fd[q] \in Int
    BY BoundsAssumption DEF FInv, TableType, Fd
  <2>4. g < next_fd'[p] /\ next_fd[p] <= next_fd'[p]
    BY <1>1, <1>2, <1>4, <2>1, BoundsAssumption DEF Fd
  <2>5. QED
    BY <2>2, <2>3, <2>4
<1>5. QED
  BY <1>3, <1>4

\* What load_init leaves satisfies the invariant.
LEMMA FilesInit == Init => FInv
<1> SUFFICES ASSUME Init PROVE FInv
  OBVIOUS
<1>1. PICK stdio \in BOOLEAN, s \in Slot :
        /\ fds = [p \in Pid |-> [f \in Fd |->
                    IF stdio /\ p = 1 /\ f \in StdFds THEN s ELSE NoSlot]]
        /\ next_fd = [p \in Pid |-> IF stdio /\ p = 1 THEN FirstUserFd ELSE 0]
        /\ free_slots = IF stdio THEN Slot \ {s} ELSE Slot
  BY DEF Init
<1>2. tasks = {1} /\ next_pid = 2 /\ limit_reached = FALSE
      /\ fd_cloexec = [p \in Pid |-> {}]
  BY DEF Init
<1>3. 1 \in Pid /\ 2 \in 1..(MaxPid + 1) /\ 0 \in Fd /\ FirstUserFd \in Fd
  BY BoundsAssumption, FdAssumption DEF Pid, Fd
<1>4. TableType
  BY <1>1, <1>2, <1>3 DEF TableType
<1>5. \A p \in Pid, f \in Fd : fds[p][f] # NoSlot =>
        stdio /\ p = 1 /\ f \in StdFds /\ fds[p][f] = s
  BY <1>1
<1>6. OnlyLive /\ NoDanglingSlot /\ CloexecIsOpen
  BY <1>1, <1>2, <1>5, ByDescriptor
<1>7. NextFdFresh
  <2>1. SUFFICES ASSUME NEW p \in Pid, NEW f \in Fd, fds[p][f] # NoSlot
                 PROVE  f < next_fd[p]
    BY ByDescriptor
  <2>2. f \in 0..(FirstUserFd - 1) /\ next_fd[p] = FirstUserFd /\ FirstUserFd \in Int
    BY <1>1, <1>5, <2>1, FdAssumption DEF Fd
  <2>3. QED
    BY <2>2
<1>8. QED
  BY <1>4, <1>6, <1>7 DEF FInv

\* close, exit and exec only close.
LEMMA ClosingCalls ==
  ASSUME FInv, NEW p \in Pid,
         SysExit(p) \/ SysExec(p) \/ \E f \in Fd : SysClose(p, f)
  PROVE  FInv'
<1>1. ASSUME NEW f \in Fd, SysClose(p, f) PROVE FInv'
  <2>1. p \in tasks /\ {f} \in SUBSET Fd /\ do_close(p, {f})
        /\ UNCHANGED <<tasks, next_pid, next_fd, limit_reached>>
    BY <1>1 DEF SysClose, taskVars
  <2>2. next_fd' \in [Pid -> Fd]
    BY <2>1 DEF FInv, TableType
  <2>3. QED
    BY <2>1, <2>2, CloseInv
<1>2. ASSUME SysExec(p) PROVE FInv'
  <2>1. PICK F \in SUBSET Fd : do_close(p, F)
    BY <1>2 DEF SysExec, FInv, TableType
  <2>2. p \in tasks /\ UNCHANGED <<tasks, next_pid, next_fd, limit_reached>>
    BY <1>2 DEF SysExec, taskVars
  <2>3. next_fd' \in [Pid -> Fd]
    BY <2>2 DEF FInv, TableType
  <2>4. QED
    BY <2>1, <2>2, <2>3, CloseInv
<1>3. ASSUME SysExit(p) PROVE FInv'
  <2>1. p \in tasks /\ OpenFds(p) \in SUBSET Fd /\ do_close(p, OpenFds(p))
        /\ tasks' = tasks \ {p} /\ UNCHANGED <<next_pid, limit_reached>>
    BY <1>3 DEF SysExit, OpenFds
  <2>2. /\ next_fd' \in [Pid -> Fd]
        /\ \A q \in Pid : q # p => next_fd'[q] = next_fd[q]
    BY <1>3, BoundsAssumption DEF SysExit, FInv, TableType, Fd
  <2>3. QED
    BY <2>1, <2>2, CloseInv
<1>4. QED
  BY <1>1, <1>2, <1>3

\* open takes next_fd itself and a free slot.
LEMMA OpenCall ==
  ASSUME FInv, NEW p \in Pid, NEW name, NEW s \in Slot, SysOpen(p, name, s)
  PROVE  FInv'
<1>0. PICK g \in Fd : g = next_fd[p]
  BY DEF FInv, TableType
<1>1. /\ p \in tasks /\ s \in free_slots /\ free_slots' = free_slots \ {s}
      /\ fds' = [fds EXCEPT ![p][g] = s]
      /\ next_fd' = [next_fd EXCEPT ![p] = (g + 1) % (MaxFd + 1)]
      /\ limit_reached' = (limit_reached \/ g = MaxFd)
      /\ UNCHANGED taskVars /\ UNCHANGED fd_cloexec
  BY <1>0 DEF SysOpen
<1>2. g \in 0..MaxFd
  BY DEF Fd
<1>3. /\ (g + 1) % (MaxFd + 1) \in 0..MaxFd
      /\ g # MaxFd => (g + 1) % (MaxFd + 1) = g + 1
  BY <1>2, BoundsAssumption
<1>4. next_fd' \in [Pid -> Fd]
  BY <1>1, <1>3 DEF FInv, TableType, Fd
<1>5. ~limit_reached' => /\ \A q \in Pid : next_fd[q] <= next_fd'[q]
                         /\ g < next_fd'[p]
  <2> SUFFICES ASSUME ~limit_reached'
               PROVE  (\A q \in Pid : next_fd[q] <= next_fd'[q]) /\ g < next_fd'[p]
    OBVIOUS
  <2>1. next_fd'[p] = g + 1
    BY <1>1, <1>3 DEF FInv, TableType
  <2>2. \A q \in Pid : q # p => next_fd'[q] = next_fd[q]
    BY <1>1 DEF FInv, TableType
  <2>3. \A q \in Pid : next_fd[q] \in Int
    BY BoundsAssumption DEF FInv, TableType, Fd
  <2>4. QED
    BY <1>0, <1>2, <2>1, <2>2, <2>3
<1>6. /\ limit_reached' \in BOOLEAN /\ (limit_reached => limit_reached')
      /\ free_slots' \subseteq Slot /\ s \notin free_slots'
      /\ fd_cloexec' \in [Pid -> SUBSET Fd]
      /\ \A q \in Pid : \A f \in fd_cloexec'[q] : f \in fd_cloexec[q] \/ (q = p /\ f = g)
  BY <1>1 DEF FInv, TableType
<1>7. \A q \in Pid, f \in Fd : fds[q][f] # NoSlot /\ ~(q = p /\ f = g) =>
        fds[q][f] \notin free_slots'
  BY <1>1, ByDescriptor DEF FInv
<1>8. Inserts(p, g, s)
  BY <1>1, <1>4, <1>5, <1>6, <1>7 DEF Inserts
<1>9. QED
  BY <1>1, <1>8, InsertInv

\* dup and dup3 put a slot that p already names at another number.
LEMMA DupCalls ==
  ASSUME FInv, NEW p \in Pid, NEW f \in Fd, NEW cloexec,
         (\E min \in MinFds : SysDup(p, f, min, cloexec))
           \/ (\E g \in Targets : SysDup3(p, f, g, cloexec))
  PROVE  FInv'
<1>1. p \in tasks /\ f \in OpenFds(p)
  BY DEF SysDup, SysDup3
<1>2. PICK s \in Slot : s = fds[p][f]
  BY <1>1 DEF FInv, TableType, OpenFds
<1>3. s \notin free_slots
  BY <1>1, <1>2, ByDescriptor DEF FInv, OpenFds
<1>4. ASSUME NEW g \in Fd, SetCloexec(p, g, cloexec), next_fd_above(p, g),
             fds' = [fds EXCEPT ![p][g] = fds[p][f]],
             limit_reached' = (limit_reached \/ g = MaxFd), UNCHANGED taskVars,
             free_slots' \subseteq Slot, s \notin free_slots',
             \A q \in Pid, h \in Fd : fds[q][h] # NoSlot /\ ~(q = p /\ h = g) =>
               fds[q][h] \notin free_slots'
      PROVE  FInv'
  <2>1. limit_reached' \in BOOLEAN /\ (limit_reached => limit_reached')
        /\ (~limit_reached' => g # MaxFd)
    BY <1>4 DEF FInv, TableType
  <2>2. Inserts(p, g, s)
    BY <1>1, <1>2, <1>4, <2>1, MarkTypes, AboveTypes DEF Inserts
  <2>3. QED
    BY <1>1, <2>2, InsertInv
<1>5. ASSUME NEW min \in MinFds, SysDup(p, f, min, cloexec) PROVE FInv'
  <2>1. PICK g \in Fd : /\ fds' = [fds EXCEPT ![p][g] = fds[p][f]]
                        /\ SetCloexec(p, g, cloexec) /\ next_fd_above(p, g)
                        /\ limit_reached' = (limit_reached \/ g = MaxFd)
    BY <1>5 DEF SysDup
  <2>2. free_slots' = free_slots /\ UNCHANGED taskVars
    BY <1>5 DEF SysDup, slotVars
  <2>3. free_slots' \subseteq Slot /\ s \notin free_slots'
    BY <1>3, <2>2 DEF FInv, TableType
  <2>4. \A q \in Pid, h \in Fd : fds[q][h] # NoSlot /\ ~(q = p /\ h = g) =>
          fds[q][h] \notin free_slots'
    BY <2>2, ByDescriptor DEF FInv
  <2>5. QED
    BY <1>4, <2>1, <2>2, <2>3, <2>4
<1>6. ASSUME NEW g \in Targets, SysDup3(p, f, g, cloexec) PROVE FInv'
  <2>1. g \in Fd /\ f # g
    BY <1>6, FdAssumption DEF SysDup3
  <2>2. /\ fds' = [fds EXCEPT ![p][g] = fds[p][f]]
        /\ SetCloexec(p, g, cloexec) /\ next_fd_above(p, g)
        /\ limit_reached' = (limit_reached \/ g = MaxFd) /\ UNCHANGED taskVars
        /\ free_slots' = free_slots \cup ReleasedBy(p, {g} \cap OpenFds(p))
    BY <1>6 DEF SysDup3, ReleaseSlots
  <2>3. \A q \in Pid, h \in Fd : fds[q][h] # NoSlot /\ ~(q = p /\ h = g) =>
          fds[q][h] \notin free_slots'
    <3>1. SUFFICES ASSUME NEW q \in Pid, NEW h \in Fd, fds[q][h] # NoSlot,
                          ~(q = p /\ h = g)
                   PROVE  fds[q][h] \notin free_slots'
      OBVIOUS
    <3>2. q \in tasks /\ fds[q][h] \notin free_slots
      BY <3>1, ByDescriptor DEF FInv
    <3>3. still_shared(fds[q][h], p, {g} \cap OpenFds(p))
      BY <3>1, <3>2 DEF still_shared
    <3>4. QED
      BY <2>2, <3>2, <3>3 DEF ReleasedBy
  <2>4. free_slots' \subseteq Slot
    BY <2>2 DEF FInv, TableType, ReleasedBy
  <2>5. s \notin free_slots'
    BY <1>1, <1>2, <2>1, <2>3 DEF OpenFds
  <2>6. QED
    BY <1>4, <2>1, <2>2, <2>3, <2>4, <2>5
<1>7. QED
  BY <1>5, <1>6

\* A call that opens no descriptor and frees no slot, drops marks at most, and
\* moves next_fd up at most.
Quiet ==
  /\ UNCHANGED <<tasks, next_pid, fds>>
  /\ free_slots' \subseteq free_slots
  /\ fd_cloexec' \in [Pid -> SUBSET Fd]
  /\ \A q \in Pid : fd_cloexec'[q] \subseteq fd_cloexec[q]
  /\ next_fd' \in [Pid -> Fd]
  /\ limit_reached' \in BOOLEAN /\ (limit_reached => limit_reached')
  /\ ~limit_reached' => \A q \in Pid : next_fd[q] <= next_fd'[q]

\* Such a call preserves the invariant.
LEMMA QuietInv == FInv /\ Quiet => FInv'
<1> SUFFICES ASSUME FInv, Quiet PROVE FInv'
  OBVIOUS
<1>1. TableType'
  BY DEF FInv, TableType, Quiet
<1>2. OnlyLive' /\ NoDanglingSlot' /\ CloexecIsOpen'
  BY ByDescriptor, ByDescriptorNext DEF FInv, Quiet
<1>3. NextFdFresh'
  <2>1. SUFFICES ASSUME ~limit_reached', NEW q \in Pid, NEW f \in Fd, fds'[q][f] # NoSlot
                 PROVE  f < next_fd'[q]
    BY ByDescriptorNext
  <2>2. f < next_fd[q] /\ next_fd[q] <= next_fd'[q]
    BY <2>1, ByDescriptor DEF FInv, Quiet
  <2>3. f \in Int /\ next_fd[q] \in Int /\ next_fd'[q] \in Int
    BY <1>1, BoundsAssumption DEF FInv, TableType, Fd
  <2>4. QED
    BY <2>2, <2>3
<1>4. QED
  BY <1>1, <1>2, <1>3 DEF FInv

\* A call that leaves next_fd and the marks alone too.
LEMMA StillInv ==
  ASSUME FInv, UNCHANGED <<tasks, next_pid, fds, fd_cloexec, next_fd>>,
         free_slots' \subseteq free_slots,
         limit_reached' \in BOOLEAN, limit_reached => limit_reached'
  PROVE  FInv'
<1>1. \A q \in Pid : next_fd[q] \in Int
  BY BoundsAssumption DEF FInv, TableType, Fd
<1>2. Quiet
  BY <1>1 DEF FInv, TableType, Quiet
<1>3. QED
  BY <1>2, QuietInv

\* F_SETFD marks open descriptors only.
LEMMA SetFdCall ==
  ASSUME FInv, NEW p \in Pid, NEW f \in Fd, NEW cloexec, SysSetFd(p, f, cloexec)
  PROVE  FInv'
<1>1. /\ p \in tasks /\ fds[p][f] # NoSlot /\ SetCloexec(p, f, cloexec)
      /\ UNCHANGED <<tasks, next_pid, fds, next_fd, limit_reached, free_slots>>
  BY DEF SysSetFd, OpenFds, taskVars, slotVars
<1>2. TableType'
  BY <1>1, MarkTypes DEF FInv, TableType
<1>3. OnlyLive' /\ NoDanglingSlot' /\ NextFdFresh'
  BY <1>1, ByDescriptor, ByDescriptorNext DEF FInv
<1>4. CloexecIsOpen'
  <2>1. SUFFICES ASSUME NEW q \in Pid, NEW g \in fd_cloexec'[q]
                 PROVE  g \in Fd /\ fds[q][g] # NoSlot
    BY <1>1, ByDescriptorNext
  <2>2. g \in fd_cloexec[q] \/ (q = p /\ g = f)
    BY <1>1, <2>1, MarkTypes
  <2>3. QED
    BY <1>1, <2>2, ByDescriptor DEF FInv
<1>5. QED
  BY <1>2, <1>3, <1>4 DEF FInv

\* The numbers pipe2 takes are free, different and not below next_fd.
LEMMA PipeNumbers ==
  ASSUME FInv, NEW p \in Pid, NEW fr \in Fd, NEW fw \in Fd, PipeFds(p, fr, fw)
  PROVE  /\ fds[p][fr] = NoSlot /\ fds[p][fw] = NoSlot
         /\ next_fd[p] <= fr /\ fr < fw
         /\ SaturatingSucc(fw) \in Fd
         /\ fw # MaxFd => SaturatingSucc(fw) = fw + 1
<1>1. fds[p][fr] = NoSlot /\ fds[p][fw] = NoSlot /\ next_fd[p] <= fr /\ fr + 1 <= fw
  BY BoundsAssumption DEF FInv, TableType, PipeFds, LeastFree, OpenFds, Fd
<1>2. SaturatingSucc(fw) \in Fd /\ (fw # MaxFd => SaturatingSucc(fw) = fw + 1)
  BY BoundsAssumption DEF SaturatingSucc, Fd
<1>3. fr < fw
  BY <1>1, BoundsAssumption DEF Fd
<1>4. QED
  BY <1>1, <1>2, <1>3

\* pipe2 with both numbers taken.
LEMMA PipeCall ==
  ASSUME FInv, NEW p \in Pid, NEW cloexec, NEW sr \in Slot, NEW sw \in Slot,
         NEW fr \in Fd, NEW fw \in Fd, SysPipe2(p, cloexec, sr, sw, fr, fw)
  PROVE  FInv'
<1>1. /\ p \in tasks /\ PipeFds(p, fr, fw)
      /\ sr \in free_slots /\ sw \in free_slots /\ free_slots' = free_slots \ {sr, sw}
      /\ fds' = [fds EXCEPT ![p][fr] = sr, ![p][fw] = sw]
      /\ fd_cloexec' = [fd_cloexec EXCEPT
                          ![p] = IF cloexec THEN @ \cup {fr, fw} ELSE @ \ {fr, fw}]
      /\ next_fd' = [next_fd EXCEPT ![p] = SaturatingSucc(fw)]
      /\ limit_reached' = (limit_reached \/ fw = MaxFd)
      /\ UNCHANGED <<tasks, next_pid>>
  BY DEF SysPipe2, OpenEnds, taskVars
<1>2. fr # fw /\ fr \in Int /\ fw \in Int /\ fr < fw /\ next_fd[p] <= fr
      /\ SaturatingSucc(fw) \in Fd /\ (fw # MaxFd => SaturatingSucc(fw) = fw + 1)
  BY <1>1, PipeNumbers, BoundsAssumption DEF Fd
<1>3. /\ fds' \in [Pid -> [Fd -> Slot \cup {NoSlot}]]
      /\ fds'[p][fr] = sr /\ fds'[p][fw] = sw
      /\ \A q \in Pid, f \in Fd : q # p \/ (f # fr /\ f # fw) => fds'[q][f] = fds[q][f]
  BY <1>1, <1>2 DEF FInv, TableType
<1>4. TableType'
  BY <1>1, <1>2, <1>3 DEF FInv, TableType
<1>5. OnlyLive'
  BY <1>1, <1>3, ByDescriptor, ByDescriptorNext DEF FInv
<1>6. NoDanglingSlot'
  BY <1>1, <1>3, ByDescriptor, ByDescriptorNext DEF FInv
<1>7. CloexecIsOpen'
  <2>1. SUFFICES ASSUME NEW q \in Pid, NEW f \in fd_cloexec'[q]
                 PROVE  f \in Fd /\ fds'[q][f] # NoSlot
    BY ByDescriptorNext
  <2>2. f \in fd_cloexec[q] \/ (q = p /\ f \in {fr, fw})
    BY <1>1, <2>1 DEF FInv, TableType
  <2>3. sr # NoSlot /\ sw # NoSlot
    BY NamesAssumption
  <2>4. QED
    BY <1>3, <2>2, <2>3, ByDescriptor DEF FInv
<1>8. NextFdFresh'
  <2>1. SUFFICES ASSUME ~limit_reached', NEW q \in Pid, NEW f \in Fd, fds'[q][f] # NoSlot
                 PROVE  f < next_fd'[q]
    BY ByDescriptorNext
  <2>2. CASE q # p
    BY <1>1, <1>3, <2>1, <2>2, ByDescriptor DEF FInv, TableType
  <2>3. CASE q = p
    <3>1. next_fd'[p] = fw + 1
      BY <1>1, <1>2, <2>1 DEF FInv, TableType
    <3>2. f \in {fr, fw} \/ f < next_fd[p]
      BY <1>1, <1>3, <2>1, <2>3, ByDescriptor, ZenonT(60) DEF FInv
    <3>3. f \in Int /\ next_fd[p] \in Int
      BY BoundsAssumption DEF FInv, TableType, Fd
    <3>4. QED
      BY <1>2, <2>3, <3>1, <3>2, <3>3
  <2>4. QED
    BY <2>2, <2>3
<1>9. QED
  BY <1>4, <1>5, <1>6, <1>7, <1>8 DEF FInv

\* The ways pipe2 fails, and pipe I/O.
LEMMA PipeFailures ==
  ASSUME FInv, NEW p \in Pid,
         \/ SysPipeNotOpened(p)
         \/ \E sr, sw \in Slot : SysPipeNoNumber(p, sr, sw)
         \/ \E fr, fw \in Fd : SysPipeNotCopied(p, fr, fw)
         \/ \E f \in Fd, i \in PipeId : SysPipeRead(p, f, i) \/ SysPipeWrite(p, f, i)
  PROVE  FInv'
<1>1. ASSUME SysPipeNotOpened(p) PROVE FInv'
  BY <1>1, StillInv
  DEF SysPipeNotOpened, PipeUnchanged, taskVars, tableVars, slotVars, FInv, TableType
<1>2. ASSUME NEW sr \in Slot, NEW sw \in Slot, SysPipeNoNumber(p, sr, sw) PROVE FInv'
  BY <1>2, StillInv DEF SysPipeNoNumber, PipeUnchanged, OpenEnds, taskVars
<1>3. ASSUME NEW f \in Fd, NEW i \in PipeId, SysPipeRead(p, f, i) \/ SysPipeWrite(p, f, i)
      PROVE  FInv'
  BY <1>3, StillInv
  DEF SysPipeRead, SysPipeWrite, taskVars, tableVars, slotVars, FInv, TableType
<1>4. ASSUME NEW fr \in Fd, NEW fw \in Fd, SysPipeNotCopied(p, fr, fw) PROVE FInv'
  <2>1. /\ PipeFds(p, fr, fw)
        /\ fd_cloexec' = [fd_cloexec EXCEPT ![p] = @ \ {fr, fw}]
        /\ next_fd' = [next_fd EXCEPT ![p] = SaturatingSucc(fw)]
        /\ limit_reached' = (limit_reached \/ fw = MaxFd)
        /\ UNCHANGED <<tasks, next_pid, fds, free_slots>>
    BY <1>4 DEF SysPipeNotCopied, PipeUnchanged, taskVars, slotVars
  <2>2. /\ next_fd[p] <= fr /\ fr < fw /\ SaturatingSucc(fw) \in Fd
        /\ fw # MaxFd => SaturatingSucc(fw) = fw + 1
    BY <2>1, PipeNumbers
  <2>3. /\ next_fd' \in [Pid -> Fd] /\ fd_cloexec' \in [Pid -> SUBSET Fd]
        /\ \A q \in Pid : fd_cloexec'[q] \subseteq fd_cloexec[q]
        /\ limit_reached' \in BOOLEAN /\ (limit_reached => limit_reached')
    BY <2>1, <2>2 DEF FInv, TableType
  <2>4. ~limit_reached' => \A q \in Pid : next_fd[q] <= next_fd'[q]
    <3>1. \A q \in Pid : next_fd[q] \in Int
      BY BoundsAssumption DEF FInv, TableType, Fd
    <3>2. \A q \in Pid : q # p => next_fd'[q] = next_fd[q]
      BY <2>1 DEF FInv, TableType
    <3>3. ~limit_reached' => next_fd'[p] = fw + 1
      BY <2>1, <2>2 DEF FInv, TableType
    <3>4. ~limit_reached' => next_fd[p] <= next_fd'[p]
      BY <2>2, <3>1, <3>3, BoundsAssumption DEF Fd
    <3>5. QED
      BY <3>1, <3>2, <3>4
  <2>5. Quiet
    BY <2>1, <2>3, <2>4 DEF Quiet
  <2>6. QED
    BY <2>5, QuietInv
<1>5. QED
  BY <1>1, <1>2, <1>3, <1>4

\* The child's tables are the parent's, or those of a process without files.
LEMMA ForkCall ==
  ASSUME FInv, NEW p \in Pid, NEW copied \in BOOLEAN, SysFork(p, copied)
  PROVE  FInv'
<1>1. PICK c \in Pid : c = next_pid
  BY BoundsAssumption DEF SysFork, FInv, TableType, Pid
<1>2. /\ p \in tasks /\ tasks' = tasks \cup {c} /\ next_pid' = c + 1
      /\ UNCHANGED <<limit_reached, free_slots>>
      /\ copied => /\ fds' = [fds EXCEPT ![c] = fds[p]]
                   /\ fd_cloexec' = [fd_cloexec EXCEPT ![c] = fd_cloexec[p]]
                   /\ next_fd' = [next_fd EXCEPT ![c] = next_fd[p]]
      /\ ~copied => UNCHANGED <<fds, fd_cloexec, next_fd>>
  BY <1>1 DEF SysFork, slotVars
<1>3. next_pid' \in 1..(MaxPid + 1)
  BY <1>1, <1>2, BoundsAssumption DEF Pid
<1>4. TableType'
  BY <1>2, <1>3 DEF FInv, TableType
<1>5. CASE ~copied
  BY <1>2, <1>4, <1>5, ByDescriptor, ByDescriptorNext DEF FInv
<1>6. CASE copied
  <2>1. \A q \in Pid : /\ q = c => /\ fds'[q] = fds[p] /\ fd_cloexec'[q] = fd_cloexec[p]
                                   /\ next_fd'[q] = next_fd[p]
                       /\ q # c => /\ fds'[q] = fds[q] /\ fd_cloexec'[q] = fd_cloexec[q]
                                   /\ next_fd'[q] = next_fd[q]
    BY <1>2, <1>6 DEF FInv, TableType
  <2>2. OnlyLive' /\ NoDanglingSlot'
    BY <1>2, <2>1, ByDescriptor, ByDescriptorNext DEF FInv
  <2>3. CloexecIsOpen'
    BY <2>1, ByDescriptor, ByDescriptorNext DEF FInv
  <2>4. NextFdFresh'
    BY <1>2, <2>1, ByDescriptor, ByDescriptorNext DEF FInv
  <2>5. QED
    BY <1>4, <2>2, <2>3, <2>4 DEF FInv
<1>7. QED
  BY <1>5, <1>6

\* Every call preserves the invariant.
LEMMA FilesInductive == FInv /\ [Next]_vars => FInv'
<1> SUFFICES ASSUME FInv, [Next]_vars PROVE FInv'
  OBVIOUS
<1>1. CASE UNCHANGED vars
  BY <1>1, StillInv DEF vars, taskVars, tableVars, slotVars, FInv, TableType
<1>2. ASSUME NEW p \in Pid, Syscall(p) PROVE FInv'
  BY <1>2, ClosingCalls, OpenCall, DupCalls, SetFdCall, PipeCall, PipeFailures, ForkCall
  DEF Syscall
<1>3. QED
  BY <1>1, <1>2 DEF Next

\* The invariant holds in every run.
LEMMA FilesInvariant == Spec => []FInv
<1>1. QED
  BY FilesInit, FilesInductive, PTL DEF Spec

\* In every run, no descriptor of any process names a freed endpoint slot.
THEOREM NoDangling == Spec => []NoDanglingSlot
<1>1. FInv => NoDanglingSlot
  BY DEF FInv
<1>2. QED
  BY <1>1, FilesInvariant, PTL

\* In every run, until a table comes to the last number, next_fd is above every
\* open descriptor: open replaces none.
THEOREM NextFdAbove == Spec => []NextFdFresh
<1>1. FInv => NextFdFresh
  BY DEF FInv
<1>2. QED
  BY <1>1, FilesInvariant, PTL

\* In every run, only open descriptors are marked close-on-exec: the closing
\* loop of exec never aborts.
THEOREM CloexecOpen == Spec => []CloexecIsOpen
<1>1. FInv => CloexecIsOpen
  BY DEF FInv
<1>2. QED
  BY <1>1, FilesInvariant, PTL

(***************************************************************************)
(* Pipe ends.  An end is opened once, on the slot that holds it until the  *)
(* last descriptor for it goes: PInv is inductive and gives the counters.  *)
(***************************************************************************)
Ends == PipeId \X {"r", "w"}

EndType ==
  /\ free_slots \subseteq Slot
  /\ ep \in [Slot -> Path \cup {Closed} \cup Ends]
  /\ pipes \subseteq PipeId /\ next_pipe_id \in 1..(MaxPipe + 1)
  /\ readers \in [PipeId -> {0, 1}] /\ writers \in [PipeId -> {0, 1}]
  /\ buf \in [PipeId -> 0..PipeCapacity]

\* A free slot holds nothing.
FreeClosed == \A s \in free_slots : ep[s] = Closed

\* No pipe end is held by two slots, and none of a pipe that is still to come.
UniqueEnds == \A s, t \in Slot : ep[s] = ep[t] /\ ep[s] \in Ends => s = t
NoFutureEnds ==
  \A s \in Slot, i \in PipeId : ep[s] \in {ReadEnd(i), WriteEnd(i)} => i < next_pipe_id

EndsCounted ==
  \A i \in PipeId : /\ readers[i] = 1 <=> \E s \in Slot : ep[s] = ReadEnd(i)
                    /\ writers[i] = 1 <=> \E s \in Slot : ep[s] = WriteEnd(i)
PipesKept == \A i \in PipeId : readers[i] # 0 \/ writers[i] # 0 \/ buf[i] # 0 => i \in pipes

PInv == EndType /\ FreeClosed /\ UniqueEnds /\ NoFutureEnds /\ EndsCounted /\ PipesKept

\* The two ends of a pipe, and the ends of two pipes, differ.
LEMMA EndsDiffer ==
  ASSUME NEW i \in PipeId, NEW j \in PipeId
  PROVE  /\ ReadEnd(i) \in Ends /\ WriteEnd(i) \in Ends /\ ReadEnd(i) # WriteEnd(j)
         /\ ReadEnd(i) = ReadEnd(j) => i = j
         /\ WriteEnd(i) = WriteEnd(j) => i = j
         /\ ReadEnd(i) \notin Path \cup {Closed} /\ WriteEnd(i) \notin Path \cup {Closed}
BY NamesAssumption DEF ReadEnd, WriteEnd, Ends, Closed

\* Among any slots, at most one holds a given end.
LEMMA EndCount ==
  ASSUME UniqueEnds, NEW S \in SUBSET Slot, NEW e \in Ends
  PROVE  Cardinality(ClosedEnds(S, e)) = IF \E s \in S : ep[s] = e THEN 1 ELSE 0
<1>1. CASE \E s \in S : ep[s] = e
  <2>1. PICK s \in S : ep[s] = e
    BY <1>1
  <2>2. ClosedEnds(S, e) = {s}
    BY <2>1 DEF ClosedEnds, UniqueEnds
  <2> QED
    BY <1>1, <2>2, FS_Singleton
<1>2. CASE ~\E s \in S : ep[s] = e
  <2>1. ClosedEnds(S, e) = {}
    BY <1>2 DEF ClosedEnds
  <2> QED
    BY <1>2, <2>1, FS_EmptySet
<1> QED
  BY <1>1, <1>2

\* Releasing slots closes the ends they hold and drops a pipe with its last end.
LEMMA ReleaseEnds ==
  ASSUME PInv, NEW S \in SUBSET Slot, ReleaseSlots(S)
  PROVE  PInv'
<1>1. EndType /\ FreeClosed /\ UniqueEnds /\ NoFutureEnds /\ EndsCounted /\ PipesKept
  BY DEF PInv
<1>2. /\ free_slots' = free_slots \cup S /\ next_pipe_id' = next_pipe_id
      /\ \A s \in Slot : ep'[s] = IF s \in S THEN Closed ELSE ep[s]
      /\ ep' \in [Slot -> Path \cup {Closed} \cup Ends]
  BY <1>1 DEF ReleaseSlots, close_pipe_ends, EndType
<1> DEFINE r(i) == CountDown(readers[i], Cardinality(ClosedEnds(S, ReadEnd(i))))
           w(i) == CountDown(writers[i], Cardinality(ClosedEnds(S, WriteEnd(i))))
<1>3. ASSUME NEW i \in PipeId
      PROVE  /\ r(i) \in {0, 1} /\ w(i) \in {0, 1}
             /\ r(i) = 1 <=> \E s \in Slot : ep'[s] = ReadEnd(i)
             /\ w(i) = 1 <=> \E s \in Slot : ep'[s] = WriteEnd(i)
             /\ r(i) = 1 => readers[i] = 1
             /\ w(i) = 1 => writers[i] = 1
  <2>1. /\ ReadEnd(i) \in Ends /\ WriteEnd(i) \in Ends
        /\ ReadEnd(i) # Closed /\ WriteEnd(i) # Closed
    BY EndsDiffer
  <2>2. /\ readers[i] \in {0, 1} /\ writers[i] \in {0, 1}
        /\ readers[i] = 1 <=> \E s \in Slot : ep[s] = ReadEnd(i)
        /\ writers[i] = 1 <=> \E s \in Slot : ep[s] = WriteEnd(i)
    BY <1>1 DEF EndType, EndsCounted
  <2>3. /\ Cardinality(ClosedEnds(S, ReadEnd(i)))
             = IF \E s \in S : ep[s] = ReadEnd(i) THEN 1 ELSE 0
        /\ Cardinality(ClosedEnds(S, WriteEnd(i)))
             = IF \E s \in S : ep[s] = WriteEnd(i) THEN 1 ELSE 0
    BY <1>1, <2>1, EndCount
  <2>4. ASSUME NEW e \in Ends, e # Closed
        PROVE  (\E s \in Slot : ep'[s] = e) <=>
                 (\E s \in Slot : ep[s] = e) /\ ~\E s \in S : ep[s] = e
    BY <1>1, <1>2, <2>4 DEF UniqueEnds
  <2> QED
    BY <2>1, <2>2, <2>3, <2>4 DEF CountDown
<1>4. /\ readers' = [i \in PipeId |-> r(i)] /\ writers' = [i \in PipeId |-> w(i)]
      /\ pipes' \subseteq pipes
      /\ \A i \in pipes : r(i) # 0 \/ w(i) # 0 => i \in pipes'
      /\ buf' = [i \in PipeId |-> IF i \in pipes' THEN buf[i] ELSE 0]
  BY DEF ReleaseSlots, close_pipe_ends
<1> HIDE DEF r, w
<1>5. EndType'
  BY <1>1, <1>2, <1>3, <1>4, BoundsAssumption DEF EndType
<1>6. FreeClosed'
  BY <1>1, <1>2 DEF FreeClosed, EndType
<1>7. UniqueEnds' /\ NoFutureEnds'
  <2>1. Closed \notin Ends
    BY NamesAssumption DEF Closed, Ends
  <2>2. \A s \in Slot, i \in PipeId : ep'[s] \in {ReadEnd(i), WriteEnd(i)} => ep'[s] = ep[s]
    BY <1>2, EndsDiffer
  <2> QED
    BY <1>1, <1>2, <2>1, <2>2 DEF UniqueEnds, NoFutureEnds
<1>8. EndsCounted'
  BY <1>3, <1>4 DEF EndsCounted
<1>9. PipesKept'
  BY <1>1, <1>3, <1>4 DEF PipesKept
<1> QED
  BY <1>5, <1>6, <1>7, <1>8, <1>9 DEF PInv

\* An opened file takes a free slot and touches no pipe.
LEMMA OpenSlot ==
  ASSUME PInv, NEW s \in free_slots, NEW name \in Path,
         free_slots' = free_slots \ {s}, ep' = [ep EXCEPT ![s] = name], UNCHANGED pipeVars
  PROVE  PInv'
<1>1. EndType /\ FreeClosed /\ UniqueEnds /\ NoFutureEnds /\ EndsCounted /\ PipesKept
  BY DEF PInv
<1>2. /\ s \in Slot /\ ep[s] = Closed
      /\ \A t \in Slot : ep'[t] = IF t = s THEN name ELSE ep[t]
  BY <1>1 DEF EndType, FreeClosed
<1>3. name \notin Ends /\ Closed \notin Ends
  BY NamesAssumption DEF Closed, Ends
<1>4. EndType'
  BY <1>1, <1>2 DEF EndType, pipeVars
<1>5. \A t \in Slot, e \in Ends : ep'[t] = e <=> ep[t] = e
  BY <1>2, <1>3
<1>6. \A i \in PipeId : ReadEnd(i) \in Ends /\ WriteEnd(i) \in Ends
  BY EndsDiffer
<1>7. FreeClosed' /\ UniqueEnds' /\ NoFutureEnds'
  BY <1>1, <1>2, <1>3, <1>5, <1>6 DEF FreeClosed, UniqueEnds, NoFutureEnds, pipeVars, EndType
<1>8. EndsCounted' /\ PipesKept'
  BY <1>1, <1>5, <1>6 DEF EndsCounted, PipesKept, pipeVars
<1> QED
  BY <1>4, <1>7, <1>8 DEF PInv

\* A pipe without ends, in the registry or not.
LEMMA EmptyPipe ==
  ASSUME PInv, NewPipe(0, 0), UNCHANGED slotVars,
         pipes' = pipes \/ pipes' = pipes \cup {next_pipe_id}
  PROVE  PInv'
<1>1. EndType /\ FreeClosed /\ UniqueEnds /\ NoFutureEnds /\ EndsCounted /\ PipesKept
  BY DEF PInv
<1>2. PICK n \in PipeId : n = next_pipe_id
  BY <1>1 DEF EndType, NewPipe, PipeId
<1>3. /\ next_pipe_id' = n + 1 /\ UNCHANGED <<buf, ep, free_slots>>
      /\ readers' = [readers EXCEPT ![n] = 0] /\ writers' = [writers EXCEPT ![n] = 0]
      /\ pipes' = pipes \/ pipes' = pipes \cup {n}
  BY <1>2 DEF NewPipe, slotVars
<1>4. n \in Nat /\ n <= MaxPipe /\ n + 1 \in 1..(MaxPipe + 1)
  BY <1>2, BoundsAssumption DEF NewPipe, PipeId
<1>5. EndType'
  BY <1>1, <1>3, <1>4 DEF EndType
<1>6. \A s \in Slot : ep[s] # ReadEnd(n) /\ ep[s] # WriteEnd(n)
  BY <1>1, <1>2, <1>4 DEF NoFutureEnds
<1>7. \A i \in PipeId : readers'[i] = readers[i] /\ writers'[i] = writers[i]
  <2>1. readers[n] # 1 /\ writers[n] # 1
    BY <1>1, <1>6 DEF EndsCounted
  <2> QED
    BY <1>1, <1>3, <2>1 DEF EndType
<1>8. FreeClosed' /\ UniqueEnds'
  BY <1>1, <1>3 DEF FreeClosed, UniqueEnds
<1>9. NoFutureEnds'
  BY <1>1, <1>2, <1>3, <1>4 DEF NoFutureEnds, PipeId
<1>10. EndsCounted' /\ PipesKept'
  BY <1>1, <1>3, <1>7 DEF EndsCounted, PipesKept
<1> QED
  BY <1>5, <1>8, <1>9, <1>10 DEF PInv

\* A pipe with both ends open.
LEMMA NewEnds ==
  ASSUME PInv, NEW sr, NEW sw, OpenEnds(sr, sw)
  PROVE  PInv'
<1>1. EndType /\ FreeClosed /\ UniqueEnds /\ NoFutureEnds /\ EndsCounted /\ PipesKept
  BY DEF PInv
<1>2. PICK n \in PipeId : n = next_pipe_id
  BY <1>1 DEF EndType, OpenEnds, NewPipe, PipeId
<1>3. /\ next_pipe_id' = n + 1 /\ UNCHANGED buf
      /\ readers' = [readers EXCEPT ![n] = 1] /\ writers' = [writers EXCEPT ![n] = 1]
      /\ pipes' = pipes \cup {n} /\ free_slots' = free_slots \ {sr, sw}
      /\ ep' = [ep EXCEPT ![sr] = ReadEnd(n), ![sw] = WriteEnd(n)]
      /\ sr \in free_slots /\ sw \in free_slots /\ sr # sw
  BY <1>2 DEF OpenEnds, NewPipe
<1>4. n \in Nat /\ n <= MaxPipe /\ n + 1 \in 1..(MaxPipe + 1)
  BY <1>2, BoundsAssumption DEF OpenEnds, NewPipe, PipeId
<1>5. \A s \in Slot : ep[s] # ReadEnd(n) /\ ep[s] # WriteEnd(n)
  BY <1>1, <1>2, <1>4 DEF NoFutureEnds
<1>6. /\ sr \in Slot /\ sw \in Slot /\ ep[sr] = Closed /\ ep[sw] = Closed
      /\ ReadEnd(n) \in Ends /\ WriteEnd(n) \in Ends /\ ReadEnd(n) # WriteEnd(n)
      /\ Closed \notin Ends
  BY <1>1, <1>3, EndsDiffer, NamesAssumption DEF EndType, FreeClosed, Closed, Ends
<1>7. /\ ep' \in [Slot -> Path \cup {Closed} \cup Ends]
      /\ ep'[sr] = ReadEnd(n) /\ ep'[sw] = WriteEnd(n)
      /\ \A s \in Slot : s # sr /\ s # sw => ep'[s] = ep[s]
  BY <1>1, <1>3, <1>6 DEF EndType
<1>8. EndType'
  BY <1>1, <1>3, <1>4, <1>7 DEF EndType
<1>9. FreeClosed' /\ UniqueEnds'
  BY <1>1, <1>3, <1>5, <1>6, <1>7 DEF FreeClosed, UniqueEnds, EndType
<1>10. ASSUME NEW i \in PipeId, NEW s \in Slot
       PROVE  /\ ep'[s] = ReadEnd(i) <=> (IF i = n THEN s = sr ELSE ep[s] = ReadEnd(i))
              /\ ep'[s] = WriteEnd(i) <=> (IF i = n THEN s = sw ELSE ep[s] = WriteEnd(i))
  <2>1. /\ ReadEnd(i) # WriteEnd(n) /\ ReadEnd(n) # WriteEnd(i)
        /\ ReadEnd(i) = ReadEnd(n) => i = n
        /\ WriteEnd(i) = WriteEnd(n) => i = n
        /\ ReadEnd(i) # Closed /\ WriteEnd(i) # Closed
    BY EndsDiffer
  <2> QED
    BY <1>5, <1>6, <1>7, <2>1
<1>11. NoFutureEnds'
  <2> SUFFICES ASSUME NEW s \in Slot, NEW i \in PipeId, ep'[s] \in {ReadEnd(i), WriteEnd(i)}
               PROVE  i < next_pipe_id'
    BY DEF NoFutureEnds
  <2>1. CASE i = n
    BY <1>3, <1>4, <2>1
  <2>2. CASE i # n
    <3>1. i < next_pipe_id
      BY <1>1, <1>10, <2>2 DEF NoFutureEnds
    <3> QED
      BY <1>2, <1>3, <1>4, <3>1, BoundsAssumption DEF PipeId
  <2> QED
    BY <2>1, <2>2
<1>12. \A i \in PipeId : /\ readers'[i] = IF i = n THEN 1 ELSE readers[i]
                         /\ writers'[i] = IF i = n THEN 1 ELSE writers[i]
  BY <1>1, <1>3 DEF EndType
<1>13. EndsCounted'
  BY <1>1, <1>6, <1>10, <1>12 DEF EndsCounted
<1>14. PipesKept'
  BY <1>1, <1>3, <1>12 DEF PipesKept
<1> QED
  BY <1>8, <1>9, <1>11, <1>13, <1>14 DEF PInv

\* Reading and writing a pipe that is in the registry.
LEMMA PipeBytes ==
  ASSUME PInv, NEW p \in Pid, NEW f \in Fd, NEW i \in PipeId,
         SysPipeRead(p, f, i) \/ SysPipeWrite(p, f, i)
  PROVE  PInv'
<1>1. EndType /\ FreeClosed /\ UniqueEnds /\ NoFutureEnds /\ EndsCounted /\ PipesKept
  BY DEF PInv
<1>2. /\ UNCHANGED <<free_slots, ep, pipes, next_pipe_id, readers, writers>>
      /\ i \in pipes
  BY DEF SysPipeRead, SysPipeWrite, slotVars
<1>3. PICK m \in 0..PipeCapacity : buf' = [buf EXCEPT ![i] = m]
  <2>1. buf[i] \in 0..PipeCapacity
    BY <1>1 DEF EndType
  <2>2. CASE SysPipeRead(p, f, i)
    <3>1. PICK n \in 1..buf[i] : buf' = [buf EXCEPT ![i] = @ - n]
      BY <2>2 DEF SysPipeRead
    <3>2. buf[i] - n \in 0..PipeCapacity
      BY <2>1, BoundsAssumption
    <3>3. buf' = [buf EXCEPT ![i] = buf[i] - n]
      BY <3>1
    <3> QED
      BY <3>2, <3>3
  <2>3. CASE SysPipeWrite(p, f, i)
    <3>1. PICK n \in 1..(PipeCapacity - buf[i]) : buf' = [buf EXCEPT ![i] = @ + n]
      BY <2>3 DEF SysPipeWrite
    <3>2. buf[i] + n \in 0..PipeCapacity
      BY <2>1, BoundsAssumption
    <3>3. buf' = [buf EXCEPT ![i] = buf[i] + n]
      BY <3>1
    <3> QED
      BY <3>2, <3>3
  <2> QED
    BY <2>2, <2>3
<1>4. EndType'
  BY <1>1, <1>2, <1>3 DEF EndType
<1>5. PipesKept'
  BY <1>1, <1>2, <1>3 DEF PipesKept, EndType
<1> QED
  BY <1>1, <1>2, <1>4, <1>5 DEF PInv, FreeClosed, UniqueEnds, NoFutureEnds, EndsCounted

\* No pipe is there at first.
LEMMA EndsInit == Init => PInv
<1> SUFFICES ASSUME Init PROVE PInv
  OBVIOUS
<1>1. PICK stdio \in BOOLEAN, s \in Slot :
        /\ free_slots = IF stdio THEN Slot \ {s} ELSE Slot
        /\ ep = [t \in Slot |-> IF stdio /\ t = s THEN TtyPath ELSE Closed]
  BY DEF Init
<1>2. /\ pipes = {} /\ next_pipe_id = 1
      /\ readers = [i \in PipeId |-> 0] /\ writers = [i \in PipeId |-> 0]
      /\ buf = [i \in PipeId |-> 0]
  BY DEF Init
<1>3. \A t \in Slot : ep[t] \in {TtyPath, Closed} /\ ep[t] \notin Ends
  BY <1>1, NamesAssumption DEF Closed, Ends
<1>4. EndType
  BY <1>1, <1>2, NamesAssumption, BoundsAssumption DEF EndType
<1>5. FreeClosed
  BY <1>1 DEF FreeClosed
<1>6. \A i \in PipeId : ReadEnd(i) \in Ends /\ WriteEnd(i) \in Ends
  BY EndsDiffer
<1>7. UniqueEnds /\ NoFutureEnds /\ EndsCounted /\ PipesKept
  BY <1>2, <1>3, <1>6 DEF UniqueEnds, NoFutureEnds, EndsCounted, PipesKept
<1> QED
  BY <1>4, <1>5, <1>7 DEF PInv

\* Every call preserves PInv.
LEMMA EndsInductive == PInv /\ [Next]_vars => PInv'
<1> SUFFICES ASSUME PInv, [Next]_vars PROVE PInv'
  OBVIOUS
<1>1. ASSUME UNCHANGED <<slotVars, pipeVars>> PROVE PInv'
  BY <1>1 DEF PInv, EndType, FreeClosed, UniqueEnds, NoFutureEnds, EndsCounted, PipesKept,
              slotVars, pipeVars
<1>2. ASSUME NEW p, NEW F, do_close(p, F) PROVE PInv'
  <2>1. ReleasedBy(p, F) \in SUBSET Slot /\ ReleaseSlots(ReleasedBy(p, F))
    BY <1>2 DEF do_close, ReleasedBy
  <2> QED
    BY <2>1, ReleaseEnds
<1>3. ASSUME NEW p \in Pid, Syscall(p) PROVE PInv'
  <2>1. CASE SysExit(p) \/ SysExec(p) \/ \E f \in Fd : SysClose(p, f)
    BY <1>2, <2>1 DEF SysExit, SysExec, SysClose
  <2>2. ASSUME \/ \E copied \in BOOLEAN : SysFork(p, copied)
               \/ \E f \in Fd, cloexec \in CloexecFlags :
                    SysSetFd(p, f, cloexec) \/ \E min \in MinFds : SysDup(p, f, min, cloexec)
        PROVE  PInv'
    BY <1>1, <2>2 DEF SysFork, SysSetFd, SysDup
  <2>3. ASSUME NEW name \in Path, NEW s \in Slot, SysOpen(p, name, s) PROVE PInv'
    BY <2>3, OpenSlot DEF SysOpen
  <2>4. ASSUME NEW f \in Fd, NEW g \in Targets, NEW cloexec, SysDup3(p, f, g, cloexec)
        PROVE  PInv'
    <3>1. PICK F : ReleaseSlots(ReleasedBy(p, F))
      BY <2>4 DEF SysDup3
    <3>2. ReleasedBy(p, F) \in SUBSET Slot
      BY DEF ReleasedBy
    <3> QED
      BY <3>1, <3>2, ReleaseEnds
  <2>5. ASSUME SysPipeNotOpened(p) \/ \E fr, fw \in Fd : SysPipeNotCopied(p, fr, fw)
        PROVE  PInv'
    BY <2>5, EmptyPipe DEF SysPipeNotOpened, SysPipeNotCopied
  <2>6. ASSUME NEW sr \in Slot, NEW sw \in Slot,
               \/ \E cloexec \in CloexecFlags, fr, fw \in Fd :
                    SysPipe2(p, cloexec, sr, sw, fr, fw)
               \/ SysPipeNoNumber(p, sr, sw)
        PROVE  PInv'
    BY <2>6, NewEnds DEF SysPipe2, SysPipeNoNumber
  <2> QED
    BY <1>3, <2>1, <2>2, <2>3, <2>4, <2>5, <2>6, PipeBytes DEF Syscall
<1> QED
  BY <1>1, <1>3 DEF Next, vars

\* So it holds in every run.
LEMMA EndsInvariant == Spec => []PInv
BY EndsInit, EndsInductive, PTL DEF Spec

\* The pipe server's counters are the numbers of slots that hold the ends, and
\* no pipe with an open end or with bytes is dropped.
THEOREM PipeEndsCounted == Spec => []PipeEndsMatch
<1>1. ASSUME PInv PROVE PipeEndsMatch
  <2> SUFFICES ASSUME NEW i \in PipeId
               PROVE  /\ readers[i] = Cardinality({s \in Slot : ep[s] = ReadEnd(i)})
                      /\ writers[i] = Cardinality({s \in Slot : ep[s] = WriteEnd(i)})
                      /\ readers[i] # 0 \/ writers[i] # 0 => i \in pipes
                      /\ buf[i] # 0 => i \in pipes
    BY DEF PipeEndsMatch
  <2>1. ReadEnd(i) \in Ends /\ WriteEnd(i) \in Ends
    BY EndsDiffer
  <2>2. /\ Cardinality(ClosedEnds(Slot, ReadEnd(i)))
             = (IF \E s \in Slot : ep[s] = ReadEnd(i) THEN 1 ELSE 0)
        /\ Cardinality(ClosedEnds(Slot, WriteEnd(i)))
             = (IF \E s \in Slot : ep[s] = WriteEnd(i) THEN 1 ELSE 0)
    BY <1>1, <2>1, EndCount DEF PInv
  <2>3. /\ ClosedEnds(Slot, ReadEnd(i)) = {s \in Slot : ep[s] = ReadEnd(i)}
        /\ ClosedEnds(Slot, WriteEnd(i)) = {s \in Slot : ep[s] = WriteEnd(i)}
    BY DEF ClosedEnds
  <2>4. readers[i] \in {0, 1} /\ writers[i] \in {0, 1}
    BY <1>1 DEF PInv, EndType
  <2> QED
    BY <1>1, <2>2, <2>3, <2>4 DEF PInv, EndsCounted, PipesKept
<1> QED
  BY <1>1, EndsInvariant, PTL

(***************************************************************************)
(* Tables, paths and regions.  Open replaces whatever its number held, so  *)
(* conservation needs NextFdFresh, and that closed numbers keep no region; *)
(* fork needs that a new pid has an empty table.                           *)
(***************************************************************************)
PathType ==
  /\ fd_paths \in [Pid -> [Fd -> Path \cup {NoPath}]]
  /\ region \in [Pid -> [Fd -> Region \cup {NoRegion}]]
  /\ async_free \subseteq Region /\ region_count \in 0..MaxRegions /\ iouring_off \in BOOLEAN

FreshTasks == \A p \in tasks : p < next_pid
RegionOpen == \A p \in Pid, f \in Fd : region[p][f] # NoRegion => fds[p][f] # NoSlot
AsyncBelow == \A r \in async_free : r < region_count

TInv == /\ PathType /\ FreshTasks /\ RegionOpen /\ AsyncBelow
        /\ SlotsConserved /\ PathMatchesFile /\ RegionsConserved

\* The descriptors' slots that stay allocated keep the file they stand for.
EpKept == \A s \in Slot : s \notin free_slots /\ s \notin free_slots' => ep'[s] = ep[s]

\* What a call may do to one descriptor: leave it, close it, make it a copy of
\* another, or open a file there.
SameFd(q, f) == fds'[q][f] = fds[q][f] /\ fd_paths'[q][f] = fd_paths[q][f]
GoneFd(q, f) == fds'[q][f] = NoSlot /\ fd_paths'[q][f] = NoPath
CopyFd(q, f, r, g) == fds'[q][f] = fds[r][g] /\ fd_paths'[q][f] = fd_paths[r][g]
NewFd(q, f) ==
  /\ fds'[q][f] \in Slot
  /\ fd_paths'[q][f] = IF ep'[fds'[q][f]] \in Path THEN ep'[fds'[q][f]] ELSE NoPath

\* Any of these keeps the recorded paths right.
LEMMA PathsFollow ==
  ASSUME FInv, FInv', TInv, EpKept,
         \A q \in Pid, f \in Fd : \/ SameFd(q, f) \/ GoneFd(q, f) \/ NewFd(q, f)
                                  \/ \E r \in Pid, g \in Fd : CopyFd(q, f, r, g)
  PROVE  PathMatchesFile'
<1>1. \A q \in Pid, f \in Fd :
        fd_paths[q][f] = IF fds[q][f] # NoSlot /\ ep[fds[q][f]] \in Path
                         THEN ep[fds[q][f]] ELSE NoPath
  BY DEF TInv, PathMatchesFile, OpenFds
<1>2. ASSUME NEW q \in Pid, NEW f \in Fd
      PROVE  fd_paths'[q][f] = IF fds'[q][f] # NoSlot /\ ep'[fds'[q][f]] \in Path
                               THEN ep'[fds'[q][f]] ELSE NoPath
  <2>1. fds'[q][f] # NoSlot => fds'[q][f] \notin free_slots'
    BY ByDescriptorNext DEF FInv
  <2>2. \A r \in Pid, g \in Fd : fds[r][g] # NoSlot => fds[r][g] \in Slot \ free_slots
    BY DEF FInv, TableType, NoDanglingSlot, OpenFds
  <2>3. ASSUME NEW r \in Pid, NEW g \in Fd, CopyFd(q, f, r, g)
        PROVE  fd_paths'[q][f] = IF fds'[q][f] # NoSlot /\ ep'[fds'[q][f]] \in Path
                                 THEN ep'[fds'[q][f]] ELSE NoPath
    <3>1. fds'[q][f] = fds[r][g] /\ fd_paths'[q][f] = fd_paths[r][g]
      BY <2>3 DEF CopyFd
    <3>2. fds[r][g] # NoSlot => ep'[fds[r][g]] = ep[fds[r][g]]
      BY <2>1, <2>2, <3>1 DEF EpKept
    <3> QED
      BY <1>1, <3>1, <3>2
  <2>4. SameFd(q, f) => CopyFd(q, f, q, f)
    BY DEF SameFd, CopyFd
  <2>5. NewFd(q, f) => fds'[q][f] # NoSlot
    BY NamesAssumption DEF NewFd
  <2> QED
    BY <2>3, <2>4, <2>5 DEF GoneFd, NewFd
<1> QED
  BY <1>2 DEF PathMatchesFile, OpenFds

\* Closing loses no slot and no region.
LEMMA CloseTables ==
  ASSUME FInv, FInv', TInv, NEW p \in tasks, NEW F \in SUBSET Fd, do_close(p, F),
         tasks' \subseteq tasks, UNCHANGED <<next_pid, limit_reached>>
  PROVE  TInv'
<1>t. /\ PathType /\ FreshTasks /\ RegionOpen /\ AsyncBelow
      /\ SlotsConserved /\ PathMatchesFile /\ RegionsConserved /\ TableType
  BY DEF TInv, FInv
<1>0. p \in Pid
  BY <1>t DEF TableType
<1>1. \A q \in Pid, f \in Fd :
        /\ fds'[q][f] = IF q = p /\ f \in F THEN NoSlot ELSE fds[q][f]
        /\ fd_paths'[q][f] = IF q = p /\ f \in F THEN NoPath ELSE fd_paths[q][f]
        /\ region'[q][f] = IF q = p /\ f \in F THEN NoRegion ELSE region[q][f]
  BY <1>t, <1>0 DEF do_close, Without, TableType, PathType
<1>2. /\ free_slots' = free_slots \cup ReleasedBy(p, F)
      /\ \A s \in Slot : s \notin ReleasedBy(p, F) => ep'[s] = ep[s]
      /\ async_free' = async_free \cup {r \in RegionsOf(p, F) : r < region_count}
      /\ UNCHANGED <<region_count, iouring_off>>
  BY DEF do_close, ReleaseSlots, recycle_fs_async_regions
<1>3. PathType'
  <2>1. /\ fd_paths' \in [Pid -> [Fd -> Path \cup {NoPath}]]
        /\ region' \in [Pid -> [Fd -> Region \cup {NoRegion}]]
    BY <1>t, <1>0 DEF do_close, Without, PathType
  <2>2. RegionsOf(p, F) \subseteq Region
    BY <1>t, <1>0 DEF RegionsOf, PathType
  <2> QED
    BY <1>t, <1>2, <2>1, <2>2 DEF PathType
<1>4. FreshTasks' /\ RegionOpen' /\ AsyncBelow'
  BY <1>t, <1>1, <1>2 DEF FreshTasks, RegionOpen, AsyncBelow
<1>5. SlotsConserved'
  <2> SUFFICES ASSUME ~limit_reached', NEW s \in Slot \ free_slots'
               PROVE  \E q \in Pid, f \in Fd : fds'[q][f] = s
    BY DEF SlotsConserved
  <2>1. PICK q \in Pid, f \in Fd : fds[q][f] = s
    BY <1>t, <1>2 DEF SlotsConserved
  <2>2. CASE ~(q = p /\ f \in F)
    BY <1>1, <2>1, <2>2
  <2>3. CASE q = p /\ f \in F
    <3>1. still_shared(s, p, F)
      BY <1>2, <2>1, <2>3 DEF ReleasedBy
    <3>2. PICK r \in tasks, g \in Fd : fds[r][g] = s /\ ~(r = p /\ g \in F)
      BY <3>1 DEF still_shared
    <3> QED
      BY <1>t, <1>1, <3>2 DEF TableType
  <2> QED
    BY <2>2, <2>3
<1>6. PathMatchesFile'
  <2>1. EpKept
    BY <1>2 DEF EpKept
  <2>2. \A q \in Pid, f \in Fd : SameFd(q, f) \/ GoneFd(q, f)
    BY <1>1 DEF SameFd, GoneFd
  <2> QED
    BY <2>1, <2>2, PathsFollow
<1>7. RegionsConserved'
  <2>1. \A q \in Pid, f \in Fd : region'[q][f] # NoRegion => region'[q][f] < region_count'
    BY <1>t, <1>1, <1>2 DEF RegionsConserved
  <2>2. ASSUME ~limit_reached', NEW r \in Region, r < region_count'
        PROVE  r \in async_free' \/ \E q \in Pid, f \in Fd : region'[q][f] = r
    <3>1. r \in async_free \/ \E q \in Pid, f \in Fd : region[q][f] = r
      BY <1>t, <1>2, <2>2 DEF RegionsConserved
    <3>2. ASSUME NEW q \in Pid, NEW f \in Fd, region[q][f] = r
          PROVE  r \in async_free' \/ region'[q][f] = r
      <4>1. r # NoRegion
        BY DEF Region, NoRegion
      <4> QED
        BY <1>1, <1>2, <2>2, <3>2, <4>1 DEF RegionsOf
    <3> QED
      BY <1>2, <3>1, <3>2
  <2> QED
    BY <2>1, <2>2 DEF RegionsConserved
<1> QED
  BY <1>3, <1>4, <1>5, <1>6, <1>7 DEF TInv

\* A call that leaves the pool alone, and whose descriptors are old ones, copies
\* of old ones, or new, is right when no slot and no region loses its last one.
LEMMA TablesStep ==
  ASSUME FInv, FInv', TInv, EpKept, PathType', FreshTasks', RegionOpen',
         limit_reached => limit_reached', UNCHANGED regionVars,
         \A q \in Pid, f \in Fd : \/ SameFd(q, f) \/ GoneFd(q, f) \/ NewFd(q, f)
                                  \/ \E r \in Pid, g \in Fd : CopyFd(q, f, r, g),
         ~limit_reached' => \A s \in Slot \ free_slots' :
           \E q \in Pid, f \in Fd : fds'[q][f] = s,
         \A q \in Pid, f \in Fd : region'[q][f] = NoRegion
           \/ \E r \in Pid, g \in Fd : region'[q][f] = region[r][g],
         \A q \in Pid, f \in Fd : region[q][f] = NoRegion
           \/ \E r \in Pid, g \in Fd : region'[r][g] = region[q][f]
  PROVE  TInv'
<1>1. PathMatchesFile'
  BY PathsFollow
<1>2. SlotsConserved'
  BY DEF SlotsConserved
<1>3. AsyncBelow' /\ RegionsConserved'
  <2>1. AsyncBelow /\ RegionsConserved /\ UNCHANGED <<async_free, region_count>>
    BY DEF TInv, regionVars
  <2>2. AsyncBelow'
    BY <2>1 DEF AsyncBelow
  <2>3. \A q \in Pid, f \in Fd : region'[q][f] # NoRegion => region'[q][f] < region_count'
    BY <2>1 DEF RegionsConserved
  <2>4. ASSUME ~limit_reached', NEW r \in Region, r < region_count'
        PROVE  r \in async_free' \/ \E q \in Pid, f \in Fd : region'[q][f] = r
    <3>1. r \in async_free \/ \E q \in Pid, f \in Fd : region[q][f] = r
      BY <2>1, <2>4 DEF RegionsConserved
    <3>2. r # NoRegion
      BY DEF Region, NoRegion
    <3> QED
      BY <2>1, <3>1, <3>2
  <2> QED
    BY <2>2, <2>3, <2>4 DEF RegionsConserved
<1> QED
  BY <1>1, <1>2, <1>3 DEF TInv

\* A call that changes none of it.
LEMMA QuietTables ==
  ASSUME FInv, FInv', TInv, limit_reached => limit_reached',
         (UNCHANGED slotVars) \/ (limit_reached' /\ EpKept),
         UNCHANGED <<taskVars, fds, region, fd_paths, regionVars>>
  PROVE  TInv'
<1>1. PathType' /\ FreshTasks' /\ RegionOpen'
  BY DEF TInv, PathType, FreshTasks, RegionOpen, taskVars, regionVars
<1>2. EpKept
  BY DEF EpKept, slotVars
<1>3. ~limit_reached' => \A s \in Slot \ free_slots' : \E q \in Pid, f \in Fd : fds'[q][f] = s
  BY DEF TInv, SlotsConserved, slotVars
<1>4. \A q \in Pid, f \in Fd :
        SameFd(q, f) /\ region'[q][f] = region[q][f]
  BY DEF SameFd
<1> QED
  BY <1>1, <1>2, <1>3, <1>4, TablesStep

\* dup: the least free number becomes a copy.
LEMMA DupTables ==
  ASSUME FInv, FInv', TInv, NEW p \in Pid, NEW f \in Fd, NEW min, NEW cloexec,
         SysDup(p, f, min, cloexec)
  PROVE  TInv'
<1>t. /\ PathType /\ FreshTasks /\ RegionOpen /\ SlotsConserved /\ PathMatchesFile
      /\ TableType
  BY DEF TInv, FInv
<1>1. PICK g \in Fd :
        /\ fds[p][g] = NoSlot /\ fds' = [fds EXCEPT ![p][g] = fds[p][f]]
        /\ region' = [region EXCEPT ![p][g] = NoRegion]
        /\ fd_paths' = [fd_paths EXCEPT ![p][g] =
                          IF fd_paths[p][f] # NoPath THEN fd_paths[p][f] ELSE fd_paths[p][g]]
        /\ limit_reached' = (limit_reached \/ g = MaxFd)
  BY DEF SysDup, LeastFree, OpenFds
<1>2. UNCHANGED <<tasks, next_pid, free_slots, ep, regionVars>>
  BY DEF SysDup, taskVars, slotVars
<1>3. region[p][g] = NoRegion /\ fd_paths[p][g] = NoPath
  BY <1>t, <1>1 DEF RegionOpen, PathMatchesFile, OpenFds
<1>4. \A q \in Pid, h \in Fd :
        /\ fds'[q][h] = IF q = p /\ h = g THEN fds[p][f] ELSE fds[q][h]
        /\ fd_paths'[q][h] = IF q = p /\ h = g THEN fd_paths[p][f] ELSE fd_paths[q][h]
        /\ region'[q][h] = region[q][h]
  BY <1>t, <1>1, <1>3 DEF TableType, PathType
<1>5. PathType'
  BY <1>t, <1>1, <1>2 DEF PathType, regionVars
<1>6. FreshTasks' /\ RegionOpen'
  BY <1>t, <1>1, <1>2, <1>4 DEF FreshTasks, RegionOpen
<1>7. EpKept
  BY <1>2 DEF EpKept
<1>8. \A q \in Pid, h \in Fd : SameFd(q, h) \/ \E r \in Pid, k \in Fd : CopyFd(q, h, r, k)
  BY <1>4 DEF SameFd, CopyFd
<1>9. ~limit_reached' => \A s \in Slot \ free_slots' : \E q \in Pid, h \in Fd : fds'[q][h] = s
  <2> SUFFICES ASSUME ~limit_reached', NEW s \in Slot \ free_slots'
               PROVE  \E q \in Pid, h \in Fd : fds'[q][h] = s
    OBVIOUS
  <2>1. PICK q \in Pid, h \in Fd : fds[q][h] = s
    BY <1>t, <1>1, <1>2 DEF SlotsConserved
  <2> QED
    BY <1>1, <1>4, <2>1, NamesAssumption
<1>10. /\ limit_reached => limit_reached'
       /\ \A q \in Pid, h \in Fd : region'[q][h] = region[q][h]
  BY <1>1, <1>4
<1> QED
  BY <1>2, <1>5, <1>6, <1>7, <1>8, <1>9, <1>10, TablesStep

\* pipe2: two free numbers get the new ends, which have no name.
LEMMA PipeTables ==
  ASSUME FInv, FInv', TInv, NEW p \in Pid, NEW cloexec, NEW sr \in Slot, NEW sw \in Slot,
         NEW fr \in Fd, NEW fw \in Fd, SysPipe2(p, cloexec, sr, sw, fr, fw), PInv
  PROVE  TInv'
<1>t. /\ PathType /\ FreshTasks /\ RegionOpen /\ SlotsConserved /\ PathMatchesFile
      /\ TableType /\ EndType
  BY DEF TInv, FInv, PInv
<1>1. /\ fds' = [fds EXCEPT ![p][fr] = sr, ![p][fw] = sw]
      /\ region' = [region EXCEPT ![p][fr] = NoRegion, ![p][fw] = NoRegion]
      /\ free_slots' = free_slots \ {sr, sw} /\ sr \in free_slots /\ sw \in free_slots
      /\ ep' = [ep EXCEPT ![sr] = ReadEnd(next_pipe_id), ![sw] = WriteEnd(next_pipe_id)]
      /\ sr # sw /\ limit_reached' = (limit_reached \/ fw = MaxFd)
      /\ UNCHANGED <<tasks, next_pid, fd_paths, regionVars>>
  BY DEF SysPipe2, OpenEnds, taskVars
<1>2. /\ fds[p][fr] = NoSlot /\ fds[p][fw] = NoSlot /\ fr # fw
  <2>1. fw >= fr + 1
    BY DEF SysPipe2, PipeFds, LeastFree
  <2>2. fr # fw
    BY <2>1, BoundsAssumption DEF Fd
  <2> QED
    BY <2>2 DEF SysPipe2, PipeFds, LeastFree, OpenFds
<1>3. /\ region[p][fr] = NoRegion /\ fd_paths[p][fr] = NoPath
      /\ region[p][fw] = NoRegion /\ fd_paths[p][fw] = NoPath
  BY <1>t, <1>2 DEF RegionOpen, PathMatchesFile, OpenFds
<1>4. \A q \in Pid, h \in Fd :
        /\ fds'[q][h] = IF q = p /\ h = fr THEN sr
                        ELSE IF q = p /\ h = fw THEN sw ELSE fds[q][h]
        /\ fd_paths'[q][h] = fd_paths[q][h]
        /\ region'[q][h] = region[q][h]
  BY <1>t, <1>1, <1>2, <1>3 DEF TableType, PathType
<1>5. PathType'
  BY <1>t, <1>1 DEF PathType, regionVars
<1>6. FreshTasks' /\ RegionOpen'
  <2>1. FreshTasks'
    BY <1>t, <1>1 DEF FreshTasks
  <2>2. sr # NoSlot /\ sw # NoSlot
    BY NamesAssumption
  <2>3. RegionOpen'
    BY <1>t, <1>4, <2>2 DEF RegionOpen
  <2> QED
    BY <2>1, <2>3
<1>7. /\ ep'[sr] = ReadEnd(next_pipe_id) /\ ep'[sw] = WriteEnd(next_pipe_id)
      /\ \A s \in Slot : s # sr /\ s # sw => ep'[s] = ep[s]
  BY <1>t, <1>1 DEF EndType
<1>8. EpKept
  BY <1>1, <1>7 DEF EpKept
<1>9. \A q \in Pid, h \in Fd : SameFd(q, h) \/ NewFd(q, h)
  <2>1. PICK n \in PipeId : n = next_pipe_id
    BY <1>t DEF EndType, SysPipe2, OpenEnds, NewPipe, PipeId
  <2>2. ReadEnd(n) \notin Path /\ WriteEnd(n) \notin Path
    BY EndsDiffer
  <2>3. NewFd(p, fr) /\ NewFd(p, fw)
    BY <1>2, <1>3, <1>4, <1>7, <2>1, <2>2 DEF NewFd
  <2> QED
    BY <1>4, <2>3 DEF SameFd
<1>10. ~limit_reached' => \A s \in Slot \ free_slots' : \E q \in Pid, h \in Fd : fds'[q][h] = s
  <2> SUFFICES ASSUME ~limit_reached', NEW s \in Slot \ free_slots'
               PROVE  \E q \in Pid, h \in Fd : fds'[q][h] = s
    OBVIOUS
  <2>1. CASE s = sr \/ s = sw
    BY <1>2, <1>4, <2>1
  <2>2. CASE s # sr /\ s # sw
    <3>1. PICK q \in Pid, h \in Fd : fds[q][h] = s
      BY <1>t, <1>1, <2>2 DEF SlotsConserved
    <3> QED
      BY <1>2, <1>4, <3>1, NamesAssumption
  <2> QED
    BY <2>1, <2>2
<1>11. /\ limit_reached => limit_reached'
       /\ \A q \in Pid, h \in Fd : region'[q][h] = region[q][h]
       /\ UNCHANGED regionVars
  BY <1>1, <1>4
<1> QED
  BY <1>5, <1>6, <1>8, <1>9, <1>10, <1>11, TablesStep

\* fork: the new pid had no table, and gets its parent's or none.
LEMMA ForkTables ==
  ASSUME FInv, FInv', TInv, NEW p \in Pid, NEW copied \in BOOLEAN, SysFork(p, copied)
  PROVE  TInv'
<1>t. /\ PathType /\ FreshTasks /\ RegionOpen /\ SlotsConserved /\ PathMatchesFile
      /\ TableType /\ OnlyLive
  BY DEF TInv, FInv
<1>0. PICK c \in Pid : c = next_pid
  BY <1>t, BoundsAssumption DEF SysFork, TableType, Pid
<1>1. /\ tasks' = tasks \cup {c} /\ next_pid' = c + 1
      /\ fds' = IF copied THEN [fds EXCEPT ![c] = fds[p]] ELSE fds
      /\ region' = IF copied THEN [region EXCEPT ![c] = region[p]] ELSE region
      /\ fd_paths' = IF copied THEN [fd_paths EXCEPT ![c] = fd_paths[p]] ELSE fd_paths
      /\ UNCHANGED <<limit_reached, free_slots, ep, regionVars>>
  BY <1>0 DEF SysFork, slotVars
<1>2. c \notin tasks
  BY <1>t, <1>0 DEF FreshTasks, Pid
<1>3. \A h \in Fd : fds[c][h] = NoSlot /\ region[c][h] = NoRegion
  BY <1>t, <1>2 DEF OnlyLive, OpenFds, RegionOpen
<1>4. \A q \in Pid, h \in Fd :
        /\ fds'[q][h] = IF copied /\ q = c THEN fds[p][h] ELSE fds[q][h]
        /\ fd_paths'[q][h] = IF copied /\ q = c THEN fd_paths[p][h] ELSE fd_paths[q][h]
        /\ region'[q][h] = IF copied /\ q = c THEN region[p][h] ELSE region[q][h]
  BY <1>t, <1>1 DEF TableType, PathType
<1>5. PathType'
  BY <1>t, <1>1 DEF PathType, regionVars
<1>6. FreshTasks'
  <2> SUFFICES ASSUME NEW q \in tasks' PROVE q < next_pid'
    BY DEF FreshTasks
  <2>1. q \in Pid
    BY <1>t, <1>1 DEF TableType
  <2>2. q = c \/ q < c
    BY <1>t, <1>0, <1>1 DEF FreshTasks
  <2> QED
    BY <1>1, <2>1, <2>2 DEF Pid
<1>7. RegionOpen'
  BY <1>t, <1>4 DEF RegionOpen
<1>8. EpKept
  BY <1>1 DEF EpKept
<1>9. \A q \in Pid, h \in Fd : SameFd(q, h) \/ \E r \in Pid, k \in Fd : CopyFd(q, h, r, k)
  BY <1>4 DEF SameFd, CopyFd
<1>10. ~limit_reached' => \A s \in Slot \ free_slots' : \E q \in Pid, h \in Fd : fds'[q][h] = s
  <2> SUFFICES ASSUME ~limit_reached', NEW s \in Slot \ free_slots'
               PROVE  \E q \in Pid, h \in Fd : fds'[q][h] = s
    OBVIOUS
  <2>1. PICK q \in Pid, h \in Fd : fds[q][h] = s
    BY <1>t, <1>1 DEF SlotsConserved
  <2>2. q # c
    BY <1>3, <2>1, NamesAssumption
  <2> QED
    BY <1>4, <2>1, <2>2
<1>11. /\ \A q \in Pid, h \in Fd : region'[q][h] = NoRegion
            \/ \E r \in Pid, k \in Fd : region'[q][h] = region[r][k]
       /\ \A q \in Pid, h \in Fd : region[q][h] = NoRegion
            \/ \E r \in Pid, k \in Fd : region'[r][k] = region[q][h]
  BY <1>3, <1>4
<1> QED
  BY <1>1, <1>5, <1>6, <1>7, <1>8, <1>9, <1>10, <1>11, TablesStep

\* dup3: the target is closed if it was open, and becomes a copy.
LEMMA Dup3Tables ==
  ASSUME FInv, FInv', TInv, NEW p \in Pid, NEW f \in Fd, NEW g \in Fd, NEW cloexec,
         SysDup3(p, f, g, cloexec)
  PROVE  TInv'
<1>t. /\ PathType /\ FreshTasks /\ RegionOpen /\ AsyncBelow /\ SlotsConserved
      /\ PathMatchesFile /\ RegionsConserved /\ TableType
  BY DEF TInv, FInv
<1> DEFINE R == {g} \cap OpenFds(p)
<1>1. /\ p \in tasks /\ f # g /\ fds' = [fds EXCEPT ![p][g] = fds[p][f]]
      /\ region' = [region EXCEPT ![p][g] = NoRegion]
      /\ fd_paths' = [fd_paths EXCEPT ![p][g] =
                        IF fd_paths[p][f] # NoPath THEN fd_paths[p][f]
                        ELSE IF R # {} THEN NoPath ELSE fd_paths[p][g]]
      /\ limit_reached' = (limit_reached \/ g = MaxFd)
      /\ UNCHANGED <<tasks, next_pid>> /\ fds[p][f] # NoSlot
  BY DEF SysDup3, taskVars, OpenFds
<1>2. /\ free_slots' = free_slots \cup ReleasedBy(p, R)
      /\ \A s \in Slot : s \notin ReleasedBy(p, R) => ep'[s] = ep[s]
      /\ async_free' = async_free \cup {r \in RegionsOf(p, R) : r < region_count}
      /\ UNCHANGED <<region_count, iouring_off>>
  BY DEF SysDup3, ReleaseSlots, recycle_fs_async_regions
<1>3. R = IF fds[p][g] # NoSlot THEN {g} ELSE {}
  BY DEF OpenFds
<1> HIDE DEF R
<1>4. \A q \in Pid, h \in Fd :
        /\ fds'[q][h] = IF q = p /\ h = g THEN fds[p][f] ELSE fds[q][h]
        /\ fd_paths'[q][h] = IF q = p /\ h = g THEN fd_paths[p][f] ELSE fd_paths[q][h]
        /\ region'[q][h] = IF q = p /\ h = g THEN NoRegion ELSE region[q][h]
  <2>1. R = {} => fd_paths[p][g] = NoPath
    BY <1>t, <1>3 DEF PathMatchesFile, OpenFds
  <2> QED
    BY <1>t, <1>1, <2>1 DEF TableType, PathType
<1>5. PathType'
  <2>1. RegionsOf(p, R) \subseteq Region
    BY <1>t, <1>3 DEF RegionsOf, PathType
  <2> QED
    BY <1>t, <1>1, <1>2, <2>1 DEF PathType
<1>6. FreshTasks' /\ RegionOpen' /\ AsyncBelow'
  BY <1>t, <1>1, <1>2, <1>4 DEF FreshTasks, RegionOpen, AsyncBelow
<1>7. PathMatchesFile'
  <2>1. EpKept
    BY <1>2 DEF EpKept
  <2>2. \A q \in Pid, h \in Fd : SameFd(q, h) \/ \E r \in Pid, k \in Fd : CopyFd(q, h, r, k)
    BY <1>4 DEF SameFd, CopyFd
  <2> QED
    BY <2>1, <2>2, PathsFollow
<1>8. SlotsConserved'
  <2> SUFFICES ASSUME ~limit_reached', NEW s \in Slot \ free_slots'
               PROVE  \E q \in Pid, h \in Fd : fds'[q][h] = s
    BY DEF SlotsConserved
  <2>1. PICK q \in Pid, h \in Fd : fds[q][h] = s
    BY <1>t, <1>1, <1>2 DEF SlotsConserved
  <2>2. CASE ~(q = p /\ h = g)
    BY <1>4, <2>1, <2>2
  <2>3. CASE q = p /\ h = g
    <3>1. R = {g}
      BY <1>3, <2>1, <2>3, NamesAssumption
    <3>2. still_shared(s, p, R)
      BY <1>2, <2>1, <2>3, <3>1 DEF ReleasedBy
    <3>3. PICK r \in tasks, k \in Fd : fds[r][k] = s /\ ~(r = p /\ k = g)
      BY <3>1, <3>2 DEF still_shared
    <3> QED
      BY <1>t, <1>4, <3>3, SMTT(60) DEF TableType
  <2> QED
    BY <2>2, <2>3
<1>9. RegionsConserved'
  <2>1. \A q \in Pid, h \in Fd : region'[q][h] # NoRegion => region'[q][h] < region_count'
    BY <1>t, <1>2, <1>4 DEF RegionsConserved
  <2>2. ASSUME ~limit_reached', NEW r \in Region, r < region_count'
        PROVE  r \in async_free' \/ \E q \in Pid, h \in Fd : region'[q][h] = r
    <3>1. r \in async_free \/ \E q \in Pid, h \in Fd : region[q][h] = r
      BY <1>t, <1>1, <1>2, <2>2 DEF RegionsConserved
    <3>2. ASSUME NEW q \in Pid, NEW h \in Fd, region[q][h] = r
          PROVE  r \in async_free' \/ region'[q][h] = r
      <4>1. r # NoRegion
        BY DEF Region, NoRegion
      <4>2. CASE q = p /\ h = g
        <5>1. R = {g}
          BY <1>t, <1>3, <3>2, <4>1, <4>2 DEF RegionOpen
        <5> QED
          BY <1>2, <2>2, <3>2, <4>1, <4>2, <5>1 DEF RegionsOf
      <4> QED
        BY <1>4, <3>2, <4>2
    <3> QED
      BY <1>2, <3>1, <3>2
  <2> QED
    BY <2>1, <2>2 DEF RegionsConserved
<1> QED
  BY <1>5, <1>6, <1>7, <1>8, <1>9 DEF TInv

\* What setup_iouring may do: handle g of p gets region r, or none, and the pool
\* loses none but that.
Takes(p, g, r) ==
  /\ region' = [region EXCEPT ![p][g] = r]
  /\ async_free' \subseteq Region /\ region_count' \in 0..MaxRegions
  /\ iouring_off' \in BOOLEAN /\ region_count <= region_count'
  /\ AsyncBelow' /\ (r # NoRegion => r < region_count')
  /\ \A k \in Region : k < region_count' =>
       (k < region_count /\ k \notin async_free) \/ k \in async_free' \/ k = r

\* The async region open takes is one of the pool's or a new one, or none; a
\* region refused by the file server goes to the pool.
LEMMA RegionTaken ==
  ASSUME PathType, AsyncBelow, NEW p, NEW g, setup_iouring(p, g)
  PROVE  \E r \in Region \cup {NoRegion} : Takes(p, g, r)
<1>1. /\ async_free \subseteq Region /\ region_count \in 0..MaxRegions
      /\ iouring_off \in BOOLEAN /\ \A k \in async_free : k < region_count
  BY DEF PathType, AsyncBelow
<1>2. CASE region' = [region EXCEPT ![p][g] = NoRegion] /\ UNCHANGED regionVars
  <2>1. /\ async_free' = async_free /\ region_count' = region_count
        /\ iouring_off' = iouring_off
    BY <1>2 DEF regionVars
  <2>2. AsyncBelow' /\ region_count <= region_count'
    BY <1>1, <2>1, BoundsAssumption DEF AsyncBelow
  <2> QED
    BY <1>1, <1>2, <2>1, <2>2 DEF Takes
<1>3. ASSUME NEW r \in Region, Allocates(r),
             region_count' = IF r = region_count THEN r + 1 ELSE region_count
      PROVE  /\ region_count' \in 0..MaxRegions /\ region_count <= region_count'
             /\ r < region_count'
             /\ \A k \in Region : k < region_count' => k < region_count \/ k = r
             /\ \A k \in async_free : k < region_count'
  <2>1. /\ \A k \in Region : k \in Int
        /\ r \in Int /\ 0 <= r /\ r <= MaxRegions - 1 /\ MaxRegions \in Int
        /\ region_count \in Int /\ 0 <= region_count /\ region_count <= MaxRegions
    BY <1>1, BoundsAssumption DEF Region
  <2>2. r < region_count \/ r = region_count
    BY <1>1, <1>3 DEF Allocates
  <2> QED
    BY <1>1, <1>3, <2>1, <2>2
<1>4. ASSUME NEW r \in Region, ~iouring_off /\ Allocates(r),
             region_count' = IF r = region_count THEN r + 1 ELSE region_count,
             region' = [region EXCEPT ![p][g] = r],
             async_free' = async_free \ {r}, UNCHANGED iouring_off
      PROVE  Takes(p, g, r)
  BY <1>1, <1>3, <1>4 DEF AsyncBelow, Takes
<1>5. ASSUME NEW r \in Region, ~iouring_off /\ Allocates(r),
             region_count' = IF r = region_count THEN r + 1 ELSE region_count,
             region' = [region EXCEPT ![p][g] = NoRegion],
             async_free' = async_free \cup {r}, iouring_off' \in BOOLEAN
      PROVE  Takes(p, g, NoRegion)
  <2>1. AsyncBelow'
    BY <1>3, <1>5 DEF AsyncBelow
  <2> QED
    BY <1>1, <1>3, <1>5, <2>1 DEF Takes
<1> QED
  BY <1>2, <1>4, <1>5 DEF setup_iouring

\* open: below the limit its number was closed, so nothing is replaced.
LEMMA OpenTables ==
  ASSUME FInv, FInv', TInv, PInv, NEW p \in Pid, NEW name \in Path, NEW s \in Slot,
         SysOpen(p, name, s)
  PROVE  TInv'
<1>t. /\ PathType /\ FreshTasks /\ RegionOpen /\ AsyncBelow /\ SlotsConserved
      /\ PathMatchesFile /\ RegionsConserved /\ TableType /\ NextFdFresh
  BY DEF TInv, FInv
<1>0. PICK g \in Fd : g = next_fd[p]
  BY <1>t DEF TableType
<1>1. /\ s \in free_slots /\ free_slots' = free_slots \ {s}
      /\ ep' = [ep EXCEPT ![s] = name]
      /\ fds' = [fds EXCEPT ![p][g] = s]
      /\ fd_paths' = [fd_paths EXCEPT ![p][g] = name]
      /\ limit_reached' = (limit_reached \/ g = MaxFd)
      /\ setup_iouring(p, g) /\ UNCHANGED <<tasks, next_pid>>
  BY <1>0 DEF SysOpen, taskVars
<1>2. ~limit_reached' => fds[p][g] = NoSlot /\ region[p][g] = NoRegion
  <2> SUFFICES ASSUME ~limit_reached', fds[p][g] # NoSlot PROVE FALSE
    BY <1>t DEF RegionOpen
  <2>1. g < next_fd[p]
    BY <1>t, <1>1 DEF NextFdFresh, OpenFds
  <2> QED
    BY <1>0, <2>1, BoundsAssumption DEF Fd
<1>3. \A q \in Pid, h \in Fd :
        /\ fds'[q][h] = IF q = p /\ h = g THEN s ELSE fds[q][h]
        /\ fd_paths'[q][h] = IF q = p /\ h = g THEN name ELSE fd_paths[q][h]
  BY <1>t, <1>1 DEF TableType, PathType
<1>4. PICK r \in Region \cup {NoRegion} : Takes(p, g, r)
  BY <1>t, <1>1, RegionTaken
<1>5. \A q \in Pid, h \in Fd :
        region'[q][h] = IF q = p /\ h = g THEN r ELSE region[q][h]
  BY <1>t, <1>4 DEF PathType, Takes
<1>6. /\ async_free' \subseteq Region /\ region_count' \in 0..MaxRegions
      /\ iouring_off' \in BOOLEAN /\ region_count <= region_count'
      /\ AsyncBelow' /\ (r # NoRegion => r < region_count')
      /\ \A k \in Region : k < region_count' =>
           (k < region_count /\ k \notin async_free) \/ k \in async_free' \/ k = r
  BY <1>4 DEF Takes
<1>7. PathType'
  BY <1>t, <1>1, <1>4, <1>6 DEF PathType, Takes
<1>8. FreshTasks' /\ RegionOpen'
  BY <1>t, <1>1, <1>3, <1>5, NamesAssumption DEF FreshTasks, RegionOpen
<1>9. PathMatchesFile'
  <2>0. /\ ep'[s] = name
        /\ \A t \in Slot : t # s => ep'[t] = ep[t]
    BY <1>1 DEF PInv, EndType
  <2>1. EpKept
    BY <1>1, <2>0 DEF EpKept
  <2>2. \A q \in Pid, h \in Fd : SameFd(q, h) \/ NewFd(q, h)
    BY <1>3, <2>0 DEF SameFd, NewFd
  <2> QED
    BY <2>1, <2>2, PathsFollow
<1>10. SlotsConserved'
  <2> SUFFICES ASSUME ~limit_reached', NEW t \in Slot \ free_slots'
               PROVE  \E q \in Pid, h \in Fd : fds'[q][h] = t
    BY DEF SlotsConserved
  <2>1. CASE t = s
    BY <1>3, <2>1
  <2>2. CASE t # s
    <3>1. PICK q \in Pid, h \in Fd : fds[q][h] = t
      BY <1>t, <1>1, <2>2 DEF SlotsConserved
    <3> QED
      BY <1>2, <1>3, <3>1, NamesAssumption
  <2> QED
    BY <2>1, <2>2
<1>11. RegionsConserved'
  <2>1. ASSUME NEW q \in Pid, NEW h \in Fd, region'[q][h] # NoRegion
        PROVE  region'[q][h] < region_count'
    <3>1. CASE q = p /\ h = g
      BY <1>5, <1>6, <2>1, <3>1
    <3>2. CASE ~(q = p /\ h = g)
      <4>1. region'[q][h] = region[q][h] /\ region[q][h] < region_count
        BY <1>t, <1>5, <2>1, <3>2 DEF RegionsConserved
      <4>2. region[q][h] \in Int /\ region_count \in Int /\ region_count' \in Int
        BY <1>t, <1>6 DEF PathType, Region, NoRegion
      <4> QED
        BY <1>6, <4>1, <4>2
    <3> QED
      BY <3>1, <3>2
  <2>2. ASSUME ~limit_reached', NEW k \in Region, k < region_count'
        PROVE  k \in async_free' \/ \E q \in Pid, h \in Fd : region'[q][h] = k
    <3>1. CASE k < region_count /\ k \notin async_free
      <4>1. PICK q \in Pid, h \in Fd : region[q][h] = k
        BY <1>t, <1>1, <2>2, <3>1 DEF RegionsConserved
      <4>2. k # NoRegion
        BY DEF Region, NoRegion
      <4> QED
        BY <1>2, <1>5, <2>2, <4>1, <4>2
    <3>2. CASE k \in async_free'
      BY <3>2
    <3>3. CASE k = r
      BY <1>5, <3>3
    <3> QED
      BY <1>6, <2>2, <3>1, <3>2, <3>3
  <2> QED
    BY <2>1, <2>2 DEF RegionsConserved
<1> QED
  BY <1>6, <1>7, <1>8, <1>9, <1>10, <1>11 DEF TInv

\* Init's standard descriptors name one slot, which holds the terminal.
LEMMA TablesInit == Init => TInv
<1> SUFFICES ASSUME Init PROVE TInv
  OBVIOUS
<1>1. PICK stdio \in BOOLEAN, s \in Slot :
        /\ fds = [p \in Pid |-> [f \in Fd |->
                    IF stdio /\ p = 1 /\ f \in StdFds THEN s ELSE NoSlot]]
        /\ fd_paths = [p \in Pid |-> [f \in Fd |->
                    IF stdio /\ p = 1 /\ f \in StdFds THEN TtyPath ELSE NoPath]]
        /\ free_slots = IF stdio THEN Slot \ {s} ELSE Slot
        /\ ep = [t \in Slot |-> IF stdio /\ t = s THEN TtyPath ELSE Closed]
  BY DEF Init
<1>2. /\ region = [p \in Pid |-> [f \in Fd |-> NoRegion]] /\ tasks = {1} /\ next_pid = 2
      /\ async_free = {} /\ region_count = 0 /\ iouring_off = FALSE
  BY DEF Init
<1>3. PathType
  <2>1. fd_paths \in [Pid -> [Fd -> Path \cup {NoPath}]]
    BY <1>1, NamesAssumption
  <2>2. region \in [Pid -> [Fd -> Region \cup {NoRegion}]]
    BY <1>2
  <2>3. async_free \subseteq Region /\ region_count \in 0..MaxRegions
    BY <1>2, BoundsAssumption
  <2>4. iouring_off \in BOOLEAN
    BY <1>2
  <2> QED
    BY <2>1, <2>2, <2>3, <2>4 DEF PathType
<1>4. FreshTasks /\ RegionOpen /\ AsyncBelow
  BY <1>2 DEF FreshTasks, RegionOpen, AsyncBelow
<1>5. SlotsConserved
  <2> SUFFICES ASSUME NEW t \in Slot \ free_slots
               PROVE  \E p \in Pid, f \in Fd : fds[p][f] = t
    BY DEF SlotsConserved
  <2>1. stdio /\ t = s
    <3>1. stdio => free_slots = Slot \ {s}
      BY <1>1
    <3>2. ~stdio => free_slots = Slot
      BY <1>1
    <3> QED
      BY <3>1, <3>2
  <2>2. PICK f : f \in StdFds /\ f \in Fd
    <3>1. PICK f : f \in StdFds
      BY FdAssumption
    <3>2. f \in 0..(FirstUserFd - 1) /\ FirstUserFd \in 0..MaxFd /\ MaxFd \in Nat
      BY <3>1, FdAssumption, BoundsAssumption DEF Fd
    <3>3. f \in Fd
      BY <3>2 DEF Fd
    <3> QED
      BY <3>1, <3>3
  <2>3. 1 \in Pid
    BY BoundsAssumption DEF Pid
  <2>4. fds[1][f] = s
    BY <1>1, <2>1, <2>2, <2>3
  <2> QED
    BY <2>1, <2>2, <2>3, <2>4
<1>6. PathMatchesFile
  BY <1>1, NamesAssumption DEF PathMatchesFile, OpenFds, Closed
<1>7. RegionsConserved
  BY <1>2 DEF RegionsConserved, Region
<1> QED
  BY <1>3, <1>4, <1>5, <1>6, <1>7 DEF TInv

\* Every call preserves TInv, given the two other invariants.
LEMMA TablesInductive == FInv /\ FInv' /\ PInv /\ TInv /\ [Next]_vars => TInv'
<1> SUFFICES ASSUME FInv, FInv', PInv, TInv, [Next]_vars PROVE TInv'
  OBVIOUS
<1>1. CASE UNCHANGED vars
  BY <1>1, QuietTables DEF vars, tableVars
<1>2. ASSUME NEW p \in Pid, Syscall(p) PROVE TInv'
  <2>1. CASE SysExit(p) \/ SysExec(p) \/ \E f \in Fd : SysClose(p, f)
    <3>1. PICK F \in SUBSET Fd : do_close(p, F)
      BY <2>1 DEF SysExit, SysExec, SysClose, OpenFds, FInv, TableType
    <3>2. p \in tasks /\ tasks' \subseteq tasks /\ UNCHANGED <<next_pid, limit_reached>>
      BY <2>1 DEF SysExit, SysExec, SysClose, taskVars
    <3> QED
      BY <3>1, <3>2, CloseTables
  <2>2. CASE \E copied \in BOOLEAN : SysFork(p, copied)
    BY <2>2, ForkTables
  <2>3. CASE \E name \in Path, s \in Slot : SysOpen(p, name, s)
    BY <2>3, OpenTables
  <2>4. ASSUME NEW f \in Fd, NEW cloexec \in CloexecFlags, SysSetFd(p, f, cloexec)
        PROVE  TInv'
    BY <2>4, QuietTables DEF SysSetFd
  <2>5. ASSUME NEW f \in Fd, NEW cloexec \in CloexecFlags,
               \E min \in MinFds : SysDup(p, f, min, cloexec)
        PROVE  TInv'
    BY <2>5, DupTables
  <2>6. ASSUME NEW f \in Fd, NEW cloexec \in CloexecFlags, NEW g \in Targets,
               SysDup3(p, f, g, cloexec)
        PROVE  TInv'
    BY <2>6, Dup3Tables, FdAssumption
  <2>7. ASSUME SysPipeNotOpened(p) \/ \E fr, fw \in Fd : SysPipeNotCopied(p, fr, fw)
        PROVE  TInv'
    <3>1. /\ UNCHANGED <<taskVars, fds, region, fd_paths, regionVars, slotVars>>
          /\ limit_reached => limit_reached'
      <4>1. CASE SysPipeNotOpened(p)
        BY <4>1 DEF SysPipeNotOpened, PipeUnchanged, tableVars
      <4>2. ASSUME NEW fr, NEW fw, SysPipeNotCopied(p, fr, fw)
            PROVE  /\ UNCHANGED <<taskVars, fds, region, fd_paths, regionVars, slotVars>>
                   /\ limit_reached' = (limit_reached \/ fw = MaxFd)
        BY <4>2 DEF SysPipeNotCopied, PipeUnchanged
      <4> QED
        BY <2>7, <4>1, <4>2, Zenon
    <3> QED
      BY <3>1, QuietTables
  <2>8. ASSUME NEW sr \in Slot, NEW sw \in Slot, SysPipeNoNumber(p, sr, sw)
        PROVE  TInv'
    <3>1. /\ UNCHANGED <<taskVars, fds, region, fd_paths, regionVars>> /\ limit_reached'
          /\ sr \in free_slots /\ sw \in free_slots
          /\ ep' = [ep EXCEPT ![sr] = ReadEnd(next_pipe_id), ![sw] = WriteEnd(next_pipe_id)]
      BY <2>8 DEF SysPipeNoNumber, PipeUnchanged, OpenEnds
    <3>2. EpKept
      BY <3>1 DEF EpKept, PInv, EndType
    <3> QED
      BY <3>1, <3>2, QuietTables
  <2>9. ASSUME NEW sr \in Slot, NEW sw \in Slot, NEW cloexec \in CloexecFlags,
               NEW fr \in Fd, NEW fw \in Fd, SysPipe2(p, cloexec, sr, sw, fr, fw)
        PROVE  TInv'
    BY <2>9, PipeTables
  <2>10. ASSUME NEW f \in Fd, NEW i \in PipeId, SysPipeRead(p, f, i) \/ SysPipeWrite(p, f, i)
         PROVE  TInv'
    <3>1. UNCHANGED <<taskVars, fds, region, fd_paths, regionVars, slotVars, limit_reached>>
      BY <2>10 DEF SysPipeRead, SysPipeWrite, tableVars
    <3> QED
      BY <3>1, QuietTables
  <2> QED
    BY <1>2, <2>1, <2>2, <2>3, <2>4, <2>5, <2>6, <2>7, <2>8, <2>9, <2>10 DEF Syscall
<1> QED
  BY <1>1, <1>2 DEF Next

\* All three hold in every run.
LEMMA TablesInvariant == Spec => [](FInv /\ PInv /\ TInv)
<1>1. Init => FInv /\ PInv /\ TInv
  BY FilesInit, EndsInit, TablesInit
<1>2. FInv /\ PInv /\ TInv /\ [Next]_vars => FInv' /\ PInv' /\ TInv'
  BY FilesInductive, EndsInductive, TablesInductive
<1> QED
  BY <1>1, <1>2, PTL DEF Spec

\* In every run every variable has its type, and a process that is gone has no
\* descriptor.
THEOREM FilesTypeOK == Spec => []TypeOK
<1>1. ASSUME FInv, PInv, TInv PROVE TypeOK
  <2>1. TableType /\ OnlyLive /\ EndType /\ PathType
    BY <1>1 DEF FInv, PInv, TInv
  <2>2. /\ readers \in [PipeId -> Nat] /\ writers \in [PipeId -> Nat]
    BY <2>1 DEF EndType
  <2> QED
    BY <2>1, <2>2 DEF TypeOK, TableType, OnlyLive, EndType, PathType, Ends
<1> QED
  BY <1>1, TablesInvariant, PTL

\* In every run, until a table comes to the last number, every allocated slot is
\* named by a descriptor: closing the last copy gives it back.
THEOREM NoSlotLeaks == Spec => []SlotsConserved
<1>1. FInv /\ PInv /\ TInv => SlotsConserved
  BY DEF TInv
<1> QED
  BY <1>1, TablesInvariant, PTL

\* In every run the recorded path of a descriptor is the name of its file.
THEOREM PathsRight == Spec => []PathMatchesFile
<1>1. FInv /\ PInv /\ TInv => PathMatchesFile
  BY DEF TInv
<1> QED
  BY <1>1, TablesInvariant, PTL

\* In every run every async region is within the pool's size and, until a table
\* comes to the last number, in the pool or held by a descriptor.
THEOREM NoRegionLeaks == Spec => []RegionsConserved
<1>1. FInv /\ PInv /\ TInv => RegionsConserved
  BY DEF TInv
<1> QED
  BY <1>1, TablesInvariant, PTL

(***************************************************************************)
(* Descriptors implement OpenFiles.  OInv is what the counters and slots   *)
(* of PInv lack for it.                                                    *)
(***************************************************************************)
\* An allocated slot stands for a file, and a pipe without ends is empty.
SlotsOpen == \A s \in Slot \ free_slots : ep[s] # Closed
Drained == \A i \in PipeId : readers[i] = 0 /\ writers[i] = 0 => buf[i] = 0
OInv == SlotsOpen /\ Drained

\* Releasing slots: a pipe that loses its last end loses its bytes.
LEMMA ReleaseDrains ==
  ASSUME PInv, PInv', OInv, NEW S \in SUBSET Slot, ReleaseSlots(S)
  PROVE  OInv'
<1>1. /\ EndType /\ EndsCounted /\ EndType' /\ EndsCounted' /\ SlotsOpen /\ Drained
  BY DEF PInv, OInv
<1>2. /\ free_slots' = free_slots \cup S
      /\ \A s \in Slot : ep'[s] = IF s \in S THEN Closed ELSE ep[s]
  BY DEF ReleaseSlots
<1>3. SlotsOpen'
  BY <1>1, <1>2 DEF SlotsOpen
<1> DEFINE hit(i) == \E s \in S : ep[s] \in {ReadEnd(i), WriteEnd(i)}
<1>4. /\ \A i \in PipeId : hit(i) /\ readers'[i] = 0 /\ writers'[i] = 0 => i \notin pipes'
      /\ \A i \in PipeId : buf'[i] = IF i \in pipes' THEN buf[i] ELSE 0
  BY DEF ReleaseSlots, close_pipe_ends
<1>5. ASSUME NEW i \in PipeId, readers'[i] = 0, writers'[i] = 0
      PROVE  buf'[i] = 0
  <2>1. CASE readers[i] = 0 /\ writers[i] = 0
    BY <1>1, <1>4, <2>1 DEF Drained
  <2>2. CASE readers[i] = 1 \/ writers[i] = 1
    <3>1. PICK s \in Slot : ep[s] \in {ReadEnd(i), WriteEnd(i)}
      BY <1>1, <2>2 DEF EndsCounted
    <3>2. ep'[s] # ReadEnd(i) /\ ep'[s] # WriteEnd(i)
      BY <1>1, <1>5 DEF EndsCounted
    <3>3. s \in S
      BY <1>2, <3>1, <3>2
    <3> QED
      BY <1>4, <1>5, <3>1, <3>3
  <2> QED
    BY <1>1, <2>1, <2>2 DEF EndType
<1> QED
  BY <1>3, <1>5 DEF OInv, Drained

\* A call that opens slots, and changes counters only of a pipe it makes.
LEMMA OpenDrains ==
  ASSUME PInv, OInv, UNCHANGED buf,
         \A s \in Slot \ free_slots' : ep'[s] # Closed,
         (UNCHANGED <<readers, writers>>) \/ \E r, w \in {0, 1} : NewPipe(r, w)
  PROVE  OInv'
<1>1. EndType /\ EndsCounted /\ NoFutureEnds /\ Drained
  BY DEF PInv, OInv
<1>2. ASSUME NEW r \in {0, 1}, NEW w \in {0, 1}, NewPipe(r, w)
      PROVE  \A i \in PipeId : buf[i] = 0 \/ (readers'[i] = readers[i] /\ writers'[i] = writers[i])
  <2>1. PICK n \in PipeId : n = next_pipe_id
    BY <1>1, <1>2 DEF EndType, NewPipe, PipeId
  <2>2. \A s \in Slot : ep[s] # ReadEnd(n) /\ ep[s] # WriteEnd(n)
    BY <1>1, <2>1, BoundsAssumption DEF NoFutureEnds, PipeId
  <2>3. buf[n] = 0
    BY <1>1, <2>2 DEF EndsCounted, EndType, Drained
  <2>4. \A i \in PipeId : i # n => readers'[i] = readers[i] /\ writers'[i] = writers[i]
    BY <1>1, <1>2, <2>1 DEF NewPipe, EndType
  <2> QED
    BY <2>3, <2>4
<1>3. Drained'
  BY <1>1, <1>2 DEF Drained
<1> QED
  BY <1>3 DEF OInv, SlotsOpen

\* Reading takes nothing from an empty pipe, and writing needs a reader.
LEMMA BytesDrain ==
  ASSUME PInv, OInv, NEW p \in Pid, NEW f \in Fd, NEW i \in PipeId,
         SysPipeRead(p, f, i) \/ SysPipeWrite(p, f, i)
  PROVE  OInv'
<1>1. EndType /\ SlotsOpen /\ Drained
  BY DEF PInv, OInv
<1>2. /\ UNCHANGED <<free_slots, ep, readers, writers>>
  BY DEF SysPipeRead, SysPipeWrite, slotVars
<1>3. \A j \in PipeId : j # i => buf'[j] = buf[j]
  BY <1>1 DEF SysPipeRead, SysPipeWrite, EndType
<1>4. readers[i] # 0 \/ buf[i] # 0
  <2>1. CASE SysPipeRead(p, f, i)
    BY <2>1 DEF SysPipeRead
  <2>2. CASE SysPipeWrite(p, f, i)
    BY <2>2 DEF SysPipeWrite
  <2> QED
    BY <2>1, <2>2
<1> QED
  BY <1>1, <1>2, <1>3, <1>4 DEF OInv, SlotsOpen, Drained

LEMMA OpenInit == Init => OInv
<1> SUFFICES ASSUME Init PROVE OInv
  OBVIOUS
<1>1. PICK stdio \in BOOLEAN, s \in Slot :
        /\ free_slots = IF stdio THEN Slot \ {s} ELSE Slot
        /\ ep = [t \in Slot |-> IF stdio /\ t = s THEN TtyPath ELSE Closed]
  BY DEF Init
<1>2. SlotsOpen
  BY <1>1, NamesAssumption DEF SlotsOpen, Closed
<1>3. Drained
  BY DEF Init, Drained
<1> QED
  BY <1>2, <1>3 DEF OInv

\* Every call preserves OInv.
LEMMA OpenInductive == PInv /\ PInv' /\ OInv /\ [Next]_vars => OInv'
<1> SUFFICES ASSUME PInv, PInv', OInv, [Next]_vars PROVE OInv'
  OBVIOUS
<1>t. EndType /\ FreeClosed /\ SlotsOpen
  BY DEF PInv, OInv
<1>1. ASSUME UNCHANGED <<slotVars, pipeVars>> PROVE OInv'
  BY <1>1 DEF OInv, SlotsOpen, Drained, slotVars, pipeVars
<1>2. ASSUME NEW p, NEW F, ReleaseSlots(ReleasedBy(p, F)) PROVE OInv'
  <2>1. ReleasedBy(p, F) \in SUBSET Slot
    BY DEF ReleasedBy
  <2> QED
    BY <1>2, <2>1, ReleaseDrains
<1>3. ASSUME NEW p \in Pid, Syscall(p) PROVE OInv'
  <2>1. CASE SysExit(p) \/ SysExec(p) \/ \E f \in Fd : SysClose(p, f)
    BY <1>2, <2>1 DEF SysExit, SysExec, SysClose, do_close
  <2>2. ASSUME \/ \E copied \in BOOLEAN : SysFork(p, copied)
               \/ \E f \in Fd, cloexec \in CloexecFlags :
                    SysSetFd(p, f, cloexec) \/ \E min \in MinFds : SysDup(p, f, min, cloexec)
        PROVE  OInv'
    BY <1>1, <2>2 DEF SysFork, SysSetFd, SysDup
  <2>3. ASSUME NEW name \in Path, NEW s \in Slot, SysOpen(p, name, s) PROVE OInv'
    <3>1. /\ free_slots' = free_slots \ {s} /\ ep' = [ep EXCEPT ![s] = name]
          /\ UNCHANGED <<buf, readers, writers>>
      BY <2>3 DEF SysOpen, pipeVars
    <3>2. \A t \in Slot \ free_slots' : ep'[t] # Closed
      BY <1>t, <3>1, NamesAssumption DEF SlotsOpen, EndType, Closed
    <3> QED
      BY <3>1, <3>2, OpenDrains
  <2>4. ASSUME NEW f \in Fd, NEW g \in Targets, NEW cloexec, SysDup3(p, f, g, cloexec)
        PROVE  OInv'
    BY <1>2, <2>4 DEF SysDup3
  <2>5. ASSUME SysPipeNotOpened(p) \/ \E fr, fw \in Fd : SysPipeNotCopied(p, fr, fw)
        PROVE  OInv'
    <3>1. NewPipe(0, 0) /\ UNCHANGED <<slotVars, buf>>
      BY <2>5 DEF SysPipeNotOpened, SysPipeNotCopied, NewPipe
    <3> QED
      BY <1>t, <3>1, OpenDrains DEF SlotsOpen, slotVars
  <2>6. ASSUME NEW sr \in Slot, NEW sw \in Slot, OpenEnds(sr, sw)
        PROVE  OInv'
    <3>1. PICK n \in PipeId : n = next_pipe_id
      BY <1>t, <2>6 DEF EndType, OpenEnds, NewPipe, PipeId
    <3>2. /\ NewPipe(1, 1) /\ UNCHANGED buf /\ free_slots' = free_slots \ {sr, sw} /\ sr # sw
          /\ ep' = [ep EXCEPT ![sr] = ReadEnd(n), ![sw] = WriteEnd(n)]
      BY <2>6, <3>1 DEF OpenEnds, NewPipe
    <3>3. ReadEnd(n) # Closed /\ WriteEnd(n) # Closed
      BY EndsDiffer
    <3>4. \A t \in Slot \ free_slots' : ep'[t] # Closed
      BY <1>t, <3>2, <3>3 DEF SlotsOpen, EndType
    <3> QED
      BY <3>2, <3>4, OpenDrains
  <2>7. ASSUME NEW sr \in Slot, NEW sw \in Slot,
               \/ \E cloexec \in CloexecFlags, fr, fw \in Fd :
                    SysPipe2(p, cloexec, sr, sw, fr, fw)
               \/ SysPipeNoNumber(p, sr, sw)
        PROVE  OInv'
    BY <2>6, <2>7 DEF SysPipe2, SysPipeNoNumber
  <2> QED
    BY <1>3, <2>1, <2>2, <2>3, <2>4, <2>5, <2>7, BytesDrain DEF Syscall
<1> QED
  BY <1>1, <1>3 DEF Next, vars

\* All four hold in every run.
AllInv == FInv /\ PInv /\ TInv /\ OInv
LEMMA AllInvariant == Spec => []AllInv
<1>1. Init => AllInv
  BY FilesInit, EndsInit, TablesInit, OpenInit DEF AllInv
<1>2. AllInv /\ [Next]_vars => AllInv'
  BY FilesInductive, EndsInductive, TablesInductive, OpenInductive DEF AllInv
<1> QED
  BY <1>1, <1>2, PTL DEF Spec

(***************************************************************************)
(* The mapping                                                             *)
(***************************************************************************)
File == Path \cup {NoPath} \cup Ends
FileTable == [Pid -> [Fd -> File]]

\* What the descriptors refer to now and after the step.
LEMMA RefersNow ==
  ASSUME AllInv
  PROVE  /\ Refers \in FileTable
         /\ \A p \in Pid, f \in Fd :
              Refers[p][f] = IF fds[p][f] = NoSlot THEN NoPath ELSE ep[fds[p][f]]
BY DEF AllInv, FInv, TableType, PInv, EndType, Refers, FileTable, File, Closed
LEMMA RefersNext ==
  ASSUME AllInv'
  PROVE  /\ Refers' \in FileTable
         /\ \A p \in Pid, f \in Fd :
              Refers'[p][f] = IF fds'[p][f] = NoSlot THEN NoPath ELSE ep'[fds'[p][f]]
BY DEF AllInv, FInv, TableType, PInv, EndType, Refers, FileTable, File, Closed

\* Tables with the same entries are the same.
LEMMA SameTable ==
  ASSUME NEW A \in FileTable, NEW B \in FileTable,
         \A p \in Pid, f \in Fd : A[p][f] = B[p][f]
  PROVE  A = B
<1>1. \A p \in Pid : A[p] = B[p]
  BY DEF FileTable
<1> QED
  BY <1>1 DEF FileTable

\* A descriptor that keeps its slot, or copies another's, keeps or copies the file:
\* no slot that is still named changes hands.
LEMMA Follows ==
  ASSUME AllInv, AllInv', EpKept,
         NEW q \in Pid, NEW h \in Fd, NEW r \in Pid, NEW g \in Fd, fds'[q][h] = fds[r][g]
  PROVE  Refers'[q][h] = Refers[r][g]
<1>1. CASE fds[r][g] = NoSlot
  BY <1>1, RefersNow, RefersNext
<1>2. CASE fds[r][g] # NoSlot
  <2>1. fds[r][g] \in Slot /\ fds[r][g] \notin free_slots
    BY <1>2, ByDescriptor DEF AllInv, FInv, TableType
  <2>2. fds'[q][h] \notin free_slots'
    BY <1>2, ByDescriptorNext DEF AllInv, FInv
  <2> QED
    BY <1>2, <2>1, <2>2, RefersNow, RefersNext DEF EpKept
<1> QED
  BY <1>1, <1>2

\* An end has a name of its own.
LEMMA EndNames == NoPath \notin Ends /\ Closed = NoPath /\ NoSlot \notin Slot
BY NamesAssumption DEF Ends, Closed

\* A pipe is in use by descriptors while one of its ends is counted.
LEMMA UseNow ==
  ASSUME AllInv, NEW i \in PipeId
  PROVE  /\ OF!InUse(i) => readers[i] = 1 \/ writers[i] = 1
         /\ ~limit_reached => (readers[i] = 1 => OF!Held(ReadEnd(i)))
<1>1. /\ fds \in [Pid -> [Fd -> Slot \cup {NoSlot}]] /\ FreeClosed /\ EndsCounted
      /\ SlotsConserved
  BY DEF AllInv, FInv, TableType, PInv, TInv
<1>2. ReadEnd(i) \in Ends /\ WriteEnd(i) \in Ends
  BY EndsDiffer
<1>3. \A x \in Ends :
        /\ (\E p \in Pid, f \in Fd : Refers[p][f] = x) => \E s \in Slot : ep[s] = x
        /\ (\A s \in Slot \ free_slots : \E p \in Pid, f \in Fd : fds[p][f] = s) =>
             ((\E s \in Slot : ep[s] = x) => \E p \in Pid, f \in Fd : Refers[p][f] = x)
  <2>1. \A s \in free_slots : ep[s] = Closed
    BY <1>1 DEF FreeClosed
  <2>2. \A p \in Pid, f \in Fd :
          Refers[p][f] = IF fds[p][f] = NoSlot THEN NoPath ELSE ep[fds[p][f]]
    BY RefersNow
  <2> QED
    BY <1>1, <2>1, <2>2, EndNames
<1> QED
  BY <1>1, <1>2, <1>3
  DEF OF!InUse, OF!Held, OF!Process, OF!Number, OF!ReadEnd, OF!WriteEnd, ReadEnd, WriteEnd,
      EndsCounted, SlotsConserved, Pid, Fd
LEMMA UseNext ==
  ASSUME AllInv', NEW i \in PipeId
  PROVE  /\ OF!InUse(i)' => readers'[i] = 1 \/ writers'[i] = 1
         /\ ~limit_reached' => (readers'[i] = 1 \/ writers'[i] = 1 => OF!InUse(i)')
<1>1. /\ fds' \in [Pid -> [Fd -> Slot \cup {NoSlot}]] /\ FreeClosed' /\ EndsCounted'
      /\ SlotsConserved'
  BY DEF AllInv, FInv, TableType, PInv, TInv
<1>2. ReadEnd(i) \in Ends /\ WriteEnd(i) \in Ends
  BY EndsDiffer
<1>3. \A x \in Ends :
        /\ (\E p \in Pid, f \in Fd : Refers'[p][f] = x) => \E s \in Slot : ep'[s] = x
        /\ (\A s \in Slot \ free_slots' : \E p \in Pid, f \in Fd : fds'[p][f] = s) =>
             ((\E s \in Slot : ep'[s] = x) => \E p \in Pid, f \in Fd : Refers'[p][f] = x)
  <2>1. \A s \in free_slots' : ep'[s] = Closed
    BY <1>1 DEF FreeClosed
  <2>2. \A p \in Pid, f \in Fd :
          Refers'[p][f] = IF fds'[p][f] = NoSlot THEN NoPath ELSE ep'[fds'[p][f]]
    BY RefersNext
  <2> QED
    BY <1>1, <2>1, <2>2, EndNames
<1> QED
  BY <1>1, <1>2, <1>3
  DEF OF!InUse, OF!Held, OF!Process, OF!Number, OF!ReadEnd, OF!WriteEnd, ReadEnd, WriteEnd,
      EndsCounted, SlotsConserved, Pid, Fd

\* A step that empties some pipes, none of the registry, drops those out of use.
LEMMA Drops ==
  ASSUME AllInv, AllInv',
         \A i \in PipeId : buf'[i] \in {0, buf[i]} /\ (i \in pipes' => buf'[i] = buf[i])
  PROVE  OF!Drop
<1>1. /\ EndType' /\ PipesKept' /\ Drained'
  BY DEF AllInv, PInv, OInv
<1>2. ASSUME NEW i \in PipeId, OF!InUse(i)'
      PROVE  buf'[i] = buf[i]
  <2>1. readers'[i] = 1 \/ writers'[i] = 1
    BY <1>2, UseNext
  <2> QED
    BY <1>1, <2>1 DEF PipesKept
<1>3. ASSUME NEW i \in PipeId, ~limit_reached', ~OF!InUse(i)'
      PROVE  buf'[i] = 0
  <2>1. ~(readers'[i] = 1 \/ writers'[i] = 1)
    BY <1>3, UseNext
  <2> QED
    BY <1>1, <2>1 DEF Drained, EndType
<1> DEFINE kept == IF limit_reached' THEN {i \in PipeId : buf'[i] = buf[i]}
                   ELSE {i \in PipeId : OF!InUse(i)'}
<1>4. buf' = [i \in PipeId |-> IF i \in kept THEN buf[i] ELSE 0]
  <2>1. \A i \in PipeId : buf'[i] = IF i \in kept THEN buf[i] ELSE 0
    BY <1>2, <1>3
  <2> QED
    BY <1>1, <2>1 DEF EndType
<1>5. /\ kept \in SUBSET PipeId
      /\ \A i \in PipeId : OF!InUse(i)' => i \in kept
      /\ limit_reached' \/ \A i \in kept : OF!InUse(i)'
  BY <1>2
<1> HIDE DEF kept
<1>6. PipeId = OF!Pipe
  BY DEF PipeId, OF!Pipe
<1> QED
  BY <1>4, <1>5, <1>6 DEF OF!Drop

\* One entry of a table is replaced.
LEMMA SetOne ==
  ASSUME NEW R \in FileTable, NEW T \in FileTable, NEW p \in Pid, NEW g \in Fd,
         NEW x \in File,
         \A q \in Pid, h \in Fd : T[q][h] = IF q = p /\ h = g THEN x ELSE R[q][h]
  PROVE  T = [R EXCEPT ![p][g] = x]
<1> DEFINE U == [R EXCEPT ![p][g] = x]
<1>1. /\ U \in FileTable
      /\ \A q \in Pid, h \in Fd : U[q][h] = IF q = p /\ h = g THEN x ELSE R[q][h]
  BY DEF FileTable
<1> HIDE DEF U
<1>2. \A q \in Pid, h \in Fd : T[q][h] = U[q][h]
  BY <1>1
<1>3. T = U
  BY <1>1, <1>2, SameTable
<1> QED
  BY <1>3 DEF U

\* Closing the descriptors F of p changes what they refer to, and nothing else.
LEMMA CloseRefines ==
  ASSUME AllInv, AllInv', NEW p \in tasks, NEW F \in SUBSET Fd, do_close(p, F)
  PROVE  Refers' = OF!Without(p, F) /\ OF!Drop
<1>0. p \in Pid /\ fds \in [Pid -> [Fd -> Slot \cup {NoSlot}]]
  BY DEF AllInv, FInv, TableType
<1>1. \A q \in Pid, f \in Fd : fds'[q][f] = IF q = p /\ f \in F THEN NoSlot ELSE fds[q][f]
  BY <1>0 DEF do_close, Without
<1>2. ReleaseSlots(ReleasedBy(p, F))
  BY DEF do_close
<1>3. EpKept
  BY <1>2 DEF EpKept, ReleaseSlots
<1>4. \A q \in Pid, f \in Fd :
        Refers'[q][f] = IF q = p /\ f \in F THEN NoPath ELSE Refers[q][f]
  BY <1>1, <1>3, Follows, RefersNext
<1>5. Refers' = OF!Without(p, F)
  <2>1. /\ OF!Without(p, F) \in FileTable
        /\ \A q \in Pid, f \in Fd :
             OF!Without(p, F)[q][f] = IF q = p /\ f \in F THEN NoPath ELSE Refers[q][f]
    BY <1>0, RefersNow DEF OF!Without, OF!Number, Fd, FileTable, File
  <2>2. \A q \in Pid, f \in Fd : Refers'[q][f] = OF!Without(p, F)[q][f]
    BY <1>4, <2>1
  <2> QED
    BY <2>1, <2>2, RefersNext, SameTable
<1>6. \A i \in PipeId : buf'[i] \in {0, buf[i]} /\ (i \in pipes' => buf'[i] = buf[i])
  BY <1>2 DEF ReleaseSlots, close_pipe_ends
<1> QED
  BY <1>5, <1>6, Drops

\* close, exec and exit.
LEMMA ClosesRefine ==
  ASSUME AllInv, AllInv', NEW p \in Pid,
         SysExit(p) \/ SysExec(p) \/ \E f \in Fd : SysClose(p, f)
  PROVE  p \in tasks /\ (OF!Close(p) \/ OF!Exit(p))
<1>0. p \in tasks /\ Fd = OF!Number
  BY DEF SysExit, SysExec, SysClose, Fd, OF!Number
<1>1. CASE SysExec(p) \/ \E f \in Fd : SysClose(p, f)
  <2>1. PICK F \in SUBSET Fd : do_close(p, F) /\ UNCHANGED <<tasks, limit_reached>>
    BY <1>1 DEF SysExec, SysClose, taskVars, AllInv, FInv, TableType
  <2>2. Refers' = OF!Without(p, F) /\ OF!Drop
    BY <1>0, <2>1, CloseRefines
  <2> QED
    BY <1>0, <2>1, <2>2 DEF OF!Close
<1>2. CASE SysExit(p)
  <2>1. /\ do_close(p, OpenFds(p)) /\ p # 1 /\ tasks' = tasks \ {p} /\ UNCHANGED limit_reached
        /\ OpenFds(p) \in SUBSET Fd
    BY <1>2 DEF SysExit, OpenFds
  <2>2. Refers' = OF!Without(p, OpenFds(p)) /\ OF!Drop
    BY <1>0, <2>1, CloseRefines
  <2>3. OF!Without(p, OpenFds(p)) = OF!Without(p, Fd)
    <3>1. \A f \in Fd : f \notin OpenFds(p) => Refers[p][f] = NoPath
      BY RefersNow DEF OpenFds
    <3>2. [f \in Fd |-> IF f \in OpenFds(p) THEN NoPath ELSE Refers[p][f]]
            = [f \in Fd |-> IF f \in Fd THEN NoPath ELSE Refers[p][f]]
      BY <3>1
    <3> QED
      BY <1>0, <3>2 DEF OF!Without
  <2> QED
    BY <1>0, <2>1, <2>2, <2>3 DEF OF!Exit
<1> QED
  BY <1>0, <1>1, <1>2

\* openat
LEMMA OpenRefines ==
  ASSUME AllInv, AllInv', NEW p \in Pid, NEW name \in Path, NEW s \in Slot,
         SysOpen(p, name, s)
  PROVE  p \in tasks /\ \E f \in Fd : OF!Open(p, f, name)
<1>0. /\ TableType /\ EndType /\ NextFdFresh
  BY DEF AllInv, FInv, PInv
<1>1. PICK f \in Fd : f = next_fd[p]
  BY <1>0 DEF TableType
<1>2. /\ p \in tasks /\ s \in free_slots /\ free_slots' = free_slots \ {s}
      /\ ep' = [ep EXCEPT ![s] = name] /\ fds' = [fds EXCEPT ![p][f] = s]
      /\ limit_reached' = (limit_reached \/ f = MaxFd)
      /\ UNCHANGED <<tasks, buf>>
  BY <1>1 DEF SysOpen, taskVars, pipeVars
<1>3. /\ \A q \in Pid, h \in Fd : fds'[q][h] = IF q = p /\ h = f THEN s ELSE fds[q][h]
      /\ ep'[s] = name /\ EpKept
  BY <1>0, <1>2 DEF TableType, EndType, EpKept
<1>4. \A q \in Pid, h \in Fd : Refers'[q][h] = IF q = p /\ h = f THEN name ELSE Refers[q][h]
  BY <1>3, Follows, RefersNext, NamesAssumption
<1>5. name \in File
  BY DEF File
<1>6. Refers' = [Refers EXCEPT ![p][f] = name]
  <2>1. Refers \in FileTable /\ Refers' \in FileTable
    BY RefersNow, RefersNext
  <2> QED
    BY <1>4, <1>5, <2>1, SetOne
<1>7. Refers[p][f] = NoPath \/ limit_reached
  <2>1. ~limit_reached => fds[p][f] = NoSlot
    BY <1>0, <1>1, BoundsAssumption DEF NextFdFresh, OpenFds, TableType, Fd
  <2> QED
    BY <2>1, RefersNow
<1> QED
  BY <1>2, <1>6, <1>7 DEF OF!Open, OF!Take

\* dup and dup3
LEMMA CopyRefines ==
  ASSUME AllInv, AllInv', NEW p \in tasks, NEW f \in Fd, NEW g \in Fd,
         f \in OpenFds(p), fds' = [fds EXCEPT ![p][g] = fds[p][f]], EpKept,
         limit_reached' = (limit_reached \/ g = MaxFd), UNCHANGED tasks,
         \A i \in PipeId : buf'[i] \in {0, buf[i]} /\ (i \in pipes' => buf'[i] = buf[i])
  PROVE  OF!Copy(p, f, g)
<1>0. TableType /\ SlotsOpen /\ p \in Pid
  BY DEF AllInv, FInv, OInv, TableType
<1>1. \A q \in Pid, h \in Fd : fds'[q][h] = IF q = p /\ h = g THEN fds[p][f] ELSE fds[q][h]
  BY <1>0 DEF TableType
<1>2. \A q \in Pid, h \in Fd :
        Refers'[q][h] = IF q = p /\ h = g THEN Refers[p][f] ELSE Refers[q][h]
  BY <1>0, <1>1, Follows
<1>3. Refers[p][f] \in File
  BY <1>0, RefersNow DEF FileTable
<1>4. Refers' = [Refers EXCEPT ![p][g] = Refers[p][f]]
  <2>1. Refers \in FileTable /\ Refers' \in FileTable
    BY RefersNow, RefersNext
  <2>2. PICK x \in File : x = Refers[p][f]
    BY <1>3
  <2>3. \A q \in Pid, h \in Fd : Refers'[q][h] = IF q = p /\ h = g THEN x ELSE Refers[q][h]
    BY <1>2, <2>2
  <2>4. Refers' = [Refers EXCEPT ![p][g] = x]
    BY <1>0, <2>1, <2>3, SetOne
  <2> QED
    BY <2>2, <2>4
<1>5. Refers[p][f] # NoPath
  <2>1. fds[p][f] \in Slot \ free_slots
    BY <1>0, ByDescriptor DEF AllInv, FInv, TableType, OpenFds
  <2> QED
    BY <1>0, <2>1, RefersNow, EndNames DEF SlotsOpen
<1> QED
  BY <1>4, <1>5, Drops DEF OF!Copy, OF!Take

LEMMA DupsRefine ==
  ASSUME AllInv, AllInv', NEW p \in Pid, NEW f \in Fd, NEW cloexec,
         \/ \E min \in MinFds : SysDup(p, f, min, cloexec)
         \/ \E g \in Targets : SysDup3(p, f, g, cloexec)
  PROVE  p \in tasks /\ \E g \in Fd : OF!Copy(p, f, g)
<1>1. ASSUME NEW min, SysDup(p, f, min, cloexec)
      PROVE  p \in tasks /\ \E g \in Fd : OF!Copy(p, f, g)
  <2>1. PICK g \in Fd : /\ fds' = [fds EXCEPT ![p][g] = fds[p][f]]
                        /\ limit_reached' = (limit_reached \/ g = MaxFd)
    BY <1>1 DEF SysDup
  <2>2. p \in tasks /\ f \in OpenFds(p) /\ UNCHANGED <<tasks, ep, buf>>
    BY <1>1 DEF SysDup, taskVars, slotVars, pipeVars
  <2>3. EpKept
    BY <2>2 DEF EpKept
  <2> QED
    BY <2>1, <2>2, <2>3, CopyRefines
<1>2. ASSUME NEW g \in Fd, SysDup3(p, f, g, cloexec)
      PROVE  p \in tasks /\ OF!Copy(p, f, g)
  <2>1. PICK F : ReleaseSlots(ReleasedBy(p, F))
    BY <1>2 DEF SysDup3
  <2>2. /\ p \in tasks /\ f \in OpenFds(p) /\ UNCHANGED tasks
        /\ fds' = [fds EXCEPT ![p][g] = fds[p][f]]
        /\ limit_reached' = (limit_reached \/ g = MaxFd)
    BY <1>2 DEF SysDup3, taskVars
  <2>3. EpKept
    BY <2>1 DEF EpKept, ReleaseSlots
  <2>4. \A i \in PipeId : buf'[i] \in {0, buf[i]} /\ (i \in pipes' => buf'[i] = buf[i])
    BY <2>1 DEF ReleaseSlots, close_pipe_ends
  <2> QED
    BY <2>2, <2>3, <2>4, CopyRefines
<1> QED
  BY <1>1, <1>2, FdAssumption

\* pipe2 that succeeds
LEMMA PipeRefines ==
  ASSUME AllInv, AllInv', NEW p \in Pid, NEW cloexec, NEW sr \in Slot, NEW sw \in Slot,
         NEW fr \in Fd, NEW fw \in Fd, SysPipe2(p, cloexec, sr, sw, fr, fw)
  PROVE  p \in tasks /\ \E i \in PipeId : OF!MakePipe(p, i, fr, fw)
<1>0. /\ TableType /\ EndType /\ EndsCounted /\ NoFutureEnds /\ Drained
  BY DEF AllInv, FInv, PInv, OInv
<1>1. /\ p \in tasks /\ PipeFds(p, fr, fw) /\ OpenEnds(sr, sw)
      /\ fds' = [fds EXCEPT ![p][fr] = sr, ![p][fw] = sw]
      /\ limit_reached' = (limit_reached \/ fw = MaxFd) /\ UNCHANGED tasks
  BY DEF SysPipe2, taskVars
<1>2. PICK n \in PipeId : n = next_pipe_id
  BY <1>0, <1>1 DEF EndType, OpenEnds, NewPipe, PipeId
<1>3. /\ sr \in free_slots /\ sw \in free_slots /\ sr # sw /\ UNCHANGED buf
      /\ free_slots' = free_slots \ {sr, sw}
      /\ ep' = [ep EXCEPT ![sr] = ReadEnd(n), ![sw] = WriteEnd(n)]
  BY <1>1, <1>2 DEF OpenEnds, NewPipe
<1>4. fds[p][fr] = NoSlot /\ fds[p][fw] = NoSlot /\ fr # fw
  <2>1. fds[p][fr] = NoSlot /\ fds[p][fw] = NoSlot /\ fr < fw
    BY <1>1, PipeNumbers DEF AllInv
  <2> QED
    BY <2>1, BoundsAssumption DEF Fd
<1>5. /\ \A q \in Pid, h \in Fd :
           fds'[q][h] = IF q = p /\ h = fw THEN sw
                        ELSE IF q = p /\ h = fr THEN sr ELSE fds[q][h]
      /\ ep'[sr] = ReadEnd(n) /\ ep'[sw] = WriteEnd(n) /\ EpKept
  BY <1>0, <1>1, <1>3 DEF TableType, EndType, EpKept
<1>6. \A q \in Pid, h \in Fd :
        Refers'[q][h] = IF q = p /\ h = fw THEN WriteEnd(n)
                        ELSE IF q = p /\ h = fr THEN ReadEnd(n) ELSE Refers[q][h]
  BY <1>5, Follows, RefersNext, EndNames
<1>7. Refers' = [Refers EXCEPT ![p][fr] = ReadEnd(n), ![p][fw] = WriteEnd(n)]
  <2>1. Refers \in FileTable /\ Refers' \in FileTable
    BY RefersNow, RefersNext
  <2>2. ReadEnd(n) \in File /\ WriteEnd(n) \in File
    BY EndsDiffer DEF File
  <2> DEFINE M == [Refers EXCEPT ![p][fr] = ReadEnd(n)]
  <2>3. /\ M \in FileTable
        /\ \A q \in Pid, h \in Fd :
             M[q][h] = IF q = p /\ h = fr THEN ReadEnd(n) ELSE Refers[q][h]
    BY <2>1, <2>2 DEF FileTable
  <2> HIDE DEF M
  <2>4. \A q \in Pid, h \in Fd :
          Refers'[q][h] = IF q = p /\ h = fw THEN WriteEnd(n) ELSE M[q][h]
    BY <1>6, <2>3
  <2>5. Refers' = [M EXCEPT ![p][fw] = WriteEnd(n)]
    BY <2>1, <2>2, <2>3, <2>4, SetOne
  <2> QED
    BY <2>5 DEF M
<1>8. ~OF!InUse(n) /\ buf[n] = 0
  <2>1. \A s \in Slot : ep[s] # ReadEnd(n) /\ ep[s] # WriteEnd(n)
    BY <1>0, <1>2, BoundsAssumption DEF NoFutureEnds, PipeId
  <2>2. readers[n] = 0 /\ writers[n] = 0
    BY <1>0, <2>1 DEF EndsCounted, EndType
  <2>3. buf[n] = 0
    BY <1>0, <2>2 DEF Drained
  <2>4. OF!InUse(n) => readers[n] = 1 \/ writers[n] = 1
    BY UseNow
  <2> QED
    BY <2>2, <2>3, <2>4
<1>9. Refers[p][fr] = NoPath /\ Refers[p][fw] = NoPath
  BY <1>4, RefersNow
<1>10. OF!MakePipe(p, n, fr, fw)
  BY <1>1, <1>3, <1>4, <1>7, <1>8, <1>9
  DEF OF!MakePipe, OF!Take, OF!ReadEnd, OF!WriteEnd, ReadEnd, WriteEnd
<1> QED
  BY <1>1, <1>10

\* Calls that change no descriptor and no pipe in use.
LEMMA QuietRefines ==
  ASSUME AllInv, AllInv', UNCHANGED <<tasks, fds, buf>>, EpKept,
         limit_reached' \in {limit_reached, TRUE}
  PROVE  OF!Exhaust \/ UNCHANGED OF!vars
<1>1. \A q \in Pid, h \in Fd : Refers'[q][h] = Refers[q][h]
  BY Follows
<1>2. Refers' = Refers
  BY <1>1, RefersNow, RefersNext, SameTable
<1> QED
  BY <1>2 DEF OF!Exhaust, OF!vars

\* fork
LEMMA ForkRefines ==
  ASSUME AllInv, AllInv', NEW p \in Pid, NEW copied \in BOOLEAN, SysFork(p, copied)
  PROVE  p \in tasks /\ \E c \in Pid : OF!Fork(p, c)
<1>0. TableType /\ FreshTasks
  BY DEF AllInv, FInv, TInv
<1>1. PICK c \in Pid : c = next_pid
  BY <1>0, BoundsAssumption DEF SysFork, TableType, Pid
<1>2. /\ p \in tasks /\ tasks' = tasks \cup {c}
      /\ fds' = IF copied THEN [fds EXCEPT ![c] = fds[p]] ELSE fds
      /\ UNCHANGED <<ep, buf, limit_reached>>
  BY <1>1 DEF SysFork, slotVars, pipeVars
<1>3. c \notin tasks
  BY <1>0, <1>1, BoundsAssumption DEF FreshTasks, TableType, Pid
<1>4. EpKept
  BY <1>2 DEF EpKept
<1>5. Refers \in FileTable /\ Refers' \in FileTable
  BY RefersNow, RefersNext
<1>6. CASE copied
  <2>1. \A q \in Pid, h \in Fd : fds'[q][h] = IF q = c THEN fds[p][h] ELSE fds[q][h]
    BY <1>0, <1>2, <1>6 DEF TableType
  <2>2. \A q \in Pid, h \in Fd : Refers'[q][h] = IF q = c THEN Refers[p][h] ELSE Refers[q][h]
    BY <1>4, <2>1, Follows
  <2> DEFINE T == [Refers EXCEPT ![c] = Refers[p]]
  <2>3. /\ T \in FileTable
        /\ \A q \in Pid, h \in Fd : T[q][h] = IF q = c THEN Refers[p][h] ELSE Refers[q][h]
    BY <1>5 DEF FileTable
  <2> HIDE DEF T
  <2>4. \A q \in Pid, h \in Fd : Refers'[q][h] = T[q][h]
    BY <2>2, <2>3
  <2>5. Refers' = [Refers EXCEPT ![c] = Refers[p]]
    BY <1>5, <2>3, <2>4, SameTable DEF T
  <2> QED
    BY <1>2, <1>3, <2>5 DEF OF!Fork
<1>7. CASE ~copied
  <2>1. \A q \in Pid, h \in Fd : Refers'[q][h] = Refers[q][h]
    BY <1>2, <1>4, <1>7, Follows
  <2>2. Refers' = Refers
    BY <1>5, <2>1, SameTable
  <2> QED
    BY <1>2, <1>3, <2>2 DEF OF!Fork
<1> QED
  BY <1>6, <1>7

\* Pipe I/O
LEMMA BytesRefine ==
  ASSUME AllInv, AllInv', NEW p \in Pid, NEW f \in Fd, NEW i \in PipeId,
         SysPipeRead(p, f, i) \/ SysPipeWrite(p, f, i)
  PROVE  p \in tasks /\ (OF!Read(p, i) \/ OF!Write(p, i))
<1>1. /\ p \in tasks /\ f \in OpenFds(p) /\ UNCHANGED <<tasks, fds, ep, limit_reached>>
  BY DEF SysPipeRead, SysPipeWrite, taskVars, tableVars, slotVars
<1>2. Refers[p][f] = ep[fds[p][f]] /\ Fd = OF!Number
  BY <1>1, RefersNow DEF OpenFds, Fd, OF!Number
<1>3. Refers' = Refers
  BY <1>1 DEF Refers
<1>4. CASE SysPipeRead(p, f, i)
  BY <1>1, <1>2, <1>3, <1>4 DEF SysPipeRead, OF!Read, OF!ReadEnd, ReadEnd
<1>5. CASE SysPipeWrite(p, f, i)
  <2>1. limit_reached \/ OF!Held(ReadEnd(i))
    <3>1. readers[i] = 1
      BY <1>5 DEF SysPipeWrite, AllInv, PInv, EndType
    <3> QED
      BY <3>1, UseNow
  <2> QED
    BY <1>1, <1>2, <1>3, <1>5, <2>1
    DEF SysPipeWrite, OF!Write, OF!WriteEnd, OF!ReadEnd, ReadEnd, WriteEnd
<1> QED
  BY <1>1, <1>4, <1>5

\* The first states map to first states of OpenFiles.
LEMMA RefinesInit == Init => OF!Init
<1> SUFFICES ASSUME Init PROVE OF!Init
  OBVIOUS
<1>1. PICK stdio \in BOOLEAN, s \in Slot :
        /\ fds = [p \in Pid |-> [f \in Fd |->
                    IF stdio /\ p = 1 /\ f \in StdFds THEN s ELSE NoSlot]]
        /\ ep = [t \in Slot |-> IF stdio /\ t = s THEN TtyPath ELSE Closed]
  BY DEF Init
<1> DEFINE std == IF stdio THEN StdFds \cap Fd ELSE {}
<1>2. Refers = [p \in Pid |-> [f \in Fd |-> IF p = 1 /\ f \in std THEN TtyPath ELSE NoPath]]
  <2>1. \A p \in Pid, f \in Fd :
          (IF fds[p][f] = NoSlot THEN Closed ELSE ep[fds[p][f]])
            = IF p = 1 /\ f \in std THEN TtyPath ELSE NoPath
    BY <1>1, NamesAssumption DEF Closed
  <2> QED
    BY <2>1 DEF Refers
<1>3. std \in SUBSET Fd /\ TtyPath \in Path
  BY NamesAssumption
<1> HIDE DEF std
<1>4. /\ tasks = {1} /\ buf = [i \in PipeId |-> 0] /\ limit_reached = FALSE
  BY DEF Init
<1> QED
  BY <1>2, <1>3, <1>4
  DEF OF!Init, OF!Process, OF!Number, OF!Pipe, Pid, Fd, PipeId

\* Every step maps to a step of OpenFiles or to a stutter.
LEMMA RefinesStep ==
  ASSUME AllInv, AllInv', [Next]_vars
  PROVE  [OF!Next]_(OF!vars)
<1>0. Pid = OF!Process /\ Fd = OF!Number /\ PipeId = OF!Pipe
  BY DEF Pid, Fd, PipeId, OF!Process, OF!Number, OF!Pipe
<1>1. CASE UNCHANGED vars
  BY <1>1 DEF vars, taskVars, tableVars, slotVars, pipeVars, Refers, OF!vars
<1>2. ASSUME NEW p \in Pid, Syscall(p) PROVE [OF!Next]_(OF!vars)
  <2>1. CASE SysExit(p) \/ SysExec(p) \/ \E f \in Fd : SysClose(p, f)
    BY <2>1, ClosesRefine DEF OF!Next
  <2>2. CASE \E copied \in BOOLEAN : SysFork(p, copied)
    BY <1>0, <2>2, ForkRefines DEF OF!Next
  <2>3. CASE \E name \in Path, s \in Slot : SysOpen(p, name, s)
    BY <1>0, <2>3, OpenRefines DEF OF!Next
  <2>4. ASSUME NEW f \in Fd, NEW cloexec \in CloexecFlags,
               \/ \E min \in MinFds : SysDup(p, f, min, cloexec)
               \/ \E g \in Targets : SysDup3(p, f, g, cloexec)
        PROVE  OF!Next
    BY <1>0, <2>4, DupsRefine DEF OF!Next
  <2>5. ASSUME NEW sr \in Slot, NEW sw \in Slot, NEW cloexec \in CloexecFlags,
               NEW fr \in Fd, NEW fw \in Fd, SysPipe2(p, cloexec, sr, sw, fr, fw)
        PROVE  OF!Next
    BY <1>0, <2>5, PipeRefines DEF OF!Next
  <2>6. ASSUME p \in tasks, UNCHANGED <<tasks, fds, buf>>, EpKept,
               limit_reached' \in {limit_reached, TRUE}
        PROVE  [OF!Next]_(OF!vars)
    BY <2>6, QuietRefines DEF OF!Next
  <2>7. ASSUME NEW f \in Fd, NEW cloexec \in CloexecFlags, SysSetFd(p, f, cloexec)
        PROVE  [OF!Next]_(OF!vars)
    BY <2>6, <2>7 DEF SysSetFd, taskVars, slotVars, pipeVars, EpKept
  <2>8. CASE SysPipeNotOpened(p)
    BY <2>6, <2>8
    DEF SysPipeNotOpened, PipeUnchanged, NewPipe, taskVars, tableVars, slotVars, EpKept
  <2>9. ASSUME NEW fr \in Fd, NEW fw \in Fd, SysPipeNotCopied(p, fr, fw)
        PROVE  [OF!Next]_(OF!vars)
    <3>1. /\ p \in tasks /\ UNCHANGED <<tasks, fds, buf, ep>>
          /\ limit_reached' = (limit_reached \/ fw = MaxFd)
      BY <2>9 DEF SysPipeNotCopied, PipeUnchanged, NewPipe, taskVars, slotVars
    <3>2. limit_reached' \in {limit_reached, TRUE} /\ EpKept
      BY <3>1 DEF EpKept, AllInv, FInv, TableType
    <3> QED
      BY <2>6, <3>1, <3>2
  <2>10. ASSUME NEW sr \in Slot, NEW sw \in Slot, SysPipeNoNumber(p, sr, sw)
         PROVE  [OF!Next]_(OF!vars)
    <3>1. /\ p \in tasks /\ UNCHANGED <<tasks, fds, buf>> /\ limit_reached' = TRUE
          /\ sr \in free_slots /\ sw \in free_slots
          /\ ep' = [ep EXCEPT ![sr] = ReadEnd(next_pipe_id), ![sw] = WriteEnd(next_pipe_id)]
      BY <2>10 DEF SysPipeNoNumber, PipeUnchanged, OpenEnds, NewPipe, taskVars
    <3>2. EpKept
      BY <3>1 DEF EpKept, AllInv, PInv, EndType
    <3> QED
      BY <2>6, <3>1, <3>2
  <2>11. ASSUME NEW f \in Fd, NEW i \in PipeId, SysPipeRead(p, f, i) \/ SysPipeWrite(p, f, i)
         PROVE  OF!Next
    BY <1>0, <2>11, BytesRefine DEF OF!Next
  <2> QED
    BY <1>2, <2>1, <2>2, <2>3, <2>4, <2>5, <2>7, <2>8, <2>9, <2>10, <2>11 DEF Syscall
<1> QED
  BY <1>1, <1>2 DEF Next

\* The descriptor tables, the slots that dup and fork share, the scan that frees
\* them and the pipe server's counters implement OpenFiles: what a descriptor refers
\* to changes only by a call of its own process, a pipe keeps its bytes as long as
\* somebody has a descriptor for it, and it is written only while somebody can read.
THEOREM FilesRefineOpenFiles == Spec => ImplementsOpenFiles
<1>1. AllInv /\ AllInv' /\ [Next]_vars => [OF!Next]_(OF!vars)
  BY RefinesStep
<1> QED
  BY <1>1, RefinesInit, AllInvariant, PTL DEF Spec, ImplementsOpenFiles, OF!Spec
=============================================================================
