------------------------------ MODULE ApeFiles ------------------------------
(***************************************************************************)
(* Descriptor tables, the endpoint slots behind them, pipes and async      *)
(* regions of the APE server.                                              *)
(*                                                                         *)
(* A descriptor holds a copy of a handle; copies made by dup and fork name *)
(* the same endpoint slot, and a close releases the slot only after a scan *)
(* of every table has found no other copy.  The dispatcher runs one call   *)
(* at a time with the manager locked and its calls to the file servers are *)
(* synchronous, so each system call is one action; calls of different      *)
(* processes interleave freely.  File contents and offsets are left out.   *)
(***************************************************************************)
EXTENDS Integers, FiniteSets

CONSTANTS
  MaxPid,        \* bound: pids are 1..MaxPid
  MaxFd,         \* u32::MAX, the largest descriptor number
  StdFds,        \* STDIN_FILENO, STDOUT_FILENO, STDERR_FILENO
  FirstUserFd,   \* FIRST_USER_FD
  Slot, NoSlot,  \* capability slots for endpoints
  Path, NoPath,  \* file names
  TtyPath,       \* the name init's standard descriptors were opened with
  MaxPipe,       \* bound: pipes ever created
  PipeCapacity,  \* PIPE_DEFAULT_CAPACITY
  MaxRegions,    \* FS_ASYNC_POOL_MAX_REGIONS
  MinFds,        \* values of F_DUPFD's argument
  Targets,       \* values of dup3's newfd argument
  CloexecFlags   \* values of the close-on-exec flag of a call

Pid == 1..MaxPid
Fd == 0..MaxFd
PipeId == 1..MaxPipe
Region == 0..(MaxRegions - 1)
NoRegion == -1

ASSUME BoundsAssumption ==
  /\ MaxPid \in Nat \ {0} /\ MaxFd \in Nat \ {0} /\ MaxPipe \in Nat
  /\ PipeCapacity \in Nat \ {0} /\ MaxRegions \in Nat
ASSUME FdAssumption ==
  /\ FirstUserFd \in Fd /\ StdFds \subseteq 0..(FirstUserFd - 1) /\ StdFds # {}
  /\ MinFds \subseteq Fd /\ Targets \subseteq Fd /\ CloexecFlags \subseteq BOOLEAN
ASSUME NamesAssumption ==
  /\ NoSlot \notin Slot /\ NoPath \notin Path /\ TtyPath \in Path
  /\ (Path \cup {NoPath}) \cap (PipeId \X {"r", "w"}) = {}

VARIABLES
  tasks, next_pid,     \* as in ApeProcess
  fds,                 \* FilesState.fds: the handle's fs_ep_slot, NoSlot if closed
  region,              \* FilesState.fds: the handle's async_io.region_id
  fd_paths,            \* FilesState.fd_paths
  fd_cloexec,          \* FilesState.fd_cloexec: the descriptors marked true
  next_fd,             \* FilesState.next_fd
  free_slots,          \* cspace_mgr: slots free to be allocated
  ep,                  \* external: the open file a slot's endpoint stands for
  pipes, next_pipe_id, \* PipeRegistry
  readers, writers, buf, \* PipeState; buf by its length
  async_free,          \* ApeFsState.async_free, in any order
  region_count,        \* async_regions.len()
  iouring_off,         \* iouring_supported = Some(false)
  limit_reached        \* history: some table came to the last number, MaxFd

taskVars == <<tasks, next_pid>>
tableVars == <<fds, region, fd_paths, fd_cloexec, next_fd, limit_reached>>
slotVars == <<free_slots, ep>>
pipeVars == <<pipes, next_pipe_id, readers, writers, buf>>
regionVars == <<async_free, region_count, iouring_off>>
vars == <<taskVars, tableVars, slotVars, pipeVars, regionVars>>

Closed == NoPath                     \* what an empty slot's endpoint stands for
ReadEnd(i) == <<i, "r">>
WriteEnd(i) == <<i, "w">>

OpenFds(p) == {f \in Fd : fds[p][f] # NoSlot}
NoTable == [f \in Fd |-> NoSlot]

\* load_init: with a terminal, init's standard descriptors share one handle.
Init ==
  /\ tasks = {1} /\ next_pid = 2
  /\ \E stdio \in BOOLEAN, s \in Slot :
       /\ fds = [p \in Pid |-> [f \in Fd |->
                   IF stdio /\ p = 1 /\ f \in StdFds THEN s ELSE NoSlot]]
       /\ fd_paths = [p \in Pid |-> [f \in Fd |->
                   IF stdio /\ p = 1 /\ f \in StdFds THEN TtyPath ELSE NoPath]]
       /\ next_fd = [p \in Pid |-> IF stdio /\ p = 1 THEN FirstUserFd ELSE 0]
       /\ free_slots = IF stdio THEN Slot \ {s} ELSE Slot
       /\ ep = [t \in Slot |-> IF stdio /\ t = s THEN TtyPath ELSE Closed]
  /\ region = [p \in Pid |-> [f \in Fd |-> NoRegion]]
  /\ fd_cloexec = [p \in Pid |-> {}]
  /\ pipes = {} /\ next_pipe_id = 1
  /\ readers = [i \in PipeId |-> 0] /\ writers = [i \in PipeId |-> 0]
  /\ buf = [i \in PipeId |-> 0]
  /\ async_free = {} /\ region_count = 0 /\ iouring_off = FALSE
  /\ limit_reached = FALSE

(***************************************************************************)
(* do_close on the descriptors F of p: one for close and dup3, several,    *)
(* one after another, for exec and exit.  A slot goes with the last        *)
(* descriptor that names it.                                               *)
(***************************************************************************)
\* Mutants of still_shared: only the caller's own table is scanned; the scan
\* meets the descriptor that is being closed.
still_shared_own(s, p, F) == \E f \in Fd \ F : fds[p][f] = s
still_shared_self(s, p, F) == \E q \in tasks, f \in Fd : fds[q][f] = s

still_shared(s, p, F) ==
  \E q \in tasks, f \in Fd : fds[q][f] = s /\ ~(q = p /\ f \in F)

ReleasedBy(p, F) ==
  {s \in Slot : (\E f \in F : fds[p][f] = s) /\ ~still_shared(s, p, F)}

RegionsOf(p, F) == {region[p][f] : f \in F} \ {NoRegion}

\* PipeHandle::close for each pipe end behind the slots S: count down, and drop
\* the pipe with its last end.
ClosedEnds(S, end) == {s \in S : ep[s] = end}
CountDown(n, k) == IF n >= k THEN n - k ELSE 0

\* Mutant of close_pipe_ends: the pipe goes with either end.
close_pipe_ends_eager(S) ==
  LET r(i) == CountDown(readers[i], Cardinality(ClosedEnds(S, ReadEnd(i))))
      w(i) == CountDown(writers[i], Cardinality(ClosedEnds(S, WriteEnd(i))))
      hit(i) == \E s \in S : ep[s] \in {ReadEnd(i), WriteEnd(i)}
  IN  /\ readers' = [i \in PipeId |-> r(i)]
      /\ writers' = [i \in PipeId |-> w(i)]
      /\ pipes' = {i \in pipes : ~(hit(i) /\ (r(i) = 0 \/ w(i) = 0))}
      /\ buf' = [i \in PipeId |-> IF i \in pipes' THEN buf[i] ELSE 0]
      /\ UNCHANGED next_pipe_id

close_pipe_ends(S) ==
  LET r(i) == CountDown(readers[i], Cardinality(ClosedEnds(S, ReadEnd(i))))
      w(i) == CountDown(writers[i], Cardinality(ClosedEnds(S, WriteEnd(i))))
      hit(i) == \E s \in S : ep[s] \in {ReadEnd(i), WriteEnd(i)}
  IN  /\ readers' = [i \in PipeId |-> r(i)]
      /\ writers' = [i \in PipeId |-> w(i)]
      /\ pipes' = {i \in pipes : ~(hit(i) /\ r(i) = 0 /\ w(i) = 0)}
      /\ buf' = [i \in PipeId |-> IF i \in pipes' THEN buf[i] ELSE 0]
      /\ UNCHANGED next_pipe_id

ReleaseSlots(S) ==
  /\ free_slots' = free_slots \cup S
  /\ ep' = [s \in Slot |-> IF s \in S THEN Closed ELSE ep[s]]
  /\ close_pipe_ends(S)

\* Mutant of recycle_fs_async_regions: a close forgets the region.
recycle_nothing(R) == UNCHANGED <<async_free, region_count, iouring_off>>

recycle_fs_async_regions(R) ==
  /\ async_free' = async_free \cup {r \in R : r < region_count}
  /\ UNCHANGED <<region_count, iouring_off>>

\* The table of p after its descriptors F are gone.
Without(table, p, F, none) ==
  [table EXCEPT ![p] = [f \in Fd |-> IF f \in F THEN none ELSE table[p][f]]]

\* Mutants of do_close: the close-on-exec mark, or the path, outlives the number.
do_close_keeps_cloexec(p, F) ==
  /\ fds' = Without(fds, p, F, NoSlot)
  /\ region' = Without(region, p, F, NoRegion)
  /\ fd_paths' = Without(fd_paths, p, F, NoPath)
  /\ UNCHANGED fd_cloexec
  /\ ReleaseSlots(ReleasedBy(p, F))
  /\ recycle_fs_async_regions(RegionsOf(p, F))
do_close_keeps_path(p, F) ==
  /\ fds' = Without(fds, p, F, NoSlot)
  /\ region' = Without(region, p, F, NoRegion)
  /\ UNCHANGED fd_paths
  /\ fd_cloexec' = [fd_cloexec EXCEPT ![p] = @ \ F]
  /\ ReleaseSlots(ReleasedBy(p, F))
  /\ recycle_fs_async_regions(RegionsOf(p, F))

do_close(p, F) ==
  /\ fds' = Without(fds, p, F, NoSlot)
  /\ region' = Without(region, p, F, NoRegion)
  /\ fd_paths' = Without(fd_paths, p, F, NoPath)
  /\ fd_cloexec' = [fd_cloexec EXCEPT ![p] = @ \ F]
  /\ ReleaseSlots(ReleasedBy(p, F))
  /\ recycle_fs_async_regions(RegionsOf(p, F))

SysClose(p, f) ==
  /\ p \in tasks /\ f \in OpenFds(p)
  /\ do_close(p, {f})
  /\ UNCHANGED <<taskVars, next_fd, limit_reached>>

\* terminate_process closes every descriptor.  Init's death stops the server.
SysExit(p) ==
  /\ p \in tasks /\ p # 1
  /\ do_close(p, OpenFds(p))
  /\ tasks' = tasks \ {p}
  /\ next_fd' = [next_fd EXCEPT ![p] = 0]
  /\ UNCHANGED <<next_pid, limit_reached>>

\* close_cloexec_fds, at the end of an exec that succeeded so far: a marked
\* number that is not open ends the loop with an error.
SysExec(p) ==
  LET bad == fd_cloexec[p] \ OpenFds(p)
      F == {f \in fd_cloexec[p] : \A b \in bad : f <= b}
  IN  /\ p \in tasks
      /\ do_close(p, F)
      /\ UNCHANGED <<taskVars, next_fd, limit_reached>>

(***************************************************************************)
(* openat                                                                  *)
(***************************************************************************)
\* allocate_fs_async_region: a recycled region if there is one, or a new one.
Allocates(r) ==
  IF async_free # {} THEN r \in async_free
  ELSE region_count < MaxRegions /\ r = region_count

\* Give handle f of p an async region r if the file server takes one; without
\* async I/O, without a region, or after a refusal it has none.
setup_iouring(p, f) ==
  \/ /\ region' = [region EXCEPT ![p][f] = NoRegion]
     /\ UNCHANGED regionVars
  \/ \E r \in Region :
       /\ ~iouring_off /\ Allocates(r)
       /\ region_count' = IF r = region_count THEN r + 1 ELSE region_count
       /\ \/ /\ region' = [region EXCEPT ![p][f] = r]
             /\ async_free' = async_free \ {r}
             /\ UNCHANGED iouring_off
          \/ /\ region' = [region EXCEPT ![p][f] = NoRegion]
             /\ async_free' = async_free \cup {r}
             /\ iouring_off' \in BOOLEAN

\* The number is next_fd whatever the table holds there; the u32 wraps.
SysOpen(p, name, s) ==
  LET f == next_fd[p]
  IN  /\ p \in tasks /\ s \in free_slots
      /\ free_slots' = free_slots \ {s}
      /\ ep' = [ep EXCEPT ![s] = name]
      /\ fds' = [fds EXCEPT ![p][f] = s]
      /\ fd_paths' = [fd_paths EXCEPT ![p][f] = name]
      /\ setup_iouring(p, f)
      /\ next_fd' = [next_fd EXCEPT ![p] = (f + 1) % (MaxFd + 1)]
      /\ limit_reached' = (limit_reached \/ f = MaxFd)
      /\ UNCHANGED <<taskVars, fd_cloexec, pipeVars>>

(***************************************************************************)
(* fcntl, dup, dup3                                                        *)
(***************************************************************************)
\* Mutant of SaturatingSucc: the successor is not saturated.
PlainSucc(f) == f + 1
SaturatingSucc(f) == IF f < MaxFd THEN f + 1 ELSE MaxFd

\* The least number from min on that p does not use.
LeastFree(p, min, f) ==
  /\ f >= min /\ f \notin OpenFds(p)
  /\ \A g \in Fd : min <= g /\ g < f => g \in OpenFds(p)

\* Mutant of next_fd_above: off by one.
next_fd_at(p, f) ==
  next_fd' = [next_fd EXCEPT ![p] = IF @ < f THEN SaturatingSucc(f) ELSE @]

\* next_fd stays above a number taken by dup.
next_fd_above(p, f) ==
  next_fd' = [next_fd EXCEPT ![p] = IF @ <= f THEN SaturatingSucc(f) ELSE @]

SetCloexec(p, f, cloexec) ==
  fd_cloexec' = [fd_cloexec EXCEPT ![p] = IF cloexec THEN @ \cup {f} ELSE @ \ {f}]

SysSetFd(p, f, cloexec) ==
  /\ p \in tasks /\ f \in OpenFds(p)
  /\ SetCloexec(p, f, cloexec)
  /\ UNCHANGED <<taskVars, fds, region, fd_paths, next_fd, limit_reached, slotVars,
                 pipeVars, regionVars>>

\* F_DUPFD, F_DUPFD_CLOEXEC and dup: the copy has no async region.
SysDup(p, f, min, cloexec) ==
  /\ p \in tasks /\ f \in OpenFds(p)
  /\ \E g \in Fd :
       /\ LeastFree(p, min, g)
       /\ fds' = [fds EXCEPT ![p][g] = fds[p][f]]
       /\ region' = [region EXCEPT ![p][g] = NoRegion]
       /\ fd_paths' = [fd_paths EXCEPT ![p][g] =
                         IF fd_paths[p][f] # NoPath THEN fd_paths[p][f] ELSE @]
       /\ SetCloexec(p, g, cloexec)
       /\ next_fd_above(p, g)
       /\ limit_reached' = (limit_reached \/ g = MaxFd)
  /\ UNCHANGED <<taskVars, slotVars, pipeVars, regionVars>>

\* dup3 closes an open target first.
SysDup3(p, f, g, cloexec) ==
  LET replaced == {g} \cap OpenFds(p)
  IN  /\ p \in tasks /\ f \in OpenFds(p) /\ f # g
      /\ fds' = [fds EXCEPT ![p][g] = fds[p][f]]
      /\ region' = [region EXCEPT ![p][g] = NoRegion]
      /\ fd_paths' = [fd_paths EXCEPT ![p][g] =
                        IF fd_paths[p][f] # NoPath THEN fd_paths[p][f]
                        ELSE IF replaced # {} THEN NoPath ELSE @]
      /\ SetCloexec(p, g, cloexec)
      /\ next_fd_above(p, g)
      /\ ReleaseSlots(ReleasedBy(p, replaced))
      /\ recycle_fs_async_regions(RegionsOf(p, replaced))
      /\ limit_reached' = (limit_reached \/ g = MaxFd)
      /\ UNCHANGED taskVars

(***************************************************************************)
(* pipe2: create the pipe, open its ends, take two numbers, copy them out. *)
(***************************************************************************)
PipeUnchanged == UNCHANGED <<taskVars, region, fd_paths, regionVars>>

\* The registry entry made by create_pipe, with ends open on it.
NewPipe(r, w) ==
  /\ next_pipe_id <= MaxPipe
  /\ next_pipe_id' = next_pipe_id + 1
  /\ readers' = [readers EXCEPT ![next_pipe_id] = r]
  /\ writers' = [writers EXCEPT ![next_pipe_id] = w]
  /\ UNCHANGED buf

\* The read end does not open (the empty pipe stays in the registry), or the
\* write end does not (closing the read end removes the pipe).
SysPipeNotOpened(p) ==
  /\ p \in tasks
  /\ NewPipe(0, 0)
  /\ \/ pipes' = pipes \cup {next_pipe_id}
     \/ free_slots # {} /\ UNCHANGED pipes
  /\ UNCHANGED <<tableVars, slotVars>>
  /\ PipeUnchanged

OpenEnds(sr, sw) ==
  /\ sr \in free_slots /\ sw \in free_slots /\ sr # sw
  /\ NewPipe(1, 1)
  /\ pipes' = pipes \cup {next_pipe_id}
  /\ free_slots' = free_slots \ {sr, sw}
  /\ ep' = [ep EXCEPT ![sr] = ReadEnd(next_pipe_id), ![sw] = WriteEnd(next_pipe_id)]

\* The two numbers pipe2 takes.
PipeFds(p, fr, fw) == LeastFree(p, next_fd[p], fr) /\ LeastFree(p, fr + 1, fw)

SysPipe2(p, cloexec, sr, sw, fr, fw) ==
  /\ p \in tasks
  /\ PipeFds(p, fr, fw)
  /\ OpenEnds(sr, sw)
  /\ fds' = [fds EXCEPT ![p][fr] = sr, ![p][fw] = sw]
  /\ fd_cloexec' = [fd_cloexec EXCEPT
                      ![p] = IF cloexec THEN @ \cup {fr, fw} ELSE @ \ {fr, fw}]
  /\ next_fd' = [next_fd EXCEPT ![p] = SaturatingSucc(fw)]
  /\ limit_reached' = (limit_reached \/ fw = MaxFd)
  /\ UNCHANGED fd_paths
  /\ region' = [region EXCEPT ![p][fr] = NoRegion, ![p][fw] = NoRegion]
  /\ UNCHANGED <<taskVars, regionVars>>

\* The numbers cannot be copied to the user: everything but next_fd is undone.
SysPipeNotCopied(p, fr, fw) ==
  /\ p \in tasks /\ Cardinality(free_slots) >= 2
  /\ PipeFds(p, fr, fw)
  /\ NewPipe(0, 0)
  /\ fd_cloexec' = [fd_cloexec EXCEPT ![p] = @ \ {fr, fw}]
  /\ next_fd' = [next_fd EXCEPT ![p] = SaturatingSucc(fw)]
  /\ limit_reached' = (limit_reached \/ fw = MaxFd)
  /\ UNCHANGED <<fds, pipes, slotVars>>
  /\ PipeUnchanged

\* No two numbers are left above next_fd: the call fails with both ends open.
SysPipeNoNumber(p, sr, sw) ==
  /\ p \in tasks
  /\ \A fr, fw \in Fd : ~PipeFds(p, fr, fw)
  /\ OpenEnds(sr, sw)
  /\ limit_reached' = TRUE
  /\ UNCHANGED <<fds, fd_cloexec, next_fd>>
  /\ PipeUnchanged

(***************************************************************************)
(* Pipe I/O and fork                                                       *)
(***************************************************************************)
\* pipe_read takes what there is; an empty pipe reads as end of file.
SysPipeRead(p, f, i) ==
  /\ p \in tasks /\ f \in OpenFds(p) /\ ep[fds[p][f]] = ReadEnd(i) /\ i \in pipes
  /\ \E n \in 1..buf[i] : buf' = [buf EXCEPT ![i] = @ - n]
  /\ UNCHANGED <<taskVars, tableVars, slotVars, pipes, next_pipe_id, readers, writers,
                 regionVars>>

\* pipe_write stores what fits; without readers it fails.
SysPipeWrite(p, f, i) ==
  /\ p \in tasks /\ f \in OpenFds(p) /\ ep[fds[p][f]] = WriteEnd(i) /\ i \in pipes
  /\ readers[i] # 0
  /\ \E n \in 1..(PipeCapacity - buf[i]) : buf' = [buf EXCEPT ![i] = @ + n]
  /\ UNCHANGED <<taskVars, tableVars, slotVars, pipes, next_pipe_id, readers, writers,
                 regionVars>>

\* The child gets copies of the tables, or none when its memory was not mapped.
SysFork(p, copied) ==
  LET c == next_pid
      Copied(table) == IF copied THEN [table EXCEPT ![c] = table[p]] ELSE table
  IN  /\ p \in tasks /\ c <= MaxPid
      /\ tasks' = tasks \cup {c} /\ next_pid' = c + 1
      /\ fds' = Copied(fds) /\ region' = Copied(region)
      /\ fd_paths' = Copied(fd_paths) /\ fd_cloexec' = Copied(fd_cloexec)
      /\ next_fd' = Copied(next_fd)
      /\ UNCHANGED <<limit_reached, slotVars, pipeVars, regionVars>>
-----------------------------------------------------------------------------
Syscall(p) ==
  \/ SysExit(p) \/ SysExec(p)
  \/ \E copied \in BOOLEAN : SysFork(p, copied)
  \/ \E f \in Fd : SysClose(p, f)
  \/ \E name \in Path, s \in Slot : SysOpen(p, name, s)
  \/ \E f \in Fd, cloexec \in CloexecFlags :
       \/ SysSetFd(p, f, cloexec)
       \/ \E min \in MinFds : SysDup(p, f, min, cloexec)
       \/ \E g \in Targets : SysDup3(p, f, g, cloexec)
  \/ SysPipeNotOpened(p)
  \/ \E sr, sw \in Slot :
       \/ \E cloexec \in CloexecFlags, fr, fw \in Fd : SysPipe2(p, cloexec, sr, sw, fr, fw)
       \/ SysPipeNoNumber(p, sr, sw)
  \/ \E fr, fw \in Fd : SysPipeNotCopied(p, fr, fw)
  \/ \E f \in Fd, i \in PipeId : SysPipeRead(p, f, i) \/ SysPipeWrite(p, f, i)

Next == \E p \in Pid : Syscall(p)

Spec == Init /\ [][Next]_vars

-----------------------------------------------------------------------------
(***************************************************************************)
(* Invariants                                                              *)
(***************************************************************************)
\* Every variable has its type, and a process that is gone has no table.
TypeOK ==
  /\ tasks \subseteq Pid /\ next_pid \in 1..(MaxPid + 1)
  /\ fds \in [Pid -> [Fd -> Slot \cup {NoSlot}]]
  /\ region \in [Pid -> [Fd -> Region \cup {NoRegion}]]
  /\ fd_paths \in [Pid -> [Fd -> Path \cup {NoPath}]]
  /\ fd_cloexec \in [Pid -> SUBSET Fd]
  /\ next_fd \in [Pid -> Fd]
  /\ free_slots \subseteq Slot
  /\ ep \in [Slot -> Path \cup {Closed} \cup (PipeId \X {"r", "w"})]
  /\ pipes \subseteq PipeId /\ next_pipe_id \in 1..(MaxPipe + 1)
  /\ readers \in [PipeId -> Nat] /\ writers \in [PipeId -> Nat]
  /\ buf \in [PipeId -> 0..PipeCapacity]
  /\ async_free \subseteq Region /\ region_count \in 0..MaxRegions
  /\ iouring_off \in BOOLEAN /\ limit_reached \in BOOLEAN
  /\ \A p \in Pid : OpenFds(p) # {} => p \in tasks

\* A descriptor never names a slot that was freed, whichever copies of it dup
\* and fork made and in whatever order they were closed: an open there could
\* be answered by another file's server.
NoDanglingSlot == \A p \in Pid : \A f \in OpenFds(p) : fds[p][f] \notin free_slots

\* Every allocated slot is named by some descriptor: closing the last copy frees
\* it.  At the last descriptor number, open forgets the handle it overwrites
\* and pipe2 the ends it has no number for, so the claim stops there.
SlotsConserved ==
  ~limit_reached => \A s \in Slot \ free_slots : \E p \in Pid, f \in Fd : fds[p][f] = s

\* The pipe server counts an end as open exactly while a slot holds it: a writer
\* fails for want of readers, and a pipe with its bytes is dropped, only when no
\* process has a descriptor for the other end.
PipeEndsMatch ==
  \A i \in PipeId :
    /\ readers[i] = Cardinality({s \in Slot : ep[s] = ReadEnd(i)})
    /\ writers[i] = Cardinality({s \in Slot : ep[s] = WriteEnd(i)})
    /\ readers[i] # 0 \/ writers[i] # 0 => i \in pipes
    /\ buf[i] # 0 => i \in pipes

\* next_fd is above every descriptor in use, so open does not replace one; dup,
\* dup3 and pipe2 choose numbers of their own and must keep it so.
NextFdFresh == ~limit_reached => \A p \in Pid : \A f \in OpenFds(p) : f < next_fd[p]

\* Only open descriptors are marked close-on-exec: the closing loop, which runs
\* when the old image is already gone, never fails.
CloexecIsOpen == \A p \in Pid : fd_cloexec[p] \subseteq OpenFds(p)

\* The recorded path of a descriptor is the name of the file it refers to, so
\* fchdir goes to the directory the descriptor stands for.
PathMatchesFile ==
  \A p \in Pid, f \in Fd :
    fd_paths[p][f] = IF f \in OpenFds(p) /\ ep[fds[p][f]] \in Path
                     THEN ep[fds[p][f]] ELSE NoPath

\* Every async region is in the pool or held by a descriptor: closing gives it
\* back on every path.
RegionsConserved ==
  /\ \A p \in Pid, f \in Fd : region[p][f] # NoRegion => region[p][f] < region_count
  /\ ~limit_reached => \A r \in Region : r < region_count =>
       r \in async_free \/ \E p \in Pid, f \in Fd : region[p][f] = r

(***************************************************************************)
(* Refinement: what a descriptor refers to is what its slot stands for.    *)
(***************************************************************************)
Refers == [p \in Pid |-> [f \in Fd |-> IF fds[p][f] = NoSlot THEN Closed ELSE ep[fds[p][f]]]]

OF == INSTANCE OpenFiles WITH
        Last <- MaxFd, Name <- Path, Nothing <- NoPath, Capacity <- PipeCapacity,
        live <- tasks, refers <- Refers, bytes <- buf, exhausted <- limit_reached

\* Slots shared by copies, the scan that frees them and the pipe server's counters
\* implement OpenFiles: no close, exit or exec of one process changes what a
\* descriptor of another refers to, and a pipe with its bytes lives exactly as long
\* as a descriptor for it.
ImplementsOpenFiles == OF!Spec
=============================================================================
