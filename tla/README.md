# APE in TLA+

APE is the Linux personality server of the Glenda microkernel. Linux programs run
as native threads; every system call and fault becomes an IPC message to one
server, which keeps the processes, signals, descriptors and address spaces and
answers each message through the caller's reply capability. This directory models
the server in TLA+, checks the models with TLC and proves most of their safety properties
with TLAPS.

Paths below are relative to `src/src/`.

## Inventory

| Component | State | Operations | Interacts with | Hard behaviour |
|---|---|---|---|---|
| Task table, lifecycle (`ape/state.rs`, `ape/task.rs`, `ape/mod.rs`, `task/lifecycle.rs`) | `tasks`, `child_events`, `pending_wait_replies`, `next_pid` | fork/clone, exit, `terminate_process`, wait4 | signals (SIGCHLD), reply slots, files and memory (copied at fork, closed at exit) | a wait4 is answered by another process's exit; fork fails half way; groups change under a waiter |
| Signals (`ape/signal.rs`, `system/signal.rs`) | pending and blocked sets, dispositions, saved sigsuspend mask, `wait4_blocked` | sigaction, sigprocmask, sigsuspend, sigtimedwait, sigreturn, delivery on syscall return | kill, exit, nanosleep | a signal must wake a sleeper at the moment it becomes deliverable |
| Job control (`task/job.rs`) | group, session, `stopped` | setsid, setpgid, getsid, kill | child events, signals | loops over targets that include the caller and its parent |
| Async runtime (`ape/async_runtime.rs`, `system/time.rs`) | executor queue, channel, notification, `pending_sleep_replies` | nanosleep, worker, drain | dispatcher thread, reply slots | two threads; late completions; bounded queues |
| Dispatcher (`ape/server.rs`) | fixed reply slot, `active_caller_pid`, `running` | receive, handle, reply, defer | all | who is answered, and once |
| Fault and syscall return path (`ape/fault.rs`) | – | handle_syscall, fatal faults, page faults | signals, memory | a handler that fails is logged and not answered |
| Reboot (`system/reboot.rs`) | – | RESTART, POWER_OFF, HALT | terminates everyone, execs init | the caller is terminated by its own call |
| Files (`fs/fd.rs`, `ape/files.rs`, `ape/fs.rs`) | `fds`, `fd_paths`, `fd_cloexec`, `next_fd`; async region pool | openat, close, fcntl, dup, dup3, pipe2 | fork, exec, exit; file servers | one endpoint slot shared by copies in several tables |
| Data path (`io/file.rs`) | a handle's offset | read, readv, write, writev, lseek | files, user copies, terminal | chunks, short transfers, a failure between the transfer and the copy |
| User copies (`ape/user.rs`, `ape/policy/lru.rs`) | a pool of scratch mappings per session | copy in, copy out, release | every call with a pointer | more pages than slots; an unmapping that fails |
| Pipe server (`vfs/pipe.rs`, `vfs/server.rs`) | pipe registry, reader and writer counts, buffers | create, open, read, write, close | files | counts slots, not descriptors |
| Terminal (`drivers/tty.rs`, `ape/tty/`, `vfs/devtmpfs.rs`) | termios, line and readable buffers, escape parser | read, write, TCSETS, poll | data path, ppoll, host terminal | bytes in chunks of any size, a mode changed in between, output that answers itself |
| tmpfs and the other devices (`vfs/`) | none | – | files | – |
| Memory (`mm/mod.rs`, `ape/mm.rs`, `ape/fault.rs`, `ape/policy/`) | mappings, lazy mappings, frame reference counts | mmap, munmap, brk, faults, copy on write | fork, exec, exit, files | reference counts and page tables of two processes must agree |
| Exec (`task/exec.rs`, `elf.rs`) | – | execve, script interpreters | memory, files | fails after the old image is gone, at any of several allocations |
| poll (`system/poll.rs`) | saved signal mask, deadline | ppoll | terminal, signals | waits inside the dispatcher; five ways to end |
| Metadata, queries, trace, bootstrap, configuration | little or none | – | – | – |

What makes each part correct, and the property that says so:

* every blocked caller is answered exactly once, through its own capability, and
  slots are neither leaked nor freed twice: `RepliesOwed`, which is `NoStrandedCaller`
  and `ReplySlotOwnership`;
* an exit is reported once, to the parent, and no waiter sleeps on a reportable
  exit or without a living child: `ImplementsChildWait`, `ExitQueueSound`
  (`ExitsConserved` and `ExitIsLast`), `WaitersSound` (`WaiterHasNoReadyExit`,
  `WaiterHasLivingChild`, `WaitArmedIffQueued`);
* a signal is not lost on a process that waits for one and is not stopped:
  `NoDeliverableWhileBlocked`;
* a sleep ends for a reason of its own, and ends: `SleepEndsForCause`,
  `SleepJobInFlight`, `CompletionNotified`, `SleepersWake`;
* shared handles live as long as their last descriptor and no longer:
  `NoDanglingSlot`, `SlotsConserved`, `PipeEndsMatch`, `RegionsConserved`;
* descriptor numbers, paths and marks follow the handles: `NextFdFresh`,
  `CloexecIsOpen`, `PathMatchesFile`;
* a frame lives as long as an address space names it and no longer: `FramesSound`
  (`NoDanglingFrame`, `RefsExact`, `FramesConserved`);
* tables, page tables and stack size tell the same story: `MapsDisjoint`,
  `PteMatchesMap`, `StackContiguous`;
* after fork neither process sees the other's stores: `CowSound` (`SharedIsCow`,
  `NoSharedWrite`);
* a transfer moves the bytes it says it moved, between the right places, and moves
  the offset by as much: `TransferExact`, `OffsetMatchesCount`;
* a copy goes through a mapping of the page it means, and no mapping is left behind:
  `PoolSound`, `ScratchReleased`;
* what is typed is read in order, edited as the mode of the moment says:
  `InputFaithful`; what poll promised, read finds: `PollThenRead`; a temporary mask
  ends with its call: `MaskRestored`;
* the host terminal is not asked what the server means to answer: `HostSeesNoQuery`,
  which the code does not keep (run `dsr`).

`PROJECT.json` lists the hazards line by line, with the properties that would
catch each.

## Modules

| Module | Role |
|---|---|
| `ChildEvents` | the queue of child state changes: matching, oldest match, removal |
| `ChildWait` | abstract specification: births, exits and reports of exits |
| `OpenFiles` | abstract specification: what a descriptor refers to, what a pipe keeps |
| `ApeProcess` | tasks, wait4, signals, job control, nanosleep, reboot, the dispatcher |
| `ApeFiles` | descriptor tables, endpoint slots, pipe registry, async regions |
| `ApeMemory` | address spaces, frames and their counts, faults, copy on write, exec |
| `ApeTty` | line discipline, output filter and parser, terminal driver, ppoll |
| `ApeIo` | offsets, file and pipe contents, copies through the scratch-mapping pool |
| `MCApeProcess`, `MCApeFiles`, `MCApeMemory`, `MCApeTty`, `MCApeIo` | argument sets and symmetry for the configurations |
| `ApeProcessProofs`, `ApeProcessReplyProofs`, `ApeProcessSleepProofs`, `ApeProcessWaitProofs` | lemmas, theorems and proofs about `ApeProcess` |
| `ApeFilesProofs`, `ApeMemoryProofs`, `ApeTtyProofs`, `ApeIoProofs` | the same about `ApeFiles`, `ApeMemory`, `ApeTty` and `ApeIo` |

`ApeProcess` EXTENDS `ChildEvents` and instantiates `ChildWait` through a refinement
mapping, as `ApeFiles` does `OpenFiles`. Operators whose comment begins with "Mutant of" are plausible wrong
versions of their namesakes; `PROJECT.json` pairs each with the property that must
fail under it.

### ApeProcess

The dispatcher handles one message at a time with the manager locked, and
`APE_DISPATCHER_COUNT` is 1 (`layout.rs:45`), so a handler is one action. Three kinds
of handler take several steps, during which user threads and the async worker move:
the target loops of kill and reboot, the completion drain, and the signal check
that precedes a reply. `phase` makes the next of these the dispatcher's only step.

| Model | Code |
|---|---|
| `tasks`, `parent_pid`, `process_group_id`, `session_id`, `stopped` | `TaskStruct` in `ApeTaskState.tasks` |
| `child_events` | `ApeTaskState.child_events` |
| `wait_slot`, `wait_req` / `sleep_slot`, `sleep_req` | `pending_wait_replies` / `pending_sleep_replies` |
| `signal_pending`, `signal_blocked`, `sigaction`, `in_sigsuspend`, `saved_mask` | `SignalStruct` |
| `executor`, `worker`, `channel`, `notified` | executor queue, its worker thread, channel, notification |
| `free_slots`, `cap`, `reply_cap`, `ipc`, `suspended` | external: capability slots, kernel IPC and thread state |
| `phase`, `caller`, `kill_sig`, `todo` | where the dispatcher is in its handler |
| `reported`, `refused` | history only |

`Sys*` are the handlers; `Kill*`, `Reboot*`, `Drain*` and `Return*` their continuations;
`Worker*` the async thread; `Call` a thread that traps. `terminate_process` is a
single operator used by exit, fatal faults, SIGKILL, default-fatal signals and reboot.

Abstractions:

* wait statuses, return values and user memory are left out, since no decision
  reads them; a call that only returns, an error return included, is `OtherSyscall`;
* a message's contents are chosen when it is received, not when the thread traps;
* allocating a slot may fail at any time; replying on a held capability, suspending
  and resuming a thread succeed; killing a thread cancels its message. So the
  drain's `?` after a failed reply is not modelled;
* spawning on the executor fails when its queue is full; the code ignores that
  result, and so does the action (`refused` remembers it for the properties);
* `rt_sigtimedwait` polls with the manager locked, so no signal can arrive: it takes
  a pending signal or ends in EAGAIN after its (fallback) timeout;
* lifecycle snapshots are written and never read, and are left out;
* the death of init is a panic of the server (`phase = "halted"`).

### ApeFiles

A call holds the manager lock and its requests to file servers are synchronous:
one call, one action. A closed descriptor is `NoSlot`; `ep` says what file an endpoint
slot stands for.

| Model | Code |
|---|---|
| `fds`, `region`, `fd_paths`, `fd_cloexec`, `next_fd` | `FilesState`; `region` is `async_io.region_id` of the handle |
| `free_slots` | the capability space manager |
| `pipes`, `readers`, `writers`, `buf` | `PipeRegistry`, `PipeState` |
| `async_free`, `region_count`, `iouring_off` | `ApeFsState` |
| `limit_reached` | history: a table reached descriptor number `MaxFd` (u32::MAX) |

Abstractions:

* offsets and contents are in `ApeIo`, the resource ledger is left out, buffers are
  lengths, and the order in which regions are recycled is left open;
* exec and exit close several descriptors in a loop; one step closing them all gives
  the same state, because a slot is released when the last of them goes;
* `next_fd + 1` in open wraps, as in the release build (a debug build would panic);
* an open that fails changes nothing; init's exit stops the server and is not here;
* a fork that fails before the tables are copied leaves a child without files.

`OpenFiles` is what a process relies on, with no slots, counters or scans: a descriptor refers
to a file from the call of its process that made it until a call of its process closes or
replaces it; a pipe keeps its bytes as long as some process has a descriptor for one of its
ends, and is empty after; it is written only while somebody has a descriptor to read it
from. The mapping (`Refers`) takes a descriptor to what the endpoint behind its slot stands
for. Once the last number was taken (`limit_reached`), `OpenFiles` too allows an open to replace a
descriptor, and a pipe to outlive its descriptors.

### ApeMemory

Calls and faults run with the manager locked, so each is one action; but each may
stop at any of its allocations and mappings, and what it has done by then stays.
An action takes a record of the process's tables and the shared frame state (`Mem`),
computes the set of records the code can end with, and stores one.

| Model | Code |
|---|---|
| `memory_maps`, `lazy_memory_maps`, `heap_brk`, `mmap_next`, `stack_size` | `MmState` |
| `frame_cap_refs` | `ApeTaskState.frame_cap_refs` |
| `pte` | external: the page table, frame and permissions per page |
| `used` | external: frames allocated from the resource service |
| `running` | processes whose thread runs: not the child of a failed fork, nor a thread whose fault got no answer |
| `lost`, `lifted`, `failures` | history: frames forgotten, frames made writable behind copy on write, failed steps |

Abstractions:

* addresses are page numbers and brk is the page it rounds up to; contents, page-table
  levels and physical addresses are left out;
* unmapping a range of a process's page table always works; any allocation or mapping
  may fail, `MaxFailures` times in a behaviour;
* which free frame an allocation gets is a parameter (`Candidates`): any of them, or
  the lowest, where telling them apart would multiply the states and no property
  depends on it;
* the executable is a constant, and `heap_start` with it, which may lie beyond `mmap_base`:
  exec takes it from the end of the executable and does not compare it with `heap_limit`
  (`task/exec.rs:475`), and brk then moves nothing;
* a mapping of a file at an offset so large that the offset of one of its pages overflows
  stops there (`mm/mod.rs:542`, `:601`) and keeps the pages before it; offsets are not here;
* a lazy file mapping keeps its descriptor number and offset in the code and reads the
  file at the fault; whether that works, and how many pages it brings in, is a choice;
* a failed fault is not answered and its thread stays blocked; a fatal one terminates
  the process as exit does; init's exit stops the server and is not here.

### ApeTty

The dispatcher waits for the terminal with the manager locked: one call at a time,
with the keyboard as the only other actor. `phase` names the call; a read, a write and a
ppoll take one step per chunk, per read from the host or per scan.

| Model | Code |
|---|---|
| `termios`, `canonical_line_buf`, `readable_buf`, `last_was_cr` | `TtyCompatState` (`ape/tty/`) |
| `in_csi` | external: the vte parser is inside a control sequence |
| `host_in`, `host_csi` | external: bytes typed on the host and not read; the last byte it was sent |
| `want`, `out` | what is left of the buffers in `do_read`, `do_readv`, `do_write`, `do_writev` |
| `signal_blocked`, `old_mask`, `events`, `left` | the caller's mask and the locals of `do_ppoll` |
| `fed`, `taken`, `promised`, `asked` | history: bytes given to the line discipline with the mode of the moment, bytes read (replies of the parser among them), ppoll's promise, a query sent to the host |

`feed_byte` is one turn of the loop of `feed_input` and `canonical_input` its branch for ICANON;
`tty_output_transform`, `strip_dsr_queries` and `process_output` are the functions of the same name.
`InputFaithful` says what `feed_input` should make of the keys, without buffers: every key belongs
to a class (`Erases`, `Kills`, `Ends`, `Chars`, `Raw`), and the classes of the keys say which
characters are left (`Kept`), which of them wait for the end of their line (`Held`) and when
each of the others could be read (`Release`).

Abstractions:

* a byte is a name; an escape sequence is two of them (`csi` and what follows). `c`
  stands for every request the parser answers (device attributes, window size);
* the host takes a write whole or not at all, and hands typed bytes over in pieces of
  any size up to `HostChunk`; any read, write or copy may fail;
* window size, foreground group and cursor are stored and read by no decision;
* ppoll looks at the terminal and at closed descriptors; a pipe's or file's answer to
  poll is decided outside the repository.

### ApeIo

One process, one call at a time; a call takes several steps because it may fail
between any two of them. A page holds one byte, so an address is a page and a copy of
n bytes visits n pages, as a copy over n pages does in the code.

| Model | Code |
|---|---|
| `fds` | `FilesState.fds`: file and `offset` of each handle |
| `content`, `mem`, `scratch` | external: the regular file, the frames, the server's own mappings |
| `buf` | `PipeState.buf` |
| `entries`, `occupied`, `order` | `SharedPagePool` and `LruPolicy` |
| `phase`, `call`, `kbuf`, `todo`, `ok` | where the handler is, its buffers, the session's pages |
| `began`, `uses`, `unmap_failed` | history: what the call found, slots in order of use, failed unmappings |

Abstractions: the caller's mappings do not change during a run. The calls here change them
in one way only, the stack growth of `lookup_map` (`ape/user.rs:207`), which is `UserCopy` of
`ApeMemory`; here a page of the stack is mapped or it is not. A regular file is external and takes a write as far as `MaxSize`; a failed
copy of an iovec is `RwFails`; execve stands for the calls that read several strings in
one session.

What the models record of the code at its edges, which the properties step around:

* at descriptor number u32::MAX, open overwrites a handle without closing it and pipe2
  keeps both ends open without a number: `SlotsConserved`, `NextFdFresh` and the second
  half of `RegionsConserved` are claimed until `limit_reached`;
* a pipe whose read end does not open stays in the registry, empty;
* after fork two handles name the same async region, which the first close recycles;
  `RegionsConserved` says that none is lost, not that one has a single holder, and no
  property does;
* a stop or continue does not wake a parent in wait4 with WUNTRACED or WCONTINUED;
  `WaiterHasNoReadyExit` is about exits only;
* stopping oneself records the stop in kill and again when the signal is consumed at the
  return of the same call;
* orphans are not reparented: their exits stay queued for a dead parent;
* a fault handler that fails leaves its thread blocked (`FaultUnanswered`);
* mprotect, mremap and the exchange of write for execute map a shared frame writable
  whatever its copy-on-write mark says: `SharedIsCow` and `NoSharedWrite` exempt these
  frames (`lifted`). So does splitting a marked mapping of several pages: the new frames
  are mapped with the entry's flags and the entries keep the mark (`mm/mod.rs:192`), which
  the next fork takes to mean that they are write-protected already
  (`task/lifecycle.rs:354`), so that parent and child share a writable page; and a split
  that fails maps the shared frame back with the flags (`mm/mod.rs:171`). The first
  attempt at a proof of `CowSound` showed it, and the model now records it. copy_to_user writes to shared frames without a fault; contents are
  not modelled, so no property sees it. A read fault on a copy-on-write entry stores
  the reduced permissions in the entry, and the next store is a SIGSEGV;
* a store to a copy-on-write entry of several pages, and thread-local storage is one in
  every process, copies and remaps its first page only (`ape/fault.rs:515`). The entry
  then names the copy, while its other pages still map the frame that was released, and
  go on doing so when that frame is free and given to somebody else. `PteMatchesMap` says
  which pages these are and no more: never the first page of an entry, never a page of
  an entry that is marked, and never a writable page;
* exec maps an executable wherever its program headers say (`task/exec.rs:317`). With a page
  in the stack's area or in thread-local storage, two entries claim that page or one
  replaces the other without releasing its frame. `ImageClear` says that there is no such
  page; the theorems about `ApeMemory` have it as their hypothesis;
* fork that fails half way, exec that fails after loading, a failed fault and a moving
  mremap that shrinks forget frames they allocated or retained (`lost`);
  `FramesConserved` and `RefsExact` are about the others;
* the end-of-file key on an empty line does not end a read; there are no signals from
  keys (ISIG and VINTR are not looked at); switching to raw mode keeps the unfinished
  line in its buffer, and TCSETSF flushes nothing;
* a read or readv that has filled a chunk or a buffer asks the terminal again, and waits
  although it has something to return;
* a ppoll that a signal ends puts the old mask back before the signal is delivered, so
  the signal stays blocked; a ppoll without timeout waits inside the dispatcher;
* echoed bytes go through the output parser as output does;
* when the copy of a chunk fails, the bytes taken from a pipe or the terminal are gone;
  an error in a later buffer of readv or writev hides the bytes of the earlier ones;
* dup and fork copy the offset, so that two descriptors of one open file move apart;
  lseek works on a pipe;
* `release_all` stops at the first unmapping that fails and leaves the later ones mapped;
  `ScratchReleased` does not forbid this leak: it bounds it by one pool for each failure,
  and shows that without a failure there is none.

One disagreement between the code and its own comment is a run of its own. The comment
at `drivers/tty.rs:200` says why status queries must not reach the host terminal;
`strip_dsr_queries` looks for them inside one device write, so a query that is cut, by the
program or by the 4096-byte chunks of write, is forwarded in two halves. Run `dsr` finds it.

## Runs

Deadlock checking is off in every run: bounds on pids, requests and pipes let the
instances stop, and in the code the server stops when init dies or on POWER_OFF.

| Run | Instance | Shows |
|---|---|---|
| `wait` | 4 processes, 3 slots, targets -1, 0 and a pid, SIGKILL, setpgid, setsid, reboot | `TypeOK`, `RepliesOwed`, `WaitersSound`, `ImplementsChildWait` |
| `jobs` | 3 processes, all fork outcomes, SIGKILL, SIGSTOP, SIGCONT, waits with WUNTRACED and WCONTINUED, faults, power off | `ExitQueueSound` |
| `signals` | 2 processes, a caught signal, SIGTSTP and SIGCONT, all of them blocked or none; sigsuspend, sigtimedwait, sigreturn | `NoDeliverableWhileBlocked` |
| `sleep` | 2 processes, 3 requests, executor and channel of capacity 1, SIGKILL, an ignored and a caught signal | `RepliesOwed`, `NoDeliverableWhileBlocked`, `SleepJobInFlight`, `CompletionNotified`, `SleepEndsForCause` |
| `wake` | the same threads under `FairSpec`, no symmetry | `SleepersWake` |
| `files` | 2 processes, 3 numbers, 2 slots, 1 pipe of capacity 1, 1 async region | `TypeOK`, `NoDanglingSlot`, `PipeEndsMatch`, `PathMatchesFile`, `CloexecIsOpen`, `SlotsConserved`, `NextFdFresh`, `RegionsConserved` |
| `cow` | 2 processes, 5 frames, fork, faults, mprotect, munmap, mremap of shared mappings, 1 failure | `FramesSound`, `CowSound`, `PteMatchesMap` |
| `share` | 3 processes, 6 frames, an image page that is only read, fork, faults, exec, no injected failure | `FramesSound`, `CowSound`, `StackContiguous` |
| `mmap` | 1 process, 6 frames, mmap, munmap, mremap, brk, faults, exec, user copies, 1 failure | `TypeOK`, `MapsDisjoint`, `FramesSound`, `PteMatchesMap`, `StackContiguous` |
| `tty` | 3 keys, 2 typed ahead, host pieces and chunks of 2, a readv of 1 and 3, 2 changes between default mode, raw mode and one that erases on newline, 1 write that is answered, ppoll with and without timeout | `TypeOK`, `InputFaithful`, `PollThenRead`, `MaskRestored` |
| `dsr` | queries whole, cut between two writes, and cut by a chunk | `HostSeesNoQuery` is violated |
| `io` | 5 pages, the last read-only, 2 scratch slots, chunks of 3, a file of at most 5, a pipe of 3, 4 calls, 1 failure | `TypeOK`, `TransferExact`, `OffsetMatchesCount`, `PoolSound`, `ScratchReleased` |

Why the bounds suffice: four processes give a waiter with two children, one of which
can leave the waited group, and a bystander that kills; three give a parent and
child under a third. Three sleep requests give a running one, a queued one and one
refused, and also an interrupted sleep, its successor and the late completion
between them. Two tables and two slots are what a shared handle needs; the largest
descriptor number is small so that the runs reach it. `MaxEvents` keeps kill from
adding stop and continue events while a queue holds one; exits always get through.
Slots are interchangeable, so the safety runs use their permutations as symmetry;
so are frames in `cow` and `share`, where an allocation may get any free one. `mmap` numbers
them and takes the lowest.

The address space has one image page, one heap page, two mmap pages, two stack pages
and thread-local storage: each region can be empty, partly used and full, and two
pages are what a partial unmapping, a half-done growth and an overlap need. In `cow` the
storage is one entry of two pages, as in the code, which splitting and multi-page copy on
write need, and the stack has one page; `share` and `mmap` grow the stack. An image, its
stack and its storage take three frames: in `cow` five leave two for copies, with exhaustion
in reach, and in `mmap` six leave three for mappings, heap and stack. In `share` six let a
process exec while two others share all of its frames, so that a count of three
goes down by store, exec and exit; an exec that fails for want of frames while others have
copied theirs is in the proof of `FramesAreSound` only. Its image page is read and never
exchanges write for execute, which `cow` does.

Three keys give two characters and an erase or kill, a character, a line's end and an
erase that must not reach back over it, or a carriage return, the newline that belongs to
it and one more, cut by host pieces of two anywhere; two changes of mode leave the
canonical mode with a line unfinished and come back to it. The raw mode asks for two
bytes at once, and in the third mode the newline erases; longer histories and other
modes are left to the theorem. A readv of
one and three with chunks of two has a full buffer, a full chunk and a short one. In
`io` a buffer of four is longer than a chunk and than the pool, one runs into the
read-only page in its second buffer, one into no page at all; three bytes of file and
of pipe give short transfers, and four calls give write, lseek or dup, and reads that
see the result.

Fairness (`FairSpec`): the dispatcher finishes a handler it has begun and the worker
thread keeps running (weak fairness); the kernel endpoint serves messages in turn,
so a notification that is pending again and again is received although calls keep
arriving (strong fairness of `DrainStart`). No fairness is asked of user threads.
`SleepersWake` speaks of a server whose other handlers return; a ppoll without
timeout, which waits inside the dispatcher, is in `ApeTty` and not in `ApeProcess`. Nothing
is claimed live in `ApeTty`: a read or a ppoll ends when somebody types.

## Proofs

Each theorem holds for every number of processes, slots, descriptors, signals, requests,
pages, calls and failures. It is proved from an inductive invariant that TLC checked
first, on the instance of the run beside it, with one lemma per action (or per family
of actions with the same effect) and one for each operator that several actions share
(`terminate_process`, releasing a slot, a frame or a pool, `Advance`, every step of a
memory call).

| Module | Theorem | Says | Inductive invariant |
|---|---|---|---|
| `ApeProcessProofs` | `TypeCorrect` | `[]TypeOK` | `TypeOK` itself |
| `ApeProcessReplyProofs` | `EveryCallerOwed` | `[]RepliesOwed` | `RInv` |
| `ApeProcessSleepProofs` | `NoCompletionForgotten`, `SleepKeepsTimer` | `[]CompletionNotified`, `[]SleepJobInFlight` | themselves, with the worker's states |
| | `SleepCause` | `SleepEndsForCause`, an action property | `TypeOK` |
| | `NoSignalLost` | `[]NoDeliverableWhileBlocked` | `NInv` |
| `ApeProcessWaitProofs` | `NoExitLost` | `[]ExitQueueSound` | `XInv` |
| | `NobodyWaitsInVain` | `[]WaitersSound` | `WaitersSound` with `XInv` |
| | `WaitRefinesChildWait` | `ImplementsChildWait` | `WaitersSound`, `XInv`, `RInv` |
| `ApeFilesProofs` | `NoDangling`, `NextFdAbove`, `CloexecOpen` | `[]NoDanglingSlot`, `[]NextFdFresh`, `[]CloexecIsOpen` | `FInv` |
| | `PipeEndsCounted` | `[]PipeEndsMatch` | `PInv` with `FInv` |
| | `FilesTypeOK`, `NoSlotLeaks`, `PathsRight`, `NoRegionLeaks` | `[]TypeOK`, `[]SlotsConserved`, `[]PathMatchesFile`, `[]RegionsConserved` | `TInv` with `FInv`, `PInv` |
| | `FilesRefineOpenFiles` | `ImplementsOpenFiles` | `OInv` with `FInv`, `PInv`, `TInv` |
| `ApeMemoryProofs` | `MemoryTypeOK`, `MapsAreDisjoint`, `StackIsContiguous` | `ImageClear => (Spec => []P)` for P = `TypeOK`, `MapsDisjoint`, `StackContiguous` | `MInv` (`MemoryInvariant`) |
| | `FramesAreSound`, `PteIsOwned`, `CowIsSound` | the same for `FramesSound`, `PteMatchesMap`, `CowSound` | `MInv` |
| `ApeTtyProofs` | `TtyTypeOK`, `PollThenReads`, `MaskComesBack` | `[]TypeOK`, `[]PollThenRead`, `[]MaskRestored` | `TtyInv` |
| | `InputIsFaithful` | `[]InputFaithful` | `FaithInv` with `TtyInv` |
| `ApeIoProofs` | `IoTypeOK`, `PoolIsSound`, `OffsetCounted`, `ScratchIsReleased` | `[]TypeOK`, `[]PoolSound`, `[]OffsetMatchesCount`, `[]ScratchReleased` | `IInv` |
| | `TransferIsExact` | `DistinctBuffers => (Spec => []TransferExact)` | `TInv` of `ApeIoProofs` with `IInv` |

`ApeProcessProofs` begins with the four lemmas on the event queue they rest on: the oldest match
is unique and is what `OldestMatch` returns, and removal keeps the type and the other
events in order.

Why the invariants are what they are:

* `TypeOK` of `ApeProcess` is inductive because it also says that a loop's remaining
  targets are live (`todo \subseteq tasks`), that a live process has a group (the request
  wait4 records has a pid in `pgid`), that a busy worker has a real job, and that the
  kill loop has a signal.
* `RInv` adds to `RepliesOwed` that a process has a thread exactly while it is in `tasks`,
  that registered pids have been given out, and that the fixed reply capability is empty
  while the dispatcher receives or drains, the caller's inside the kill loop, and
  empty or the caller's before reboot and the return. Without the last, a deferral could
  move somebody else's capability into the caller's slot.
* `NInv` adds that a thread suspended by sigsuspend has no call queued, so that no call of
  its own can change its mask under it, and that only live processes are in sigsuspend.
  The proof showed why the property is about processes that are not stopped: SIGCONT
  resumes a thread out of sigsuspend without ending the sigsuspend, that thread may call
  again, and a call queued before a second stop may unblock a pending signal. The
  property was restated and the masks of run `signals` chosen so that TLC meets the case.
* `XInv` adds that a pid not given out yet has no parent and no reported exit, that a
  reported process is dead, and that a parent is older than its child, so that no queue
  an exit is added to is the queue of the process that dies in the step.
* The refinement maps every step of `ApeProcess` to a birth, an exit, a report, a
  sleep or a stutter; a death in `terminate_process` that answers the sleeping parent at once
  is one `Exit` of `ChildWait`, which also reports and wakes.
* `FInv` adds the types of the tables and `OnlyLive` (a process that is gone has an empty
  table): close scans the tables of live tasks only, and a table left behind by a dead
  process could name the slot it frees. `NextFdFresh` follows from saturation: dup, dup3
  and pipe2 move `next_fd` past the number they take unless that number is the last.
* `PInv` adds that at most one allocated slot holds a given end of a pipe, that a free slot
  stands for nothing and that no slot stands for a pipe still to come; the counts are then
  0 or 1 per end, and a close that takes the last slot is the one that takes the count.
* `TInv` of `ApeFilesProofs` adds that live pids have been given out, that a closed number keeps no
  region, and that free regions are ones the pool has made. With `NextFdFresh` an open never
  replaces a descriptor, so the region and the slot under its number cannot be lost.
* The refinement of `OpenFiles` rests on one fact, that a slot which is named before and after
  a step stands for the same file (`EpKept`, `Follows`): a close frees only slots nobody names, and
  an open takes only free ones. `OInv` adds that an allocated slot stands for something and that a
  pipe without ends is empty; with `PInv` (an end is counted while a slot holds it) and
  `SlotsConserved` (a slot is held while a descriptor names it) the counters then drop a pipe
  exactly with its last descriptor (`UseNow`, `UseNext`, `Drops`). No run checks the
  refinement, which on the instance of `files` takes TLC several times as long as its
  invariants; it holds there, and on that instance without async regions within a minute.
* `MInv` is a conjunction over processes of what holds of one process's tables (`SpaceOK`)
  in its context (`ContextIn`: how many other processes hold each frame). `FrameOK` is
  exact where the properties are not: a frame with one holder has count 0 or 1, one with
  several has their number, and a frame forgotten by a failed step (`lost`) that somebody
  still holds has a count above its holders, so that releasing it never frees it under
  one of them. `CowOK` says that a writable page of an entry is of the entry's own frame
  and allowed by the entry or lifted, that an unmarked writable entry shares its frame
  with nobody, and that a page outside the entries is writable only through a frame that
  is lost and held by nobody (what a failed set-up leaves). `Uniform` says that the pages
  of a marked entry are writable together or not at all: a store that copies a mapping of
  several pages remaps the first page only, and what is left must not be writable. `PteOK`
  says that the first page of an entry and every page of a marked one map its frame; that
  its writable pages do is in `CowOK`, and both make `PteMatchesMap`.
  It is claimed of running processes only, since a failed fault may break it and its thread
  never runs again.
* The proof of `MInv` follows the shape of the model. A call works on a record in several
  steps, and `Sound(w, c)` says of the record w between two steps, in the context c of the
  call's beginning, what `MInv` says of the process at rest; there is one lemma per
  operator (`SplitEntries`, `RemoveRange`, `MmapAt`, `Protect`, `Move`, `GrowStack`,
  `resolve_cow_fault`, `load_elf_into_process`, ...), success and every failure. `UpdateSpaces`
  then shows once that storing a sound record keeps the tables of the other processes
  sound: their counts change only by what this process holds. Fork, the one action that
  changes two processes, is split into the parent's marking (`ParentSound`) and the child's
  sharing (`ShareSpaces`), and a failed fork ends by losing what was retained
  (`LoseSpaces`). `FramesSound`, `PteMatchesMap` and `CowSound` could not be proved apart: a
  release is safe because the count is exact, and the count is exact because a frame is
  in one entry of a process at most. All of them need `MapsDisjoint`, and with it the
  hypothesis `ImageClear`: loading the image is the only step that puts pages where
  nobody has looked for room. Where the executable ends does not matter: a heap that
  begins beyond `heap_limit` stays empty, and a fault below the break that is not where
  the stack grows is not in the stack's area, because the pages above are mapped.
* `IInv` relates the phase of a call to its buffers and to how much of the chunk the kernel
  buffer holds (`CallShape`); says that the slots with entries are the occupied ones, with
  mappings of their own frames (`Mapping`); that the LRU order lists each occupied slot
  once, and that a slot later in it has a use after every use of an earlier one
  (`Recency`, which makes the first of the order the one whose last use is the oldest);
  and that the mappings no slot names are at most `Slots` per failed unmapping
  (`StrayBound`): one from a slot whose unmapping failed, or what `release_all` left.
* `TInv` of `ApeIoProofs` adds where the bytes are. `TransferExact` speaks of the turns between
  chunks, so the invariant follows a chunk through its phases: the buffers still to be
  served are exactly those after what was counted (`Remains`); the counted bytes are in
  memory, in the file or in the pipe (`ReadDone`, `WriteDone`); and during a session the
  kernel buffer holds the bytes that come next, of which a read has already copied all
  but the ones in `todo` (`ReadSession`, `WriteSession`). Two writes one at the end of the
  other are one write of both (`OverwrittenTwice`), also past the end of the file.
  `DistinctBuffers` (no two bytes of the buffers of one call in the same place of memory) is
  a hypothesis of the theorem and not an assumption of the module, because nothing in the
  code demands it: a readv into overlapping buffers leaves the later byte there, and
  what it counted first is overwritten. Run `io` evaluates it on its instance.
* `TtyInv` adds to the types of `ApeTty` the type of the history `fed`, that `old_mask` is the
  process's own mask during ppoll (`SInv`), and that no read is under way while ppoll's
  promise of input is outstanding (`PollInv`): a write, a key or another poll then
  only adds to what a read can take.
* `FaithInv` says which key each byte given out and each byte of the line is, and adds what
  makes an erase take the right one. The code pops the line buffer; `InputFaithful` says of
  whole histories that an erase takes back the last character that is left. The two agree
  because, from every character of the line on, characters outnumber erases at all times,
  and in the end by as many as the line has from that character on (`Balanced`): one more
  erase meets equality at the last character and at no other. `CrOK` says that
  `last_was_cr` is whether the last key was a carriage return, whatever the mode. The
  proof goes one key at a time: how one more key changes each class and each count
  (`ClassesStay`, `KeptNext`, `ReleaseNext`), then the line discipline's four ways with a key (a raw
  or ignored one, a character, the end of a line, an erase or kill).
  The attempt corrected the property: as formerly stated, it was wrong in modes where two
  special characters coincide, such as an erase character that is also the newline; the
  order in which `canonical_input` tests them is now part of the classes, and the theorem holds
  for every mode.
* `feed_input`, `process_output` and `Addresses` are folds and flattenings. What they compute on
  a whole chunk or vector is proved from what they do with one byte or buffer: the result
  is the last of the values the fold goes through (`FeedSteps`, `OutputSteps`, `FlattenSteps`),
  and a set of numbers that holds 0 and, with each number, the next holds all of them
  (`UpTo`). `UpTo` takes the set as a parameter, not a predicate, and rests on the least
  counterexample of a well-founded order, so the provers can use it where they cannot
  use the induction theorems of the library.

The assumptions on constants are named beside their declarations and TLC evaluates
them in every run. Two only keep the model's names apart (`NamesAssumption` of `ApeFiles`: a
path is not a pipe's end; `NoEntry` of `ApeIo` is not an entry), and `FdAssumption` says that
there are standard descriptors. `LayoutAssumption` of `ApeMemory` says that the fixed addresses
are in order: `mmap_base` is below `mmap_limit`, and the thread-local storage is outside the
stack's area. They are `HEAP_VA`, `STACK_BASE` and `get_utcb_va(0)` of the glenda library,
which is not in the repository. It says nothing of the executable, which may end beyond
`mmap_base`; `ImageAssumption` is its type, and that its pages are clear of stack and storage
is the hypothesis `ImageClear` of the theorems, which `MCApeMemory` evaluates on the
instances of its runs: no code ensures it.
`ArgumentAssumption` says that a call's range lies in the address space and that an
allocator that has a free frame gives one.

Every invariant and action property of the passing runs is proved. Model-checked only:

* `SleepersWake`: liveness and ENABLED are beyond the prover.

## Not modelled yet, and the plan

In order of importance:

1. A composition of `ApeMemory` with the descriptor tables for file mappings, which
   remember a descriptor number and look it up at the fault (`ape/fault.rs:289`).
2. A caller of `ApeIo` whose pages another process shares: copies to user memory write
   through the frame without resolving copy on write (`ape/user.rs:256`).

Left out for good: tmpfs, whose operations all answer NotSupported; the calls of
`system/fsctx.rs` and `fs/meta.rs`, which forward a path to the file service and keep nothing;
getdents and the ioctls of other devices; null, zero, full and random; the trace formatter,
constant tables, architecture and network stubs, configuration parsing and start-up
I/O, and pure queries.
