------------------------------- MODULE ApeIo -------------------------------
(***************************************************************************)
(* The data path of the APE server: read, readv, write, writev and lseek   *)
(* in chunks through a handle's offset, the bytes of files and pipes, and  *)
(* the copies to and from user memory, each a session with its own pool of *)
(* scratch mappings replaced in LRU order.                                 *)
(*                                                                         *)
(* The dispatcher makes one call at a time with the manager locked.  A call*)
(* takes several steps here because it can fail between any two of them.   *)
(* A page holds one byte, so that an address is a page.                    *)
(***************************************************************************)
EXTENDS Integers, Sequences, FiniteSets, SequencesExt

CONSTANTS
  Fd,             \* descriptors
  UserMap,        \* the caller's entries: address -> [frame, flags]
  Frame, Byte,
  Zero,           \* the byte a gap in a file reads as
  InitMem,        \* what the frames hold at first
  InitFds,        \* the handles at first
  InitContent,    \* what the regular file holds at first
  Closed,         \* a descriptor that is not open
  MaxSize,        \* bound: length of the regular file
  PipeCapacity,   \* PIPE_DEFAULT_CAPACITY
  RwChunk,        \* FS_SYNC_RW_CHUNK
  Slots,          \* USER_SHARED_PAGE_POOL_SLOTS
  NoEntry,        \* an empty slot of the pool
  Vectors,        \* buffers of the calls: sequences of [base, len]
  ExecInputs,     \* the addresses execve's arguments are read from, in order
  Deltas,         \* offsets given to lseek
  MaxCalls,       \* bound: calls in a behaviour
  MaxFailures     \* bound: failures of the host, the kernel or a server

Slot == 1..Slots
Handle == [file : {"reg", "rd", "wr"}, offset : Nat]

ASSUME BoundAssumption ==
  /\ MaxSize \in Nat /\ PipeCapacity \in Nat /\ RwChunk \in Nat \ {0} /\ Slots \in Nat \ {0}
  /\ MaxCalls \in Nat /\ MaxFailures \in Nat /\ Deltas \subseteq Int
ASSUME MemoryAssumption ==
  /\ DOMAIN UserMap \subseteq Nat \ {0}
  /\ \A a \in DOMAIN UserMap : UserMap[a].frame \in Frame /\ UserMap[a].flags \subseteq {"r", "w"}
  /\ Zero \in Byte /\ InitMem \in [Frame -> Byte]
  /\ InitContent \in Seq(Byte) /\ Len(InitContent) <= MaxSize
  /\ InitFds \in [Fd -> Handle \cup {Closed}] /\ Closed \notin Handle
  /\ \A v \in Vectors : v \in Seq([base : Nat \ {0}, len : Nat \ {0}]) /\ v # <<>>
  /\ \A v \in ExecInputs : v \in Seq(Nat \ {0}) /\ v # <<>>
  /\ NoEntry \notin [addr : Nat \ {0}, frame : Frame]

VARIABLES
  fds,              \* FilesState.fds
  content,          \* external: the regular file
  buf,              \* PipeState.buf
  mem,              \* user memory, by frame
  scratch,          \* external: the server's scratch mappings, address -> frame
  entries, occupied, order,   \* SharedPagePool and LruPolicy
  phase,            \* "idle", then "rw", "copy", "release", "send", and "return"
  call,             \* the call: [op, fd, iov, total]
  kbuf,             \* the kernel buffer: bytes to copy out or copied in
  todo,             \* user addresses the session has still to visit
  ok,               \* what the session or the call has come to
  began,            \* history: what the call found
  uses,             \* history: slots of the session in the order of their last use
  unmap_failed,     \* history: unmappings that failed
  calls, failures   \* history: for the bounds

pool == <<entries, occupied, order>>
data == <<fds, content, buf>>
session == <<kbuf, todo, ok, uses>>
vars == <<data, mem, scratch, pool, phase, call, session, began, unmap_failed, calls, failures>>

Lesser(a, b) == IF a < b THEN a ELSE b
Pages(base, n) == [k \in 1..n |-> base + k - 1]
NoCall == [op |-> "none", fd |-> 0, iov |-> <<>>, total |-> 0]

(***************************************************************************)
(* The page pool                                                           *)
(***************************************************************************)
NewPool ==
  /\ entries' = [s \in Slot |-> NoEntry] /\ occupied' = [s \in Slot |-> FALSE] /\ order' = <<>>

\* Mutant of find_hit: never a hit.
find_no_hit(frame) == {}

\* find_hit: the slots that hold the frame; the code takes the first.
find_hit(frame) == {s \in Slot : occupied[s] /\ entries[s] # NoEntry /\ entries[s].frame = frame}

\* make_mru: the slot goes to the end of the order, from the first place it has.
make_mru(s) ==
  LET at == {i \in DOMAIN order : order[i] = s}
  IN Append(IF at = {} THEN order ELSE RemoveAt(order, Min(at)), s)

\* victim: the first slot in LRU order that is occupied.
victim == order[Min({i \in DOMAIN order : occupied[order[i]]})]

\* pick_slot: a free slot, else the victim.
pick_slot == IF \E s \in Slot : ~occupied[s] THEN Min({s \in Slot : ~occupied[s]}) ELSE victim

WithoutAddr(addr) == [a \in DOMAIN scratch \ {addr} |-> scratch[a]]
Fails == failures < MaxFailures /\ failures' = failures + 1

\* acquire when the frame has no slot: the slot's old mapping goes, a new one
\* comes.  Either step may fail, and what is done by then stays.
AcquireNew(frame) ==
  LET s == pick_slot
      freed == IF occupied[s] THEN WithoutAddr(entries[s].addr) ELSE scratch
      addr == Min((1..(Cardinality(DOMAIN freed) + 1)) \ DOMAIN freed)
  IN \/ /\ scratch' = [a \in DOMAIN freed \cup {addr} |-> IF a = addr THEN frame ELSE freed[a]]
        /\ entries' = [entries EXCEPT ![s] = [addr |-> addr, frame |-> frame]]
        /\ occupied' = [occupied EXCEPT ![s] = TRUE]
        /\ order' = make_mru(s)
        /\ ok' = TRUE
        /\ UNCHANGED <<failures, unmap_failed>>
     \/ /\ Fails /\ ok' = FALSE                           \* map_scratch
        /\ scratch' = freed
        /\ entries' = [entries EXCEPT ![s] = NoEntry]
        /\ occupied' = [occupied EXCEPT ![s] = FALSE]
        /\ UNCHANGED <<order, unmap_failed>>
     \/ /\ occupied[s] /\ Fails /\ ok' = FALSE            \* unmap_slot
        /\ unmap_failed' = unmap_failed + 1
        /\ entries' = [entries EXCEPT ![s] = NoEntry]
        /\ UNCHANGED <<scratch, occupied, order>>

AcquireHit(s) ==
  /\ order' = make_mru(s)
  /\ ok' = TRUE
  /\ UNCHANGED <<scratch, entries, occupied, failures, unmap_failed>>

acquire(frame) ==
  IF find_hit(frame) # {} THEN AcquireHit(Min(find_hit(frame))) ELSE AcquireNew(frame)

\* The slot that acquire answers with.
Acquired(frame) == IF find_hit(frame) # {} THEN Min(find_hit(frame)) ELSE pick_slot

(***************************************************************************)
(* A session of copies, page by page                                       *)
(***************************************************************************)
Required == IF call.op = "read" THEN {"w"} ELSE {"r"}

OpenSession(addresses, bytes) ==
  /\ NewPool
  /\ phase' = "copy" /\ todo' = addresses /\ kbuf' = bytes /\ ok' = TRUE /\ uses' = <<>>

\* lookup_map finds an entry with the permission.
Mapped(addr) == addr \in DOMAIN UserMap /\ Required \subseteq UserMap[addr].flags

copy_to_user(frame) ==
  /\ mem' = [mem EXCEPT ![frame] = kbuf[Len(kbuf) - Len(todo) + 1]]
  /\ UNCHANGED kbuf

copy_from_user(frame) == kbuf' = Append(kbuf, mem[frame]) /\ UNCHANGED mem

\* acquire, and the copy through the scratch mapping of the slot.
CopyPage ==
  /\ phase = "copy" /\ Mapped(Head(todo))
  /\ acquire(UserMap[Head(todo)].frame)
  /\ IF ok'
     THEN LET slot == Acquired(UserMap[Head(todo)].frame)
              frame == scratch'[entries'[slot].addr]
          IN /\ IF call.op = "read" THEN copy_to_user(frame) ELSE copy_from_user(frame)
             /\ todo' = Tail(todo) /\ uses' = Append(uses, slot)
             /\ phase' = IF todo' = <<>> THEN "release" ELSE "copy"
     ELSE phase' = "release" /\ UNCHANGED <<mem, kbuf, todo, uses>>
  /\ UNCHANGED <<data, call, began, calls>>

CopyRefused ==
  /\ phase = "copy" /\ ~Mapped(Head(todo))
  /\ phase' = "release" /\ ok' = FALSE
  /\ UNCHANGED <<data, mem, scratch, pool, call, kbuf, todo, uses, began, unmap_failed, calls,
                 failures>>

(***************************************************************************)
(* read, readv, write and writev                                           *)
(***************************************************************************)
Chunk == Lesser(Head(call.iov).len, RwChunk)

CallEnds(good) == phase' = "return" /\ ok' = good /\ UNCHANGED <<fds, call>>

\* What is left of the buffers after n bytes of the first.
After(iov, n) ==
  IF n = Head(iov).len THEN Tail(iov)
  ELSE <<[base |-> Head(iov).base + n, len |-> Head(iov).len - n]>> \o Tail(iov)

\* Mutant of Moved: the offset moves by the chunk asked for.
MovedChunk(n) ==
  /\ fds' = [fds EXCEPT ![call.fd].offset = @ + Chunk]
  /\ call' = [call EXCEPT !.total = @ + n, !.iov = After(@, n)]

\* Mutant of Moved: the next chunk starts at the same place in the buffer.
MovedInPlace(n) ==
  /\ fds' = [fds EXCEPT ![call.fd].offset = @ + n]
  /\ call' = [call EXCEPT !.total = @ + n,
                          !.iov = IF n = Head(@).len THEN Tail(@)
                                  ELSE [@ EXCEPT ![1].len = @ - n]]

\* n bytes of the chunk have moved.
Moved(n) ==
  /\ fds' = [fds EXCEPT ![call.fd].offset = @ + n]
  /\ call' = [call EXCEPT !.total = @ + n, !.iov = After(@, n)]

\* A short chunk ends the call; a full one goes on with the buffer, then with
\* the next buffer.
Advance(n) ==
  /\ Moved(n)
  /\ phase' = IF n = Chunk /\ call'.iov # <<>> THEN "rw" ELSE "return"
  /\ ok' = TRUE

\* Mutant of release_all: the last slot is forgotten.
release_all_but_last(stop) ==
  LET gone == {entries[s].addr : s \in {x \in Slot \ {Slots} : entries[x] # NoEntry}}
  IN /\ stop \notin Slot
     /\ scratch' = [a \in DOMAIN scratch \ gone |-> scratch[a]]
     /\ UNCHANGED <<failures, unmap_failed>>

\* release_all unmaps the slots in order up to the first that fails, and leaves
\* that one and the later ones mapped.
release_all(stop) ==
  LET gone == {entries[s].addr : s \in {x \in Slot : x < stop /\ entries[x] # NoEntry}}
  IN /\ scratch' = [a \in DOMAIN scratch \ gone |-> scratch[a]]
     /\ IF stop \in Slot
        THEN entries[stop] # NoEntry /\ Fails /\ unmap_failed' = unmap_failed + 1
        ELSE UNCHANGED <<failures, unmap_failed>>

\* The end of with_user_session, and what the caller does with its result.
EndSession ==
  /\ phase = "release"
  /\ \E stop \in Slot \cup {Slots + 1} :
       /\ release_all(stop)
       /\ \/ (~ok \/ stop \in Slot) /\ CallEnds(FALSE)
          \/ ok /\ stop \notin Slot /\ call.op = "read" /\ Advance(Len(kbuf))
          \/ ok /\ stop \notin Slot /\ call.op = "write" /\ phase' = "send"
             /\ UNCHANGED <<fds, call, ok>>
          \/ ok /\ stop \notin Slot /\ call.op = "execve" /\ CallEnds(TRUE)
  /\ NewPool
  /\ todo' = <<>> /\ uses' = <<>>
  /\ UNCHANGED <<content, buf, mem, kbuf, began, calls>>

\* A read of n bytes takes what the pipe has and never waits.
pipe_read(n) == SubSeq(buf, 1, Lesser(n, Len(buf)))

\* The bytes the file behind the handle has for the chunk.
FileRead(h) ==
  IF h.file = "reg"
  THEN SubSeq(content, h.offset + 1, Lesser(h.offset + Chunk, Len(content)))
  ELSE pipe_read(Chunk)

\* One turn of do_read's loop up to the copy; an empty read ends the call.
RwRead ==
  /\ phase = "rw" /\ call.op = "read"
  /\ fds[call.fd] # Closed /\ fds[call.fd].file # "wr"
  /\ LET h == fds[call.fd]
         got == FileRead(h)
     IN /\ buf' = IF h.file = "rd" THEN SubSeq(buf, Len(got) + 1, Len(buf)) ELSE buf
        /\ \/ got = <<>> /\ CallEnds(TRUE) /\ UNCHANGED <<pool, kbuf, todo, uses>>
           \/ got # <<>> /\ OpenSession(Pages(Head(call.iov).base, Len(got)), got)
              /\ UNCHANGED <<fds, call>>
  /\ UNCHANGED <<content, mem, scratch, began, unmap_failed, calls, failures>>

\* One turn of do_write's loop up to the copy.
RwWrite ==
  /\ phase = "rw" /\ call.op = "write" /\ fds[call.fd] # Closed
  /\ OpenSession(Pages(Head(call.iov).base, Chunk), <<>>)
  /\ UNCHANGED <<data, call, mem, scratch, began, unmap_failed, calls, failures>>

\* What a file holds after bytes are written at the offset.
Overwritten(file, offset, bytes) ==
  LET end == offset + Len(bytes)
  IN [i \in 1..(IF bytes = <<>> \/ end < Len(file) THEN Len(file) ELSE end) |->
        IF i \in (offset + 1)..end THEN bytes[i - offset]
        ELSE IF i <= Len(file) THEN file[i] ELSE Zero]

HasReader == \E fd \in Fd : fds[fd] # Closed /\ fds[fd].file = "rd"

\* A write takes what fits in the pipe, and fails without a reader.
pipe_write(bytes) == SubSeq(bytes, 1, Lesser(Len(bytes), PipeCapacity - Len(buf)))

\* A write takes what the disk holds.
disk_write(offset, bytes) == SubSeq(bytes, 1, Lesser(Len(bytes), MaxSize - offset))

\* The write of the chunk.
RwSend ==
  LET h == fds[call.fd]
      sent == IF h.file = "reg" THEN disk_write(h.offset, kbuf) ELSE pipe_write(kbuf)
  IN /\ phase = "send"
     /\ h.file = "reg" \/ (h.file = "wr" /\ HasReader)
     /\ content' = IF h.file = "reg" THEN Overwritten(content, h.offset, sent) ELSE content
     /\ buf' = IF h.file = "wr" THEN buf \o sent ELSE buf
     /\ Advance(Len(sent))
     /\ UNCHANGED <<mem, scratch, pool, kbuf, todo, uses, began, unmap_failed, calls, failures>>

\* The descriptor is not open, the wrong end of a pipe, or a pipe nobody reads.
RwRefused ==
  /\ phase \in {"rw", "send"}
  /\ IF fds[call.fd] = Closed
     THEN phase = "rw"
     ELSE \/ phase = "rw" /\ call.op = "read" /\ fds[call.fd].file = "wr"
          \/ phase = "send" /\ fds[call.fd].file = "rd"
          \/ phase = "send" /\ fds[call.fd].file = "wr" /\ ~HasReader
  /\ CallEnds(FALSE)
  /\ UNCHANGED <<content, buf, mem, scratch, pool, kbuf, todo, uses, began, unmap_failed, calls,
                 failures>>

\* The copy of the next iovec fails, or the server behind the handle does.
RwFails ==
  /\ phase \in {"rw", "send"} /\ Fails
  /\ CallEnds(FALSE)
  /\ UNCHANGED <<content, buf, mem, scratch, pool, kbuf, todo, uses, began, unmap_failed, calls>>

(***************************************************************************)
(* The calls                                                               *)
(***************************************************************************)
NoBegan == [offset |-> 0, content |-> <<>>, buf |-> <<>>, mem |-> InitMem, iov |-> <<>>]

Init ==
  /\ fds = InitFds /\ content = InitContent /\ buf = <<>> /\ mem = InitMem
  /\ scratch = <<>>
  /\ entries = [s \in Slot |-> NoEntry] /\ occupied = [s \in Slot |-> FALSE] /\ order = <<>>
  /\ phase = "idle" /\ call = NoCall /\ kbuf = <<>> /\ todo = <<>> /\ ok = TRUE
  /\ began = NoBegan /\ uses = <<>>
  /\ unmap_failed = 0 /\ calls = 0 /\ failures = 0

Called == phase = "idle" /\ calls < MaxCalls /\ calls' = calls + 1

Begin(op, fd, iov) ==
  /\ call' = [op |-> op, fd |-> fd, iov |-> iov, total |-> 0]
  /\ began' = [offset |-> IF op # "execve" /\ fds[fd] # Closed THEN fds[fd].offset ELSE 0,
               content |-> content, buf |-> buf, mem |-> mem, iov |-> iov]

\* read and write pass one buffer, readv and writev several.
SysRw ==
  /\ Called
  /\ \E op \in {"read", "write"}, fd \in Fd, iov \in Vectors : Begin(op, fd, iov)
  /\ phase' = "rw"
  /\ UNCHANGED <<data, mem, scratch, pool, session, unmap_failed, failures>>

\* parse_execve_user_input: one session reads the path, the pointers and the
\* strings, and may come back to a page.
SysExecve ==
  /\ Called
  /\ \E pages \in ExecInputs :
       /\ Begin("execve", 0, [i \in DOMAIN pages |-> [base |-> pages[i], len |-> 1]])
       /\ OpenSession(pages, <<>>)
  /\ UNCHANGED <<data, mem, scratch, unmap_failed, failures>>

\* The reply to the caller.
Return ==
  /\ phase = "return"
  /\ phase' = "idle" /\ call' = NoCall /\ began' = NoBegan
  /\ kbuf' = <<>> /\ todo' = <<>> /\ uses' = <<>> /\ ok' = TRUE
  /\ UNCHANGED <<data, mem, scratch, pool, unmap_failed, calls, failures>>

\* The offset lseek comes to; a pipe's stat has no size.
Sought(fd, whence, delta) ==
  LET size == IF fds[fd].file = "reg" THEN Len(content) ELSE 0
  IN delta + (CASE whence = "set" -> 0
                [] whence = "cur" -> fds[fd].offset
                [] whence = "end" -> size)

\* Mutant of SeekOk: a negative offset is taken.
SeekTaken(offset) == TRUE

SeekOk(offset) == offset >= 0

\* A refused lseek changes nothing; MaxSize bounds the others.
SysLseek ==
  /\ Called
  /\ \E fd \in Fd, whence \in {"set", "cur", "end"}, delta \in Deltas :
       /\ fds[fd] # Closed
       /\ SeekOk(Sought(fd, whence, delta)) /\ Sought(fd, whence, delta) <= MaxSize
       /\ fds' = [fds EXCEPT ![fd].offset = Sought(fd, whence, delta)]
  /\ UNCHANGED <<content, buf, mem, scratch, pool, phase, call, session, began, unmap_failed,
                 failures>>

\* dup copies the handle with its offset: the copies then move on their own.
SysDup ==
  /\ Called
  /\ \E old, new \in Fd : fds[old] # Closed /\ fds[new] = Closed
                          /\ fds' = [fds EXCEPT ![new] = fds[old]]
  /\ UNCHANGED <<content, buf, mem, scratch, pool, phase, call, session, began, unmap_failed,
                 failures>>

SysClose ==
  /\ Called
  /\ \E fd \in Fd : fds[fd] # Closed /\ fds' = [fds EXCEPT ![fd] = Closed]
  /\ UNCHANGED <<content, buf, mem, scratch, pool, phase, call, session, began, unmap_failed,
                 failures>>

Next ==
  \/ SysRw \/ SysExecve \/ SysLseek \/ SysDup \/ SysClose
  \/ RwRead \/ RwWrite \/ RwSend \/ RwRefused \/ RwFails
  \/ CopyPage \/ CopyRefused \/ EndSession \/ Return

Spec == Init /\ [][Next]_vars

(***************************************************************************)
(* Properties                                                              *)
(***************************************************************************)
Entry == [addr : Nat \ {0}, frame : Frame] \cup {NoEntry}

\* Every variable has its type: no offset is negative, and neither the file nor
\* the pipe outgrows its bound.
TypeOK ==
  /\ fds \in [Fd -> Handle \cup {Closed}]
  /\ content \in Seq(Byte) /\ Len(content) <= MaxSize
  /\ buf \in Seq(Byte) /\ Len(buf) <= PipeCapacity
  /\ mem \in [Frame -> Byte]
  /\ \A a \in DOMAIN scratch : a \in Nat \ {0} /\ scratch[a] \in Frame
  /\ entries \in [Slot -> Entry] /\ occupied \in [Slot -> BOOLEAN] /\ order \in Seq(Slot)
  /\ phase \in {"idle", "rw", "copy", "release", "send", "return"}
  /\ call.op \in {"none", "read", "write", "execve"} /\ call.total \in Nat
  /\ kbuf \in Seq(Byte) /\ todo \in Seq(Nat \ {0}) /\ ok \in BOOLEAN
  /\ uses \in Seq(Slot)
  /\ unmap_failed \in 0..MaxFailures /\ calls \in 0..MaxCalls /\ failures \in 0..MaxFailures

\* The user addresses the call has counted, in order.
Addresses(iov) == FlattenSeq([i \in DOMAIN iov |-> Pages(iov[i].base, iov[i].len)])
Counted == SubSeq(Addresses(began.iov), 1, call.total)
BytesAt(memory, addresses) == [i \in DOMAIN addresses |-> memory[UserMap[addresses[i]].frame]]

\* What a read began in front of.
Source(file) == IF file = "reg" THEN SubSeq(began.content, began.offset + 1, Len(began.content))
                ELSE began.buf

\* What a read, readv, write or writev has counted has moved, whole, in order
\* and to the right place, at every chunk and when the call is over, whether it
\* succeeded or not: a read leaves in the caller's buffers the bytes the file
\* held from the offset on (or the head of the pipe), and a write leaves them in
\* the file at the offset (or at the end of the pipe).
TransferExact ==
  phase \in {"rw", "return"} /\ call.op \in {"read", "write"} /\ fds[call.fd] # Closed =>
    LET file == fds[call.fd].file
    IN \/ call.op = "read" /\ BytesAt(mem, Counted) = SubSeq(Source(file), 1, call.total)
       \/ call.op = "write" /\ file = "reg"
          /\ content = Overwritten(began.content, began.offset, BytesAt(mem, Counted))
       \/ call.op = "write" /\ file # "reg" /\ buf = began.buf \o BytesAt(mem, Counted)

\* No two bytes of the buffers of one call lie in the same place of memory. A
\* readv into overlapping buffers leaves the later byte there, so what it counted
\* first is no longer to be found: the proof of TransferExact is for calls of
\* this kind.
DistinctBuffers ==
  \A v \in Vectors : \A i, j \in DOMAIN Addresses(v) :
    LET a == Addresses(v)[i]
        b == Addresses(v)[j]
    IN i # j /\ a \in DOMAIN UserMap /\ b \in DOMAIN UserMap => UserMap[a].frame # UserMap[b].frame

\* The offset of the handle is ahead by exactly what the call has counted, at
\* every step and after a failure too; a pipe has given up exactly the counted
\* bytes when the call succeeds, and at most one chunk more when it fails.
OffsetMatchesCount ==
  phase # "idle" /\ call.op \in {"read", "write"} /\ fds[call.fd] # Closed =>
    /\ fds[call.fd].offset = began.offset + call.total
    /\ call.op = "read" /\ fds[call.fd].file = "rd" =>
         LET taken == Len(began.buf) - Len(buf)
         IN /\ buf = SubSeq(began.buf, taken + 1, Len(began.buf))
            /\ taken \in call.total..(call.total + RwChunk)
            /\ phase = "return" /\ ok => taken = call.total

LastUse(s) == Max({i \in DOMAIN uses : uses[i] = s})

\* While a session copies, an occupied slot has an entry (find_hit unwraps it),
\* the entry's scratch address maps the entry's frame, and no frame holds two
\* slots; a full pool gives up the slot whose last use is the oldest of all.
PoolSound ==
  phase = "copy" =>
    /\ \A s \in Slot : occupied[s] <=> entries[s] # NoEntry
    /\ \A s \in Slot : occupied[s] => /\ entries[s].addr \in DOMAIN scratch
                                      /\ scratch[entries[s].addr] = entries[s].frame
    /\ \A s, t \in Slot : occupied[s] /\ occupied[t] /\ s # t => entries[s].frame # entries[t].frame
    /\ (\A s \in Slot : occupied[s]) => \A s \in Slot : LastUse(pick_slot) <= LastUse(s)

\* Outside a session no scratch mapping is left, whatever the session met,
\* except after an unmapping that failed: each can leave at most a pool behind.
ScratchReleased ==
  phase \in {"idle", "rw", "send", "return"} =>
    Cardinality(DOMAIN scratch) <= Slots * unmap_failed
============================================================================
