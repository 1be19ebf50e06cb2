----------------------------- MODULE ApeIoProofs -----------------------------
(***************************************************************************)
(* Proofs about ApeIo: for every memory, file, buffer and number of slots, *)
(* chunk size, calls and failures.                                         *)
(*                                                                         *)
(* IInv relates the phase of a call to its buffers and to the kernel       *)
(* buffer (CallShape), the pool to the scratch mappings (Mapping) and to   *)
(* the order of use (Recency), the mappings outside the pool to the        *)
(* unmappings that failed (StrayBound), and the offset and the pipe to the *)
(* count (Offsets, PipeTaken).                                             *)
(*                                                                         *)
(* TInv adds where the bytes are: the buffers still to be served follow    *)
(* what was counted (Remains), the counted bytes have moved (ReadDone,     *)
(* WriteDone), and those of the running session are in the kernel buffer   *)
(* and, of a read, already in memory (ReadSession, WriteSession).          *)
(***************************************************************************)
EXTENDS ApeIo, FiniteSetTheorems, SequenceTheorems, WellFoundedInduction, TLAPS

Iovec == [base : Nat \ {0}, len : Nat \ {0}]

DataType ==
  /\ fds \in [Fd -> Handle \cup {Closed}]
  /\ content \in Seq(Byte) /\ Len(content) <= MaxSize
  /\ buf \in Seq(Byte) /\ Len(buf) <= PipeCapacity
  /\ mem \in [Frame -> Byte]

PoolType ==
  /\ IsFiniteSet(DOMAIN scratch)
  /\ \A a \in DOMAIN scratch : a \in Nat \ {0} /\ scratch[a] \in Frame
  /\ entries \in [Slot -> Entry] /\ occupied \in [Slot -> BOOLEAN] /\ order \in Seq(Slot)
  /\ uses \in Seq(Slot)

CallType ==
  /\ phase \in {"idle", "rw", "copy", "release", "send", "return"}
  /\ call \in [op : {"none", "read", "write", "execve"}, fd : Fd \cup {0}, iov : Seq(Iovec),
               total : Nat]
  /\ began.offset \in Nat /\ began.buf \in Seq(Byte)
  /\ kbuf \in Seq(Byte) /\ todo \in Seq(Nat \ {0}) /\ ok \in BOOLEAN
  /\ unmap_failed \in 0..MaxFailures /\ calls \in 0..MaxCalls /\ failures \in 0..MaxFailures
  /\ unmap_failed <= failures

\* A read or write in its phases: the buffer it is at, the handle it works on,
\* and how much of the chunk the kernel buffer holds.
Rw == call.op \in {"read", "write"}
CallShape ==
  /\ phase \in {"rw", "send"} => Rw
  /\ phase = "send" => call.op = "write"
  /\ phase # "idle" /\ Rw => call.fd \in Fd
  /\ phase \in {"rw", "copy", "release", "send"} /\ Rw => call.iov # <<>>
  /\ phase \in {"copy", "release", "send"} /\ Rw => fds[call.fd] # Closed
  /\ phase = "copy" => todo # <<>>
  /\ phase = "copy" /\ call.op = "write" => Len(kbuf) + Len(todo) <= Chunk
  /\ phase \in {"release", "send"} /\ call.op = "write" => Len(kbuf) <= Chunk
  /\ phase \in {"copy", "release"} /\ call.op = "read" =>
       Len(todo) <= Len(kbuf) /\ Len(kbuf) <= Chunk

\* The occupied slots have entries, which agree with the scratch mappings and
\* are for different frames.
Mapping ==
  /\ \A s \in Slot : occupied[s] <=> entries[s] # NoEntry
  /\ \A s \in Slot : occupied[s] => /\ entries[s].addr \in DOMAIN scratch
                                    /\ scratch[entries[s].addr] = entries[s].frame
  /\ \A s, t \in Slot : occupied[s] /\ occupied[t] /\ s # t => entries[s].frame # entries[t].frame

\* b was used after every use of a.
UsedBefore(a, b) ==
  \E k \in DOMAIN uses : uses[k] = b /\ \A l \in DOMAIN uses : uses[l] = a => l < k

\* The order lists the occupied slots, once each, by their last use.
Recency ==
  /\ \A i, j \in DOMAIN order : order[i] = order[j] => i = j
  /\ \A s \in Slot : occupied[s] <=> \E i \in DOMAIN order : order[i] = s
  /\ \A s \in Slot : occupied[s] => \E k \in DOMAIN uses : uses[k] = s
  /\ \A i, j \in DOMAIN order : i < j => UsedBefore(order[i], order[j])

\* The pool while a session copies, and outside of sessions.
PoolInUse == phase = "copy" => Mapping /\ Recency
PoolEmpty == phase \notin {"copy", "release"} => \A s \in Slot : entries[s] = NoEntry

\* The scratch mappings that no slot of the pool has.
Held == {entries[s].addr : s \in {x \in Slot : entries[x] # NoEntry}}
Strays == DOMAIN scratch \ Held
StrayBound == Cardinality(Strays) <= Slots * unmap_failed

Offsets ==
  phase # "idle" /\ Rw /\ fds[call.fd] # Closed =>
    fds[call.fd].offset = began.offset + call.total

\* How many bytes the call has taken from the pipe.
Taken == Len(began.buf) - Len(buf)
PipeTaken ==
  phase # "idle" /\ call.op = "read" /\ fds[call.fd] # Closed /\ fds[call.fd].file = "rd" =>
    /\ buf = SubSeq(began.buf, Taken + 1, Len(began.buf))
    /\ phase = "rw" => Taken = call.total
    /\ phase \in {"copy", "release"} => Taken = call.total + Len(kbuf)
    /\ phase = "return" => /\ Taken \in call.total..(call.total + RwChunk)
                           /\ ok => Taken = call.total

IInv == /\ DataType /\ PoolType /\ CallType /\ CallShape
        /\ PoolInUse /\ PoolEmpty /\ StrayBound /\ Offsets /\ PipeTaken

(***************************************************************************)
(* Least and greatest elements, and the order of use                       *)
(***************************************************************************)
\* Min of a nonempty set of naturals is its least element.
LEMMA MinOf ==
  ASSUME NEW T, T \subseteq Nat, T # {}
  PROVE  Min(T) \in T /\ \A k \in T : Min(T) <= k
<1>1. PICK m \in T : \A k \in T : ~(<<k, m>> \in OpToRel(<, Nat))
  BY WFMin, NatLessThanWellFounded, Zenon
<1>2. \A k \in T : ~(k < m)
  BY <1>1 DEF OpToRel
<1>3. \A k \in T : m <= k
  BY <1>2
<1> QED
  BY <1>3 DEF Min

\* Max of a nonempty bounded set of naturals is its greatest element.
LEMMA MaxOf ==
  ASSUME NEW n \in Nat, NEW T, T \subseteq 0..n, T # {}
  PROVE  Max(T) \in T /\ \A k \in T : Max(T) >= k
<1> DEFINE D == {d \in Nat : n - d \in T}
<1>1. D \subseteq Nat /\ D # {}
  <2>1. PICK t : t \in T
    OBVIOUS
  <2>2. n - t \in Nat /\ n - (n - t) = t
    BY <2>1
  <2> QED
    BY <2>1, <2>2
<1>2. Min(D) \in D /\ \A d \in D : Min(D) <= d
  BY <1>1, MinOf
<1>3. n - Min(D) \in T /\ Min(D) \in Nat
  BY <1>2
<1>4. ASSUME NEW k \in T PROVE n - Min(D) >= k
  <2>1. n - k \in Nat /\ n - (n - k) = k /\ k \in Nat
    BY <1>4
  <2>2. n - k \in D
    BY <2>1
  <2> QED
    BY <1>2, <1>3, <2>1, <2>2
<1> QED
  BY <1>3, <1>4 DEF Max

\* A sequence without its k-th element.
LEMMA RemovedAt ==
  ASSUME NEW S, NEW q \in Seq(S), NEW k \in 1..Len(q)
  PROVE  /\ RemoveAt(q, k) \in Seq(S) /\ Len(RemoveAt(q, k)) = Len(q) - 1
         /\ \A i \in 1..(Len(q) - 1) :
              RemoveAt(q, k)[i] = IF i < k THEN q[i] ELSE q[i + 1]
<1>1. /\ SubSeq(q, 1, k - 1) \in Seq(S) /\ Len(SubSeq(q, 1, k - 1)) = k - 1
      /\ \A i \in 1..(k - 1) : SubSeq(q, 1, k - 1)[i] = q[i]
  OBVIOUS
<1>2. /\ SubSeq(q, k + 1, Len(q)) \in Seq(S)
      /\ Len(SubSeq(q, k + 1, Len(q))) = Len(q) - k
      /\ \A i \in 1..(Len(q) - k) : SubSeq(q, k + 1, Len(q))[i] = q[k + i]
  OBVIOUS
<1>3. PICK u, v : u = SubSeq(q, 1, k - 1) /\ v = SubSeq(q, k + 1, Len(q))
  OBVIOUS
<1>4. u \in Seq(S) /\ v \in Seq(S) /\ Len(u) = k - 1 /\ Len(v) = Len(q) - k
  BY <1>1, <1>2, <1>3
<1>5. u \o v \in Seq(S) /\ Len(u \o v) = Len(q) - 1
  BY <1>4, SMTT(60)
<1>6. ASSUME NEW i \in 1..(Len(q) - 1)
      PROVE  (u \o v)[i] = IF i < k THEN q[i] ELSE q[i + 1]
  <2>1. CASE i < k
    <3>1. (u \o v)[i] = u[i] /\ i \in 1..(k - 1)
      BY <1>4, <2>1
    <3> QED
      BY <1>1, <1>3, <2>1, <3>1
  <2>2. CASE ~(i < k)
    <3>1. (u \o v)[i] = v[i - (k - 1)]
      BY <1>4, <2>2
    <3>2. i - (k - 1) \in 1..(Len(q) - k) /\ k + (i - (k - 1)) = i + 1
      BY <2>2
    <3> QED
      BY <1>2, <1>3, <2>2, <3>1, <3>2
  <2> QED
    BY <2>1, <2>2
<1> QED
  BY <1>3, <1>5, <1>6 DEF RemoveAt

\* make_mru keeps the slots and their order, but for s, which comes last.
LEMMA MruOrder ==
  ASSUME order \in Seq(Slot), NEW s \in Slot, NEW m, m = make_mru(s),
         \A i, j \in DOMAIN order : order[i] = order[j] => i = j
  PROVE  /\ m \in Seq(Slot) /\ m # <<>> /\ m[Len(m)] = s
         /\ \A i \in DOMAIN m : i < Len(m) =>
              m[i] # s /\ \E k \in DOMAIN order : m[i] = order[k]
         /\ \A k \in DOMAIN order : \E i \in DOMAIN m : m[i] = order[k]
         /\ \A i, j \in DOMAIN m : i < j /\ j < Len(m) =>
              \E k, l \in DOMAIN order : k < l /\ m[i] = order[k] /\ m[j] = order[l]
<1> DEFINE at == {i \in DOMAIN order : order[i] = s}
<1>1. CASE at = {}
  <2>1. m = Append(order, s)
    BY <1>1 DEF make_mru
  <2> QED
    BY <1>1, <2>1
<1>2. CASE at # {}
  <2>1. PICK k \in DOMAIN order : order[k] = s
    BY <1>2
  <2>2. at = {k} /\ k \in 1..Len(order)
    BY <2>1
  <2>3. Min(at) = k
    <3>0. at \subseteq Nat /\ at # {}
      BY <2>2
    <3>1. Min(at) \in at
      BY <3>0, MinOf
    <3> QED
      BY <2>2, <3>1
  <2>4. PICK r : r = RemoveAt(order, k)
    OBVIOUS
  <2>5. m = Append(r, s)
    BY <1>2, <2>3, <2>4 DEF make_mru
  <2>6. /\ r \in Seq(Slot) /\ Len(r) = Len(order) - 1
        /\ \A i \in 1..(Len(order) - 1) : r[i] = IF i < k THEN order[i] ELSE order[i + 1]
    BY <2>2, <2>4, RemovedAt
  <2>7. /\ m \in Seq(Slot) /\ Len(m) = Len(order) /\ m[Len(m)] = s /\ m # <<>>
        /\ \A i \in 1..(Len(order) - 1) : m[i] = IF i < k THEN order[i] ELSE order[i + 1]
    BY <2>2, <2>5, <2>6
  <2> HIDE DEF at
  <2>8. \A i \in 1..(Len(order) - 1) : \E l \in DOMAIN order : l # k /\ m[i] = order[l]
    <3> TAKE i \in 1..(Len(order) - 1)
    <3>1. i \in DOMAIN order /\ i + 1 \in DOMAIN order
      OBVIOUS
    <3>2. CASE i < k
      BY <2>2, <2>7, <3>1, <3>2
    <3>3. CASE ~(i < k)
      BY <2>2, <2>7, <3>1, <3>3
    <3> QED
      BY <3>2, <3>3
  <2>9. ASSUME NEW l \in DOMAIN order PROVE \E i \in DOMAIN m : m[i] = order[l]
    <3>1. CASE l < k
      BY <2>2, <2>7, <3>1
    <3>2. CASE l = k
      BY <2>1, <2>2, <2>7, <3>2
    <3>3. CASE l > k
      <4>1. l - 1 \in 1..(Len(order) - 1) /\ ~(l - 1 < k) /\ (l - 1) + 1 = l
        BY <2>2, <3>3
      <4>2. m[l - 1] = order[l]
        BY <2>7, <4>1
      <4>3. l - 1 \in DOMAIN m
        BY <2>7, <4>1
      <4> QED
        BY <4>2, <4>3
    <3> QED
      BY <2>2, <3>1, <3>2, <3>3
  <2>10. ASSUME NEW i \in DOMAIN m, NEW j \in DOMAIN m, i < j, j < Len(m)
         PROVE  \E a, b \in DOMAIN order : a < b /\ m[i] = order[a] /\ m[j] = order[b]
    <3>1. /\ i \in 1..(Len(order) - 1) /\ j \in 1..(Len(order) - 1)
          /\ i \in DOMAIN order /\ i + 1 \in DOMAIN order
          /\ j \in DOMAIN order /\ j + 1 \in DOMAIN order
      BY <2>7, <2>10
    <3>2. /\ m[i] = IF i < k THEN order[i] ELSE order[i + 1]
          /\ m[j] = IF j < k THEN order[j] ELSE order[j + 1]
      BY <2>7, <3>1
    <3> QED
      BY <2>10, <3>1, <3>2, <2>2, SMTT(60)
  <2>11. \A i \in DOMAIN m : i < Len(m) => i \in 1..(Len(order) - 1)
    BY <2>7
  <2>12. \A i \in DOMAIN m : i < Len(m) =>
              m[i] # s /\ \E l \in DOMAIN order : m[i] = order[l]
    BY <2>1, <2>8, <2>11
  <2> QED
    BY <2>7, <2>9, <2>10, <2>12
<1> QED
  BY <1>1, <1>2

\* Using slot s, whether it was occupied or not, keeps the order that of the
\* last uses.
LEMMA UsedNext ==
  ASSUME PoolType, Recency, NEW s \in Slot, order' = make_mru(s),
         uses' = Append(uses, s), \A t \in Slot : occupied'[t] <=> occupied[t] \/ t = s
  PROVE  Recency' /\ order' \in Seq(Slot) /\ uses' \in Seq(Slot)
<1>t. order \in Seq(Slot) /\ uses \in Seq(Slot) /\ occupied \in [Slot -> BOOLEAN]
  BY DEF PoolType
<1>r. /\ \A i, j \in DOMAIN order : order[i] = order[j] => i = j
      /\ \A t \in Slot : occupied[t] <=> \E i \in DOMAIN order : order[i] = t
      /\ \A t \in Slot : occupied[t] => \E k \in DOMAIN uses : uses[k] = t
      /\ \A i, j \in DOMAIN order : i < j => UsedBefore(order[i], order[j])
  BY DEF Recency
<1>1. PICK m : m = order'
  OBVIOUS
<1>2. m = make_mru(s)
  BY <1>1
<1>3a. m \in Seq(Slot) /\ m # <<>> /\ m[Len(m)] = s
  BY <1>t, <1>r, <1>2, MruOrder
<1>3b. \A i \in DOMAIN m : i < Len(m) => m[i] # s /\ \E k \in DOMAIN order : m[i] = order[k]
  BY <1>t, <1>r, <1>2, MruOrder
<1>3c. \A k \in DOMAIN order : \E i \in DOMAIN m : m[i] = order[k]
  BY <1>t, <1>r, <1>2, MruOrder
<1>3d. \A i, j \in DOMAIN m : i < j /\ j < Len(m) =>
         \E k, l \in DOMAIN order : k < l /\ m[i] = order[k] /\ m[j] = order[l]
  BY <1>t, <1>r, <1>2, MruOrder
<1>u. /\ uses' \in Seq(Slot) /\ Len(uses') = Len(uses) + 1 /\ uses'[Len(uses) + 1] = s
      /\ \A k \in DOMAIN uses : k \in DOMAIN uses' /\ uses'[k] = uses[k]
      /\ \A k \in DOMAIN uses' : k \in DOMAIN uses \/ k = Len(uses) + 1
  BY <1>t
<1>l. /\ Len(m) \in DOMAIN m
      /\ \A i \in DOMAIN m : i \in Nat /\ (i < Len(m) \/ i = Len(m))
  BY <1>3a
<1>4. \A i, j \in DOMAIN m : m[i] = m[j] => i = j
  <2> SUFFICES ASSUME NEW i \in DOMAIN m, NEW j \in DOMAIN m, m[i] = m[j], i < j PROVE FALSE
    BY <1>l
  <2>1. CASE j < Len(m)
    <3>1. PICK k, l \in DOMAIN order : k < l /\ m[i] = order[k] /\ m[j] = order[l]
      BY <1>3d, <2>1
    <3>2. order[k] = order[l]
      BY <3>1
    <3>3. k = l
      BY <1>r, <3>2
    <3>4. k \in 1..Len(order) /\ l \in 1..Len(order) /\ Len(order) \in Nat
      BY <1>t
    <3> QED
      BY <3>1, <3>3, <3>4
  <2>2. CASE j = Len(m)
    BY <1>3a, <1>3b, <2>2
  <2> QED
    BY <1>l, <2>1, <2>2
<1>5. \A t \in Slot : occupied'[t] <=> \E i \in DOMAIN m : m[i] = t
  <2> TAKE t \in Slot
  <2>1. occupied'[t] <=> occupied[t] \/ t = s
    OBVIOUS
  <2>2. (\E i \in DOMAIN m : m[i] = t) <=> (\E i \in DOMAIN order : order[i] = t) \/ t = s
    BY <1>3a, <1>3b, <1>3c, <1>l
  <2> QED
    BY <1>r, <2>1, <2>2, Zenon
<1>6. \A t \in Slot : occupied'[t] => \E k \in DOMAIN uses' : uses'[k] = t
  <2> TAKE t \in Slot
  <2>1. CASE t = s
    <3>1. Len(uses) + 1 \in DOMAIN uses'
      BY <1>t, <1>u
    <3> QED
      BY <1>u, <2>1, <3>1
  <2>2. CASE t # s
    <3>1. occupied'[t] <=> occupied[t]
      BY <2>2
    <3> QED
      BY <1>r, <1>u, <3>1
  <2> QED
    BY <2>1, <2>2
<1>7. ASSUME NEW i \in DOMAIN m, NEW j \in DOMAIN m, i < j
      PROVE  \E k \in DOMAIN uses' :
               uses'[k] = m[j] /\ \A l \in DOMAIN uses' : uses'[l] = m[i] => l < k
  <2>0. m[i] # s
    BY <1>3b, <1>l, <1>7
  <2>1. CASE j = Len(m)
    <3>1. Len(uses) + 1 \in DOMAIN uses' /\ uses'[Len(uses) + 1] = m[j]
      BY <1>t, <1>u, <1>3a, <2>1
    <3>2. \A l \in DOMAIN uses' : uses'[l] = m[i] => l < Len(uses) + 1
      BY <1>t, <1>u, <2>0
    <3> QED
      BY <3>1, <3>2
  <2>2. CASE j < Len(m)
    <3>1. PICK a, b \in DOMAIN order : a < b /\ m[i] = order[a] /\ m[j] = order[b]
      BY <1>3d, <1>7, <2>2
    <3>2. UsedBefore(m[i], m[j])
      BY <1>r, <3>1
    <3>3. PICK k \in DOMAIN uses :
            uses[k] = m[j] /\ \A l \in DOMAIN uses : uses[l] = m[i] => l < k
      BY <3>2 DEF UsedBefore
    <3>4. \A l \in DOMAIN uses' : uses'[l] = m[i] => l < k
      BY <1>u, <2>0, <3>3
    <3> QED
      BY <1>u, <3>3, <3>4
  <2> QED
    BY <1>l, <2>1, <2>2
<1>8. Recency'
  <2>1. \A i, j \in DOMAIN order' : i < j => UsedBefore(order[i], order[j])'
    BY <1>1, <1>7 DEF UsedBefore
  <2>2. \A i, j \in DOMAIN order' : order'[i] = order'[j] => i = j
    BY <1>1, <1>4
  <2>3. \A t \in Slot : occupied'[t] <=> \E i \in DOMAIN order' : order'[i] = t
    BY <1>1, <1>5
  <2> QED
    BY <1>6, <2>1, <2>2, <2>3 DEF Recency
<1> QED
  BY <1>1, <1>3a, <1>u, <1>8

(***************************************************************************)
(* acquire                                                                 *)
(***************************************************************************)
\* pick_slot answers with a slot: a free one, or the first in the order.
LEMMA PickedSlot ==
  ASSUME PoolType, Recency
  PROVE  /\ pick_slot \in Slot
         /\ (\A s \in Slot : occupied[s]) => 1 \in DOMAIN order /\ pick_slot = order[1]
<1>1. \A s \in Slot : s \in Nat
  BY DEF Slot
<1>2. CASE \E s \in Slot : ~occupied[s]
  <2> DEFINE F == {s \in Slot : ~occupied[s]}
  <2>1. F \subseteq Nat /\ F # {}
    BY <1>1, <1>2
  <2>2. Min(F) \in F
    BY <2>1, MinOf
  <2>3. pick_slot = Min(F)
    BY <1>2 DEF pick_slot
  <2> QED
    BY <1>2, <2>2, <2>3
<1>3. CASE \A s \in Slot : occupied[s]
  <2> DEFINE D == {i \in DOMAIN order : occupied[order[i]]}
  <2>1. order \in Seq(Slot)
    BY DEF PoolType
  <2>2. D = DOMAIN order
    <3>1. \A i \in DOMAIN order : order[i] \in Slot
      BY <2>1
    <3>2. \A i \in DOMAIN order : occupied[order[i]]
      BY <1>3, <3>1, Zenon
    <3> QED
      BY <3>2, Zenon
  <2>3. 1 \in Slot
    BY BoundAssumption DEF Slot
  <2>4. \E i \in DOMAIN order : order[i] = 1
    BY <1>3, <2>3 DEF Recency
  <2>5. 1 \in DOMAIN order
    <3>1. PICK i \in DOMAIN order : order[i] = 1
      BY <2>4
    <3>2. DOMAIN order = 1..Len(order) /\ Len(order) \in Nat
      BY <2>1
    <3> QED
      BY <3>1, <3>2
  <2>6. D \subseteq Nat /\ D # {}
    BY <2>1, <2>2, <2>5
  <2>7. Min(D) \in D /\ \A k \in D : Min(D) <= k
    BY <2>6, MinOf
  <2>8. Min(D) = 1
    <3>1. Min(D) \in 1..Len(order) /\ Min(D) <= 1 /\ Len(order) \in Nat
      BY <2>1, <2>2, <2>5, <2>7
    <3> QED
      BY <3>1
  <2>9. pick_slot = order[1]
    BY <1>3, <2>8 DEF pick_slot, victim
  <2> QED
    BY <2>1, <2>5, <2>9
<1> QED
  BY <1>2, <1>3

\* The address of a new scratch mapping is a free one.
LEMMA NewAddress ==
  ASSUME NEW D, IsFiniteSet(D)
  PROVE  /\ Min((1..(Cardinality(D) + 1)) \ D) \in Nat \ {0}
         /\ Min((1..(Cardinality(D) + 1)) \ D) \notin D
<1>1. PICK n \in Nat : n = Cardinality(D)
  BY FS_CardinalityType
<1> DEFINE T == (1..(n + 1)) \ D
<1>2. T # {}
  <2> SUFFICES ASSUME (1..(n + 1)) \subseteq D PROVE FALSE
    OBVIOUS
  <2>1. Cardinality(1..(n + 1)) <= Cardinality(D)
    BY FS_Subset
  <2>2. Cardinality(1..(n + 1)) = n + 1
    BY FS_Interval
  <2> QED
    BY <1>1, <2>1, <2>2
<1>3. T \subseteq Nat
  OBVIOUS
<1>4. Min(T) \in T
  BY <1>2, <1>3, MinOf
<1> QED
  BY <1>1, <1>4

\* A scratch mapping that is not in the way of anything.
LEMMA WithoutMapping ==
  ASSUME PoolType, NEW addr
  PROVE  /\ DOMAIN WithoutAddr(addr) = DOMAIN scratch \ {addr}
         /\ IsFiniteSet(DOMAIN WithoutAddr(addr))
         /\ \A a \in DOMAIN scratch : a # addr => WithoutAddr(addr)[a] = scratch[a]
BY FS_RemoveElement DEF WithoutAddr, PoolType

\* The outcomes of AcquireNew for the slot s, the mappings that are left without
\* its old one, and the address of the new one.
NewMapped(frame, s, freed, addr) ==
  /\ scratch' = [a \in DOMAIN freed \cup {addr} |-> IF a = addr THEN frame ELSE freed[a]]
  /\ entries' = [entries EXCEPT ![s] = [addr |-> addr, frame |-> frame]]
  /\ occupied' = [occupied EXCEPT ![s] = TRUE]
  /\ order' = make_mru(s)
  /\ ok' = TRUE
  /\ UNCHANGED <<failures, unmap_failed>>
MapFailed(s, freed) ==
  /\ Fails /\ ok' = FALSE
  /\ scratch' = freed
  /\ entries' = [entries EXCEPT ![s] = NoEntry]
  /\ occupied' = [occupied EXCEPT ![s] = FALSE]
  /\ UNCHANGED <<order, unmap_failed>>
UnmapFailed(s) ==
  /\ occupied[s] /\ Fails /\ ok' = FALSE
  /\ unmap_failed' = unmap_failed + 1
  /\ entries' = [entries EXCEPT ![s] = NoEntry]
  /\ UNCHANGED <<scratch, occupied, order>>

\* The three ways AcquireNew ends.
LEMMA AcquireNewCases ==
  ASSUME NEW frame, AcquireNew(frame), NEW s, s = pick_slot,
         NEW freed, freed = IF occupied[s] THEN WithoutAddr(entries[s].addr) ELSE scratch,
         NEW addr, addr = Min((1..(Cardinality(DOMAIN freed) + 1)) \ DOMAIN freed)
  PROVE  NewMapped(frame, s, freed, addr) \/ MapFailed(s, freed) \/ UnmapFailed(s)
<1> DEFINE S == pick_slot
           F == IF occupied[S] THEN WithoutAddr(entries[S].addr) ELSE scratch
           A == Min((1..(Cardinality(DOMAIN F) + 1)) \ DOMAIN F)
<1>1. NewMapped(frame, S, F, A) \/ MapFailed(S, F) \/ UnmapFailed(S)
  BY Zenon DEF AcquireNew, NewMapped, MapFailed, UnmapFailed
<1>2. s = S
  OBVIOUS
<1>3. freed = F
  BY <1>2
<1>4. addr = A
  BY <1>3
<1> HIDE DEF S, F, A
<1> QED
  BY <1>1, <1>2, <1>3, <1>4

\* A frame that is found, or newly mapped, keeps the pool right; the copy then
\* goes through a mapping of that very frame.
LEMMA AcquireOk ==
  ASSUME PoolType, Mapping, Recency, NEW frame \in Frame, acquire(frame), ok',
         uses' = Append(uses, Acquired(frame))
  PROVE  /\ PoolType' /\ Mapping' /\ Recency' /\ Strays' \subseteq Strays
         /\ scratch'[entries'[Acquired(frame)].addr] = frame
         /\ Acquired(frame) \in Slot
         /\ UNCHANGED <<failures, unmap_failed>>
<1>t. /\ IsFiniteSet(DOMAIN scratch)
      /\ \A a \in DOMAIN scratch : a \in Nat \ {0} /\ scratch[a] \in Frame
      /\ entries \in [Slot -> Entry] /\ occupied \in [Slot -> BOOLEAN]
      /\ order \in Seq(Slot) /\ uses \in Seq(Slot)
  BY DEF PoolType
<1>m. /\ \A s \in Slot : occupied[s] <=> entries[s] # NoEntry
      /\ \A s \in Slot : occupied[s] => /\ entries[s].addr \in DOMAIN scratch
                                        /\ scratch[entries[s].addr] = entries[s].frame
      /\ \A s, t \in Slot : occupied[s] /\ occupied[t] /\ s # t =>
           entries[s].frame # entries[t].frame
  BY DEF Mapping
<1>1. CASE find_hit(frame) # {}
  <2> DEFINE s == Min(find_hit(frame))
  <2>1. find_hit(frame) \subseteq Nat
    BY DEF find_hit, Slot
  <2>2. s \in find_hit(frame)
    BY <1>1, <2>1, MinOf
  <2>3. s \in Slot /\ occupied[s] /\ entries[s].frame = frame
    BY <2>2 DEF find_hit
  <2>4. Acquired(frame) = s /\ AcquireHit(s)
    BY <1>1 DEF Acquired, acquire
  <2> HIDE DEF s
  <2>5. /\ order' = make_mru(s) /\ uses' = Append(uses, s)
        /\ UNCHANGED <<scratch, entries, occupied, failures, unmap_failed>>
    BY <2>4 DEF AcquireHit
  <2>6. \A t \in Slot : occupied'[t] <=> occupied[t] \/ t = s
    BY <2>3, <2>5, Zenon
  <2>7. Recency' /\ order' \in Seq(Slot) /\ uses' \in Seq(Slot)
    BY <2>3, <2>5, <2>6, UsedNext
  <2>8. PoolType'
    BY <1>t, <2>5, <2>7 DEF PoolType
  <2>9. Mapping' /\ Strays' \subseteq Strays
    BY <2>5 DEF Mapping, Strays, Held
  <2>10. scratch'[entries'[s].addr] = frame
    BY <1>m, <2>3, <2>5
  <2> QED
    BY <2>3, <2>4, <2>5, <2>7, <2>8, <2>9, <2>10
<1>2. CASE find_hit(frame) = {}
  <2>1. PICK s \in Slot : s = pick_slot
    BY PickedSlot
  <2>2. PICK freed : freed = IF occupied[s] THEN WithoutAddr(entries[s].addr) ELSE scratch
    OBVIOUS
  <2>3. PICK addr : addr = Min((1..(Cardinality(DOMAIN freed) + 1)) \ DOMAIN freed)
    OBVIOUS
  <2>4. AcquireNew(frame) /\ Acquired(frame) = s
    BY <1>2, <2>1 DEF acquire, Acquired
  <2>5. /\ scratch' = [a \in DOMAIN freed \cup {addr} |-> IF a = addr THEN frame ELSE freed[a]]
        /\ entries' = [entries EXCEPT ![s] = [addr |-> addr, frame |-> frame]]
        /\ occupied' = [occupied EXCEPT ![s] = TRUE]
        /\ order' = make_mru(s)
        /\ UNCHANGED <<failures, unmap_failed>>
    <3>1. NewMapped(frame, s, freed, addr) \/ MapFailed(s, freed) \/ UnmapFailed(s)
      BY <2>1, <2>2, <2>3, <2>4, AcquireNewCases
    <3>2. NewMapped(frame, s, freed, addr)
      BY <3>1 DEF MapFailed, UnmapFailed
    <3> QED
      BY <3>2 DEF NewMapped
  <2>6. /\ IsFiniteSet(DOMAIN freed) /\ DOMAIN freed \subseteq DOMAIN scratch
        /\ \A a \in DOMAIN freed : freed[a] = scratch[a]
    BY <1>t, <2>2, WithoutMapping, ZenonT(60)
  <2>7. addr \in Nat \ {0} /\ addr \notin DOMAIN freed
    BY <2>3, <2>6, NewAddress
  <2>8. \A t \in Slot : t # s => entries[t].frame # frame \/ ~occupied[t]
    BY <1>2, <1>m DEF find_hit
  <2>9. ASSUME NEW t \in Slot, t # s, occupied[t]
        PROVE  entries[t].addr \in DOMAIN freed
    <3>1. CASE occupied[s]
      <4>1. entries[t].addr # entries[s].addr
        BY <1>m, <2>9, <3>1
      <4>2. freed = WithoutAddr(entries[s].addr)
        BY <2>2, <3>1
      <4> QED
        BY <1>m, <2>9, <4>1, <4>2, WithoutMapping
    <3>2. CASE ~occupied[s]
      BY <1>m, <2>2, <2>9, <3>2
    <3> QED
      BY <3>1, <3>2
  <2>10. /\ entries' \in [Slot -> Entry]
         /\ entries'[s] = [addr |-> addr, frame |-> frame] /\ entries'[s] # NoEntry
         /\ \A t \in Slot : t # s => entries'[t] = entries[t]
    <3>1. [addr |-> addr, frame |-> frame] \in [addr : Nat \ {0}, frame : Frame]
      BY <2>7
    <3> QED
      BY <1>t, <2>5, <3>1, MemoryAssumption DEF Entry
  <2>11. /\ occupied' \in [Slot -> BOOLEAN] /\ occupied'[s]
         /\ \A t \in Slot : t # s => (occupied'[t] <=> occupied[t])
    BY <1>t, <2>5
  <2>12. /\ DOMAIN scratch' = DOMAIN freed \cup {addr} /\ scratch'[addr] = frame
         /\ \A a \in DOMAIN freed : scratch'[a] = scratch[a]
    BY <2>5, <2>6, <2>7
  <2>13. Recency' /\ order' \in Seq(Slot) /\ uses' \in Seq(Slot)
    <3>1. \A t \in Slot : occupied'[t] <=> occupied[t] \/ t = s
      BY <2>11, Zenon
    <3> QED
      BY <2>4, <2>5, <3>1, UsedNext
  <2>14. PoolType'
    <3>1. IsFiniteSet(DOMAIN scratch')
      BY <2>6, <2>12, FS_AddElement
    <3>2. \A a \in DOMAIN scratch' : a \in Nat \ {0} /\ scratch'[a] \in Frame
      BY <1>t, <2>6, <2>7, <2>12
    <3> QED
      BY <2>10, <2>11, <2>13, <3>1, <3>2 DEF PoolType
  <2>15. Mapping'
    <3>1. \A t \in Slot : occupied'[t] <=> entries'[t] # NoEntry
      BY <1>m, <2>10, <2>11
    <3>2. \A t \in Slot : occupied'[t] => /\ entries'[t].addr \in DOMAIN scratch'
                                          /\ scratch'[entries'[t].addr] = entries'[t].frame
      <4> SUFFICES ASSUME NEW t \in Slot, occupied'[t]
                   PROVE  /\ entries'[t].addr \in DOMAIN scratch'
                          /\ scratch'[entries'[t].addr] = entries'[t].frame
        OBVIOUS
      <4>1. CASE t = s
        BY <2>10, <2>12, <4>1
      <4>2. CASE t # s
        <5>1. occupied[t] /\ entries'[t] = entries[t]
          BY <2>10, <2>11, <4>2
        <5> QED
          BY <1>m, <2>9, <2>12, <4>2, <5>1
      <4> QED
        BY <4>1, <4>2
    <3>3. ASSUME NEW t \in Slot, NEW u \in Slot, occupied'[t], occupied'[u], t # u
          PROVE  entries'[t].frame # entries'[u].frame
      BY <1>m, <2>8, <2>10, <2>11, <3>3
    <3> QED
      BY <3>1, <3>2, <3>3 DEF Mapping
  <2>16. Strays' \subseteq Strays
    <3> SUFFICES ASSUME NEW a \in DOMAIN scratch', a \notin Held'
                 PROVE  a \in DOMAIN scratch /\ a \notin Held
      BY DEF Strays
    <3>1. a # addr /\ a \in DOMAIN freed
      BY <2>10, <2>12 DEF Held
    <3>2. \A t \in Slot : t # s /\ entries[t] # NoEntry => a # entries[t].addr
      BY <2>10 DEF Held
    <3>3. entries[s] # NoEntry => a # entries[s].addr
      <4> SUFFICES ASSUME entries[s] # NoEntry PROVE a # entries[s].addr
        OBVIOUS
      <4>1. occupied[s]
        BY <1>m
      <4>2. freed = WithoutAddr(entries[s].addr)
        BY <2>2, <4>1
      <4> QED
        BY <3>1, <4>2, WithoutMapping
    <3> QED
      BY <2>6, <3>1, <3>2, <3>3 DEF Held
  <2> QED
    BY <2>4, <2>5, <2>10, <2>12, <2>13, <2>14, <2>15, <2>16
<1> QED
  BY <1>1, <1>2

\* An acquire that fails keeps the types and takes one failure; a mapping is
\* left behind only by an unmapping that failed, and one at most.
LEMMA AcquireFails ==
  ASSUME PoolType, Mapping, Recency, NEW frame \in Frame, acquire(frame), ~ok', uses' = uses
  PROVE  /\ PoolType' /\ failures < MaxFailures /\ failures' = failures + 1
         /\ \/ unmap_failed' = unmap_failed /\ Strays' \subseteq Strays
            \/ unmap_failed' = unmap_failed + 1 /\ \E a : Strays' \subseteq Strays \cup {a}
<1>t. /\ IsFiniteSet(DOMAIN scratch)
      /\ \A a \in DOMAIN scratch : a \in Nat \ {0} /\ scratch[a] \in Frame
      /\ entries \in [Slot -> Entry] /\ occupied \in [Slot -> BOOLEAN]
      /\ order \in Seq(Slot) /\ uses \in Seq(Slot)
  BY DEF PoolType
<1>m. \A s \in Slot : entries[s] # NoEntry => occupied[s]
  BY DEF Mapping
<1>1. AcquireNew(frame)
  BY DEF acquire, AcquireHit
<1>2. PICK s \in Slot : s = pick_slot
  BY PickedSlot
<1>3. PICK freed : freed = IF occupied[s] THEN WithoutAddr(entries[s].addr) ELSE scratch
  OBVIOUS
<1>4. PICK addr : addr = Min((1..(Cardinality(DOMAIN freed) + 1)) \ DOMAIN freed)
  OBVIOUS
<1>5. NewMapped(frame, s, freed, addr) \/ MapFailed(s, freed) \/ UnmapFailed(s)
  BY <1>1, <1>2, <1>3, <1>4, AcquireNewCases
<1>6. MapFailed(s, freed) \/ UnmapFailed(s)
  BY <1>5 DEF NewMapped
<1>7. /\ IsFiniteSet(DOMAIN freed) /\ DOMAIN freed \subseteq DOMAIN scratch
      /\ \A a \in DOMAIN freed : freed[a] = scratch[a]
  BY <1>t, <1>3, WithoutMapping, ZenonT(60)
<1>8. /\ entries' = [entries EXCEPT ![s] = NoEntry]
      /\ failures < MaxFailures /\ failures' = failures + 1 /\ order' = order
  BY <1>6 DEF MapFailed, UnmapFailed, Fails
<1>9. /\ entries' \in [Slot -> Entry] /\ entries'[s] = NoEntry
      /\ \A t \in Slot : t # s => entries'[t] = entries[t]
  BY <1>t, <1>8 DEF Entry
<1>10. \A a \in Held : a \in Held' \/ (entries[s] # NoEntry /\ a = entries[s].addr)
  BY <1>9 DEF Held
<1>11. CASE MapFailed(s, freed)
  <2>1. /\ scratch' = freed /\ occupied' = [occupied EXCEPT ![s] = FALSE]
        /\ unmap_failed' = unmap_failed
    BY <1>11 DEF MapFailed
  <2>2. occupied' \in [Slot -> BOOLEAN]
    BY <1>t, <2>1
  <2>3. PoolType'
    BY <1>t, <1>7, <1>8, <1>9, <2>1, <2>2 DEF PoolType
  <2>4. Strays' \subseteq Strays
    <3> SUFFICES ASSUME NEW a \in DOMAIN freed, a \notin Held' PROVE a \notin Held
      BY <1>7, <2>1 DEF Strays
    <3>1. entries[s] # NoEntry => a # entries[s].addr
      BY <1>m, <1>3, WithoutMapping, ZenonT(60)
    <3> QED
      BY <1>10, <3>1
  <2> QED
    BY <1>8, <2>1, <2>3, <2>4
<1>12. CASE UnmapFailed(s)
  <2>1. scratch' = scratch /\ occupied' = occupied /\ unmap_failed' = unmap_failed + 1
    BY <1>12 DEF UnmapFailed
  <2>2. PoolType'
    BY <1>t, <1>8, <1>9, <2>1 DEF PoolType
  <2>3. Strays' \subseteq Strays \cup {entries[s].addr}
    BY <1>10, <2>1 DEF Strays
  <2> QED
    BY <1>8, <2>1, <2>2, <2>3
<1> QED
  BY <1>6, <1>11, <1>12

(***************************************************************************)
(* The mappings that no slot has                                           *)
(***************************************************************************)
\* The pool holds at most one mapping per slot.
LEMMA HeldBound ==
  ASSUME PoolType
  PROVE  IsFiniteSet(Held) /\ Cardinality(Held) <= Slots /\ Cardinality(Held) \in Nat
<1> DEFINE X == {x \in Slot : entries[x] # NoEntry}
           f == [x \in X |-> entries[x].addr]
<1>1. IsFiniteSet(Slot) /\ Cardinality(Slot) = Slots
  BY FS_Interval, BoundAssumption DEF Slot
<1>2. IsFiniteSet(X) /\ Cardinality(X) <= Slots
  BY <1>1, FS_Subset
<1>3. f \in Surjection(X, Held)
  BY DEF Held, Surjection
<1>4. IsFiniteSet(Held) /\ Cardinality(Held) <= Cardinality(X)
  BY <1>2, <1>3, FS_Surjection
<1>5. Cardinality(Held) \in Nat /\ Cardinality(X) \in Nat
  BY <1>2, <1>4, FS_CardinalityType
<1> QED
  BY <1>2, <1>4, <1>5, BoundAssumption

\* The bound survives a step that takes strays away, or that adds at most as
\* many as there are slots and counts one more failed unmapping.
LEMMA StraysNext ==
  ASSUME StrayBound, IsFiniteSet(DOMAIN scratch), unmap_failed \in Nat,
         NEW more, IsFiniteSet(more), Cardinality(more) <= Slots,
         \/ unmap_failed' = unmap_failed /\ Strays' \subseteq Strays
         \/ unmap_failed' = unmap_failed + 1 /\ Strays' \subseteq Strays \cup more
  PROVE  StrayBound'
<1>1. IsFiniteSet(Strays) /\ Cardinality(Strays) \in Nat
  BY FS_Subset, FS_CardinalityType DEF Strays
<1>2. CASE unmap_failed' = unmap_failed /\ Strays' \subseteq Strays
  <2>1. IsFiniteSet(Strays') /\ Cardinality(Strays') <= Cardinality(Strays)
    BY <1>1, <1>2, FS_Subset
  <2>2. Cardinality(Strays') \in Nat
    BY <2>1, FS_CardinalityType
  <2>3. Slots * unmap_failed \in Nat
    BY BoundAssumption
  <2> QED
    BY <1>1, <1>2, <2>1, <2>2, <2>3 DEF StrayBound
<1>3. CASE unmap_failed' = unmap_failed + 1 /\ Strays' \subseteq Strays \cup more
  <2>1. PICK all : all = Strays \cup more
    OBVIOUS
  <2>2. /\ IsFiniteSet(all)
        /\ Cardinality(all) =
             Cardinality(Strays) + Cardinality(more) - Cardinality(Strays \cap more)
    BY <1>1, <2>1, FS_Union
  <2>3. IsFiniteSet(Strays') /\ Cardinality(Strays') <= Cardinality(all)
    BY <1>3, <2>1, <2>2, FS_Subset
  <2>4. IsFiniteSet(Strays \cap more)
    BY <1>1, FS_Subset
  <2>5. /\ Cardinality(Strays') \in Nat /\ Cardinality(all) \in Nat
        /\ Cardinality(more) \in Nat /\ Cardinality(Strays \cap more) \in Nat
    BY <2>2, <2>3, <2>4, FS_CardinalityType
  <2>6. PICK n \in Nat : n = Slots * unmap_failed
    BY BoundAssumption
  <2>7. Slots * (unmap_failed + 1) = n + Slots
    BY <2>6, BoundAssumption
  <2>8. Cardinality(Strays) <= n
    BY <2>6 DEF StrayBound
  <2>9. Cardinality(Strays') <= n + Slots
    BY <1>1, <2>2, <2>3, <2>5, <2>8, BoundAssumption
  <2>10. Cardinality(Strays') <= Slots * unmap_failed'
    BY <1>3, <2>7, <2>9
  <2> QED
    BY <2>10 DEF StrayBound
<1> QED
  BY <1>2, <1>3

\* release_all, with the pool dropped: what is left behind is no more than a
\* pool, and only after an unmapping that failed.
LEMMA Released ==
  ASSUME PoolType, StrayBound, unmap_failed \in Nat, NEW stop \in Slot \cup {Slots + 1},
         release_all(stop), NewPool, uses' = <<>>
  PROVE  /\ PoolType' /\ StrayBound' /\ (\A s \in Slot : entries'[s] = NoEntry)
         /\ \/ stop \notin Slot /\ UNCHANGED <<failures, unmap_failed>>
            \/ /\ stop \in Slot /\ failures < MaxFailures /\ failures' = failures + 1
               /\ unmap_failed' = unmap_failed + 1
<1>1. /\ entries' = [s \in Slot |-> NoEntry] /\ occupied' = [s \in Slot |-> FALSE]
      /\ order' = <<>>
  BY DEF NewPool
<1>2. /\ entries' \in [Slot -> Entry] /\ occupied' \in [Slot -> BOOLEAN]
      /\ order' \in Seq(Slot) /\ uses' \in Seq(Slot) /\ \A s \in Slot : entries'[s] = NoEntry
  BY <1>1 DEF Entry
<1>3. PICK gone : gone = {entries[s].addr : s \in {x \in Slot : x < stop /\ entries[x] # NoEntry}}
  OBVIOUS
<1>4. scratch' = [a \in DOMAIN scratch \ gone |-> scratch[a]]
  BY <1>3 DEF release_all
<1>5. DOMAIN scratch' = DOMAIN scratch \ gone
  BY <1>4
<1>6. IsFiniteSet(DOMAIN scratch')
  BY <1>5, FS_Subset DEF PoolType
<1>7. PoolType'
  <2>1. \A a \in DOMAIN scratch' : a \in Nat \ {0} /\ scratch'[a] \in Frame
    BY <1>4, <1>5 DEF PoolType
  <2> QED
    BY <1>2, <1>6, <2>1 DEF PoolType
<1>8. Held' = {} /\ Strays' = DOMAIN scratch \ gone
  BY <1>2, <1>5 DEF Held, Strays
<1>9. \/ stop \notin Slot /\ UNCHANGED <<failures, unmap_failed>>
      \/ /\ stop \in Slot /\ failures < MaxFailures /\ failures' = failures + 1
         /\ unmap_failed' = unmap_failed + 1
  BY DEF release_all, Fails
<1>10. IsFiniteSet(Held) /\ Cardinality(Held) <= Slots
  BY HeldBound
<1>11. CASE stop \notin Slot
  <2>1. stop = Slots + 1
    BY <1>11
  <2>2. \A x \in Slot : x < stop
    BY <2>1, BoundAssumption DEF Slot
  <2>3. Held \subseteq gone
    BY <1>3, <2>2 DEF Held
  <2>4. Strays' \subseteq Strays /\ unmap_failed' = unmap_failed
    BY <1>8, <1>9, <1>11, <2>3 DEF Strays
  <2>5. StrayBound'
    BY <1>10, <2>4, StraysNext DEF PoolType
  <2> QED
    BY <1>2, <1>7, <1>9, <2>5
<1>12. CASE stop \in Slot
  <2>1. Strays' \subseteq Strays \cup Held /\ unmap_failed' = unmap_failed + 1
    BY <1>8, <1>9, <1>12 DEF Strays
  <2>2. StrayBound'
    BY <1>10, <2>1, StraysNext DEF PoolType
  <2> QED
    BY <1>2, <1>7, <1>9, <2>2
<1> QED
  BY <1>11, <1>12

\* Outside of sessions, a step that leaves the pool and the mappings alone keeps
\* what is said of them.
LEMMA PoolKept ==
  ASSUME PoolType, PoolEmpty, StrayBound, phase \notin {"copy", "release"}, phase' # "copy",
         UNCHANGED <<scratch, pool, unmap_failed>>, uses' \in Seq(Slot)
  PROVE  PoolType' /\ PoolInUse' /\ PoolEmpty' /\ StrayBound'
<1>1. PoolType'
  BY DEF PoolType, pool
<1>2. PoolInUse' /\ PoolEmpty'
  BY DEF PoolInUse, PoolEmpty, pool
<1>3. StrayBound'
  BY DEF StrayBound, Strays, Held, pool
<1> QED
  BY <1>1, <1>2, <1>3

\* A session opens with an empty pool, and what was left behind stays behind.
LEMMA SessionOpens ==
  ASSUME PoolType, PoolEmpty, StrayBound, phase \notin {"copy", "release"},
         NEW addresses, NEW bytes, OpenSession(addresses, bytes),
         UNCHANGED <<scratch, unmap_failed>>
  PROVE  PoolType' /\ PoolInUse' /\ PoolEmpty' /\ StrayBound'
<1>1. /\ entries' = [s \in Slot |-> NoEntry] /\ occupied' = [s \in Slot |-> FALSE]
      /\ order' = <<>> /\ phase' = "copy" /\ uses' = <<>>
  BY DEF OpenSession, NewPool
<1>2. /\ \A s \in Slot : entries'[s] = NoEntry /\ ~occupied'[s]
      /\ entries' \in [Slot -> Entry] /\ occupied' \in [Slot -> BOOLEAN]
      /\ order' \in Seq(Slot) /\ uses' \in Seq(Slot)
  BY <1>1 DEF Entry
<1>3. PoolType'
  BY <1>2 DEF PoolType
<1>4. Mapping'
  BY <1>2 DEF Mapping
<1>5. Recency'
  <2>1. DOMAIN order' = {}
    BY <1>1
  <2> QED
    BY <1>2, <2>1 DEF Recency
<1>6. Held' = {} /\ Held = {}
  BY <1>2 DEF Held, PoolEmpty
<1>7. StrayBound'
  BY <1>6 DEF StrayBound, Strays
<1> QED
  BY <1>1, <1>3, <1>4, <1>5, <1>7 DEF PoolInUse, PoolEmpty

(***************************************************************************)
(* The turns of a read or a write                                          *)
(***************************************************************************)
\* A turn asks for at least one byte of the buffer it is at.
LEMMA ChunkSize ==
  ASSUME CallType, call.iov # <<>>
  PROVE  /\ Head(call.iov) \in Iovec /\ Tail(call.iov) \in Seq(Iovec)
         /\ Chunk \in Nat \ {0} /\ Chunk <= RwChunk /\ Chunk <= Head(call.iov).len
<1>1. call.iov \in Seq(Iovec)
  BY DEF CallType
<1>2. Head(call.iov) \in Iovec /\ Tail(call.iov) \in Seq(Iovec)
  BY <1>1
<1>3. Head(call.iov).len \in Nat \ {0}
  BY <1>2 DEF Iovec
<1> QED
  BY <1>2, <1>3, BoundAssumption DEF Chunk, Lesser

\* What is left of the buffers are buffers.
LEMMA AfterType ==
  ASSUME CallType, call.iov # <<>>, NEW n \in Nat, n <= Chunk
  PROVE  After(call.iov, n) \in Seq(Iovec)
<1>1. /\ Head(call.iov) \in Iovec /\ Tail(call.iov) \in Seq(Iovec)
      /\ Chunk \in Nat /\ Chunk <= Head(call.iov).len
  BY ChunkSize
<1>2. PICK b \in Nat \ {0}, l \in Nat \ {0} : b = Head(call.iov).base /\ l = Head(call.iov).len
  BY <1>1 DEF Iovec
<1>3. CASE n = l
  BY <1>1, <1>2, <1>3 DEF After
<1>4. CASE n # l
  <2>1. b + n \in Nat \ {0} /\ l - n \in Nat \ {0}
    BY <1>1, <1>2, <1>4, SMTT(60)
  <2>2. PICK v \in Iovec : v = [base |-> b + n, len |-> l - n]
    BY <2>1 DEF Iovec
  <2>3. After(call.iov, n) = <<v>> \o Tail(call.iov)
    BY <1>2, <1>4, <2>2 DEF After
  <2> QED
    BY <1>1, <2>3
<1> QED
  BY <1>3, <1>4

\* A call that ends here has counted what it moved; a failed read of a pipe has
\* taken at most a chunk that it has not counted.
LEMMA Ended ==
  ASSUME CallType, CallShape, Offsets, PipeTaken, phase \in {"rw", "release", "send"},
         NEW good \in BOOLEAN, CallEnds(good), good => call.op # "read" \/ phase = "rw",
         UNCHANGED <<began, buf>>
  PROVE  CallShape' /\ Offsets' /\ PipeTaken'
<1>1. phase' = "return" /\ ok' = good /\ fds' = fds /\ call' = call
  BY DEF CallEnds
<1>2. CallShape'
  BY <1>1 DEF CallShape, Rw
<1>3. Offsets'
  BY <1>1 DEF Offsets, Rw
<1>4. PipeTaken'
  <2> SUFFICES ASSUME call.op = "read", fds[call.fd] # Closed, fds[call.fd].file = "rd"
               PROVE  /\ buf = SubSeq(began.buf, Taken + 1, Len(began.buf))
                      /\ Taken \in call.total..(call.total + RwChunk)
                      /\ good => Taken = call.total
    BY <1>1 DEF PipeTaken, Taken
  <2>1. /\ buf = SubSeq(began.buf, Taken + 1, Len(began.buf))
        /\ phase = "rw" => Taken = call.total
        /\ phase = "release" => Taken = call.total + Len(kbuf)
    BY DEF PipeTaken
  <2>2. phase \in {"rw", "release"} /\ call.iov # <<>>
    BY DEF CallShape, Rw
  <2>3. Chunk \in Nat /\ Chunk <= RwChunk
    BY <2>2, ChunkSize
  <2>4. phase = "release" => Len(kbuf) <= Chunk
    BY DEF CallShape
  <2>5. call.total \in Nat /\ Len(kbuf) \in Nat /\ RwChunk \in Nat
    BY BoundAssumption DEF CallType
  <2> QED
    BY <2>1, <2>2, <2>3, <2>4, <2>5
<1> QED
  BY <1>2, <1>3, <1>4

\* A turn that moves n bytes moves the offset and the count together, and goes
\* on only while there is a buffer.
LEMMA Advanced ==
  ASSUME DataType, CallType, CallShape, Offsets, PipeTaken, Rw, phase \in {"release", "send"},
         NEW n \in Nat, n <= Chunk, Advance(n), UNCHANGED <<began, kbuf>>,
         call.op = "read" => phase = "release" /\ n = Len(kbuf) /\ buf' = buf
  PROVE  /\ fds' \in [Fd -> Handle \cup {Closed}]
         /\ call' \in [op : {"none", "read", "write", "execve"}, fd : Fd \cup {0},
                       iov : Seq(Iovec), total : Nat]
         /\ phase' \in {"rw", "return"} /\ ok' = TRUE
         /\ CallShape' /\ Offsets' /\ PipeTaken'
<1>1. call.fd \in Fd /\ call.iov # <<>> /\ fds[call.fd] # Closed
  BY DEF CallShape, Rw
<1>2. fds \in [Fd -> Handle \cup {Closed}] /\ fds[call.fd] \in Handle
  BY <1>1 DEF DataType
<1>3. After(call.iov, n) \in Seq(Iovec)
  BY <1>1, AfterType
<1>4. /\ fds' = [fds EXCEPT ![call.fd].offset = @ + n]
      /\ call' = [call EXCEPT !.total = @ + n, !.iov = After(@, n)]
      /\ phase' = IF n = Chunk /\ call'.iov # <<>> THEN "rw" ELSE "return"
      /\ ok' = TRUE
  BY DEF Advance, Moved
<1>c. /\ call \in [op : {"none", "read", "write", "execve"}, fd : Fd \cup {0},
                   iov : Seq(Iovec), total : Nat]
      /\ call.total \in Nat
  BY DEF CallType
<1>5. /\ call'.op = call.op /\ call'.fd = call.fd /\ call'.total = call.total + n
      /\ call'.iov = After(call.iov, n)
      /\ call' \in [op : {"none", "read", "write", "execve"}, fd : Fd \cup {0},
                    iov : Seq(Iovec), total : Nat]
  <2>1. PICK a \in Seq(Iovec), t \in Nat : a = After(call.iov, n) /\ t = call.total + n
    BY <1>c, <1>3
  <2>2. call' = [call EXCEPT !.total = t, !.iov = a]
    BY <1>4, <2>1, Zenon
  <2>3. PICK c : c = [call EXCEPT !.total = t, !.iov = a]
    OBVIOUS
  <2>4. /\ c.op = call.op /\ c.fd = call.fd /\ c.total = t /\ c.iov = a
        /\ c \in [op : {"none", "read", "write", "execve"}, fd : Fd \cup {0},
                 iov : Seq(Iovec), total : Nat]
    BY <1>c, <2>1, <2>3
  <2> QED
    BY <2>1, <2>2, <2>3, <2>4
<1>6. /\ fds' \in [Fd -> Handle \cup {Closed}] /\ fds'[call.fd] \in Handle
      /\ fds'[call.fd].offset = fds[call.fd].offset + n /\ fds[call.fd].offset \in Nat
      /\ fds'[call.fd].file = fds[call.fd].file
  BY <1>1, <1>2, <1>4 DEF Handle
<1>7. phase' \in {"rw", "return"} /\ (phase' = "rw" => call'.iov # <<>>)
  BY <1>4
<1>8. CallShape'
  BY <1>1, <1>5, <1>6, <1>7 DEF CallShape, Rw
<1>9. Offsets'
  <2>1. fds[call.fd].offset = began.offset + call.total
    BY <1>1 DEF Offsets
  <2>2. fds'[call'.fd].offset = began'.offset + call'.total
    BY <1>c, <1>5, <1>6, <2>1, SMTT(60) DEF CallType
  <2> QED
    BY <2>2 DEF Offsets
<1>10. PipeTaken'
  <2> SUFFICES ASSUME call.op = "read", fds[call.fd].file = "rd"
               PROVE  /\ buf = SubSeq(began.buf, Taken + 1, Len(began.buf))
                      /\ Taken = call.total + n
                      /\ Taken \in (call.total + n)..(call.total + n + RwChunk)
    BY <1>5, <1>6, <1>7 DEF PipeTaken, Taken
  <2>1. /\ buf = SubSeq(began.buf, Taken + 1, Len(began.buf))
        /\ Taken = call.total + Len(kbuf)
    BY <1>1 DEF PipeTaken
  <2> QED
    BY <1>c, <2>1, BoundAssumption, SMTT(60)
<1> QED
  BY <1>4, <1>5, <1>6, <1>7, <1>8, <1>9, <1>10

\* Taking g more bytes from the rest of a sequence leaves the rest of the rest.
LEMMA RestOfRest ==
  ASSUME NEW S, NEW q \in Seq(S), NEW t \in Nat, t <= Len(q),
         NEW b, b = SubSeq(q, t + 1, Len(q)), NEW g \in Nat, g <= Len(b)
  PROVE  /\ SubSeq(b, g + 1, Len(b)) \in Seq(S)
         /\ Len(SubSeq(b, g + 1, Len(b))) = Len(b) - g /\ Len(b) = Len(q) - t
         /\ SubSeq(b, g + 1, Len(b)) = SubSeq(q, (t + g) + 1, Len(q))
<1>1. b \in Seq(S) /\ Len(b) = Len(q) - t /\ \A i \in 1..(Len(q) - t) : b[i] = q[t + i]
  OBVIOUS
<1>2. PICK u : u = SubSeq(b, g + 1, Len(b))
  OBVIOUS
<1>3. u \in Seq(S) /\ Len(u) = Len(b) - g /\ \A i \in 1..(Len(b) - g) : u[i] = b[g + i]
  BY <1>1, <1>2
<1>4. PICK v : v = SubSeq(q, (t + g) + 1, Len(q))
  OBVIOUS
<1>5. /\ v \in Seq(S) /\ Len(v) = Len(q) - (t + g)
      /\ \A i \in 1..(Len(q) - (t + g)) : v[i] = q[(t + g) + i]
  BY <1>1, <1>4
<1>6. Len(u) = Len(v)
  BY <1>1, <1>3, <1>5
<1>7. ASSUME NEW i \in 1..Len(u) PROVE u[i] = v[i]
  <2>1. i \in 1..(Len(b) - g) /\ g + i \in 1..(Len(q) - t) /\ i \in 1..(Len(q) - (t + g))
    BY <1>1, <1>3
  <2>2. u[i] = q[t + (g + i)] /\ v[i] = q[(t + g) + i]
    BY <1>1, <1>3, <1>5, <2>1
  <2>3. t + (g + i) = (t + g) + i
    BY <2>1
  <2> QED
    BY <2>2, <2>3
<1>8. u = v
  BY <1>3, <1>5, <1>6, <1>7, SeqEqual
<1> QED
  BY <1>1, <1>2, <1>3, <1>4, <1>8

\* The bytes a read gets are at most the chunk, whatever is behind the handle;
\* a pipe gives them from its head.
LEMMA ReadBytes ==
  ASSUME DataType, NEW h \in Handle, Chunk \in Nat
  PROVE  /\ FileRead(h) \in Seq(Byte) /\ Len(FileRead(h)) <= Chunk
         /\ h.file = "rd" => Len(FileRead(h)) <= Len(buf)
<1>1. h.offset \in Nat
  BY DEF Handle
<1>2. content \in Seq(Byte) /\ buf \in Seq(Byte)
  BY DEF DataType
<1>3. CASE h.file = "reg"
  <2>1. PICK e \in Nat : e = Lesser(h.offset + Chunk, Len(content))
    BY <1>1, <1>2 DEF Lesser
  <2>2. e <= h.offset + Chunk /\ e <= Len(content)
    BY <1>1, <1>2, <2>1 DEF Lesser
  <2>3. FileRead(h) = SubSeq(content, h.offset + 1, e)
    BY <1>3, <2>1 DEF FileRead
  <2>4. SubSeq(content, h.offset + 1, e) \in Seq(Byte)
    BY <1>1, <1>2, <2>2
  <2>5. Len(SubSeq(content, h.offset + 1, e)) =
          IF h.offset + 1 <= e THEN e - h.offset ELSE 0
    <3>1. PICK o \in Nat : o = h.offset
      BY <1>1
    <3>2. \A i \in (o + 1)..e : content[i] \in Byte
      BY <1>2, <2>2
    <3>3. Len(SubSeq(content, o + 1, e)) = IF o + 1 <= e THEN e - (o + 1) + 1 ELSE 0
      BY <3>2, SubSeqProperties
    <3> QED
      BY <3>1, <3>3
  <2> QED
    BY <1>1, <1>3, <2>2, <2>3, <2>4, <2>5
<1>4. CASE h.file # "reg"
  <2>1. PICK e \in Nat : e = Lesser(Chunk, Len(buf))
    BY <1>2 DEF Lesser
  <2>2. e <= Chunk /\ e <= Len(buf)
    BY <1>2, <2>1 DEF Lesser
  <2>3. FileRead(h) = SubSeq(buf, 1, e)
    BY <1>4, <2>1 DEF FileRead, pipe_read
  <2>4. SubSeq(buf, 1, e) \in Seq(Byte) /\ Len(SubSeq(buf, 1, e)) = e
    BY <1>2, <2>2
  <2> QED
    BY <2>2, <2>3, <2>4
<1> QED
  BY <1>3, <1>4

\* The addresses of a session's pages.
LEMMA PagesType ==
  ASSUME NEW base \in Nat \ {0}, NEW n \in Nat
  PROVE  Pages(base, n) \in Seq(Nat \ {0}) /\ Len(Pages(base, n)) = n
<1>1. Pages(base, n) \in [1..n -> Nat \ {0}]
  BY DEF Pages
<1>2. [1..n -> Nat \ {0}] \subseteq Seq(Nat \ {0})
  OBVIOUS
<1> QED
  BY <1>1, <1>2 DEF Pages

(***************************************************************************)
(* The invariant                                                           *)
(***************************************************************************)
\* The invariant holds before the first call.
LEMMA IoInit == Init => IInv
<1> SUFFICES ASSUME Init PROVE IInv
  OBVIOUS
<1> USE DEF Init
<1>1. DataType
  BY BoundAssumption, MemoryAssumption DEF DataType
<1>2. DOMAIN scratch = {} /\ \A s \in Slot : entries[s] = NoEntry
  OBVIOUS
<1>3. PoolType
  BY <1>2, FS_EmptySet DEF PoolType, Entry
<1>4. CallType
  <2>1. call \in [op : {"none", "read", "write", "execve"}, fd : Fd \cup {0}, iov : Seq(Iovec),
                  total : Nat]
    BY DEF NoCall
  <2>2. began.offset \in Nat /\ began.buf \in Seq(Byte)
    BY DEF NoBegan
  <2> QED
    BY <2>1, <2>2, BoundAssumption DEF CallType
<1>5. CallShape /\ PoolInUse /\ PoolEmpty /\ Offsets /\ PipeTaken
  BY <1>2 DEF CallShape, PoolInUse, PoolEmpty, Offsets, PipeTaken, Rw, NoCall
<1>6. StrayBound
  <2>1. Strays = {}
    BY <1>2 DEF Strays
  <2>2. Cardinality(Strays) = 0
    BY <2>1, FS_EmptySet
  <2> QED
    BY <2>2, BoundAssumption DEF StrayBound
<1> QED
  BY <1>1, <1>3, <1>4, <1>5, <1>6 DEF IInv

\* A page copied, or not.
LEMMA StepCopyPage == IInv /\ CopyPage => IInv'
<1> SUFFICES ASSUME IInv, CopyPage PROVE IInv'
  OBVIOUS
<1>i. DataType /\ PoolType /\ CallType /\ CallShape /\ StrayBound /\ Offsets /\ PipeTaken
  BY DEF IInv
<1>p. phase = "copy" /\ Mapping /\ Recency
  BY DEF IInv, PoolInUse, CopyPage
<1>s. todo \in Seq(Nat \ {0}) /\ todo # <<>> /\ kbuf \in Seq(Byte)
  BY <1>i, <1>p DEF CallShape, CallType
<1>1. PICK page : page = UserMap[Head(todo)].frame
  OBVIOUS
<1>2. page \in Frame
  BY <1>1, MemoryAssumption DEF CopyPage, Mapped
<1>3. acquire(page) /\ UNCHANGED <<data, call, began, calls>>
  BY <1>1 DEF CopyPage
<1>u. UNCHANGED <<fds, content, buf, call, began, calls>>
  BY <1>3 DEF data
<1>4. CASE ok'
  <2>1. PICK slot : slot = Acquired(page)
    OBVIOUS
  <2>2. PICK frame : frame = scratch'[entries'[slot].addr]
    OBVIOUS
  <2>3. /\ IF call.op = "read" THEN copy_to_user(frame) ELSE copy_from_user(frame)
        /\ todo' = Tail(todo) /\ uses' = Append(uses, slot)
        /\ phase' = IF todo' = <<>> THEN "release" ELSE "copy"
    BY <1>1, <1>4, <2>1, <2>2 DEF CopyPage
  <2>4. /\ PoolType' /\ Mapping' /\ Recency' /\ Strays' \subseteq Strays
        /\ frame = page /\ UNCHANGED <<failures, unmap_failed>>
    BY <1>i, <1>p, <1>2, <1>3, <1>4, <2>1, <2>2, <2>3, AcquireOk
  <2>5. StrayBound'
    <3>1. IsFiniteSet({}) /\ Cardinality({}) <= Slots
      BY FS_EmptySet, BoundAssumption
    <3>2. unmap_failed \in Nat /\ IsFiniteSet(DOMAIN scratch) /\ unmap_failed' = unmap_failed
      BY <1>i, <2>4, BoundAssumption DEF CallType, PoolType
    <3> QED
      BY <1>i, <2>4, <3>1, <3>2, StraysNext
  <2>6. /\ todo' \in Seq(Nat \ {0}) /\ Len(todo') = Len(todo) - 1 /\ Len(todo) \in Nat \ {0}
        /\ phase' = "copy" => todo' # <<>>
        /\ phase' \in {"copy", "release"}
    BY <1>s, <2>3
  <2>7. CASE call.op = "read"
    <3>1. mem' = [mem EXCEPT ![frame] = kbuf[Len(kbuf) - Len(todo) + 1]] /\ kbuf' = kbuf
      BY <2>3, <2>7 DEF copy_to_user
    <3>2. Len(todo) <= Len(kbuf) /\ Len(kbuf) <= Chunk /\ Chunk' = Chunk
      BY <1>i, <1>p, <1>u, <2>7 DEF CallShape, Chunk
    <3>3. kbuf[Len(kbuf) - Len(todo) + 1] \in Byte
      <4>1. Len(kbuf) - Len(todo) + 1 \in 1..Len(kbuf)
        BY <1>s, <2>6, <3>2
      <4> QED
        BY <1>s, <4>1
    <3>4. DataType'
      <4>1. mem' \in [Frame -> Byte]
        BY <1>i, <3>1, <3>3 DEF DataType
      <4> QED
        BY <1>i, <1>u, <4>1 DEF DataType
    <3>5. CallShape'
      BY <1>i, <1>s, <1>p, <1>u, <2>6, <2>7, <3>1, <3>2 DEF CallShape, Rw
    <3>6. kbuf' \in Seq(Byte) /\ Len(kbuf') = Len(kbuf)
      BY <1>s, <3>1
    <3>7. CallType' /\ Offsets' /\ PipeTaken'
      BY <1>i, <1>p, <1>u, <1>4, <2>4, <2>6, <3>6 DEF CallType, Offsets, PipeTaken, Taken, Rw
    <3> QED
      BY <2>4, <2>5, <2>6, <3>4, <3>5, <3>7 DEF IInv, PoolInUse, PoolEmpty
  <2>8. CASE call.op # "read"
    <3>1. kbuf' = Append(kbuf, mem[frame]) /\ mem' = mem
      BY <2>3, <2>8 DEF copy_from_user
    <3>2. mem[frame] \in Byte
      BY <1>i, <1>2, <2>4 DEF DataType
    <3>3. kbuf' \in Seq(Byte) /\ Len(kbuf') = Len(kbuf) + 1
      BY <1>s, <3>1, <3>2
    <3>4. DataType'
      BY <1>i, <1>u, <3>1 DEF DataType
    <3>5. CallShape'
      <4>1. call.op = "write" => Len(kbuf) + Len(todo) <= Chunk
        BY <1>i, <1>p DEF CallShape
      <4>2. Chunk' = Chunk
        BY <1>u DEF Chunk
      <4>3. call.op = "write" => call.iov # <<>>
        BY <1>i, <1>p DEF CallShape, Rw
      <4>4. call.op = "write" => Chunk \in Nat
        BY <1>i, <4>3, ChunkSize
      <4>5. call.op = "write" => Len(kbuf') + Len(todo') <= Chunk /\ Len(kbuf') <= Chunk
        BY <1>s, <2>6, <3>3, <4>1, <4>4
      <4>6. /\ call'.op = call.op /\ phase' \in {"copy", "release"}
            /\ phase' = "copy" => todo' # <<>>
        BY <1>u, <2>6
      <4>7. Rw => call.fd \in Fd /\ call.iov # <<>> /\ fds[call.fd] # Closed
        BY <1>i, <1>p DEF CallShape, Rw
      <4> QED
        BY <1>u, <2>8, <4>2, <4>5, <4>6, <4>7 DEF CallShape, Rw
    <3>6. CallType' /\ Offsets' /\ PipeTaken'
      BY <1>i, <1>p, <1>u, <1>4, <2>4, <2>6, <2>8, <3>3 DEF CallType, Offsets, PipeTaken, Rw
    <3> QED
      BY <2>4, <2>5, <2>6, <3>4, <3>5, <3>6 DEF IInv, PoolInUse, PoolEmpty
  <2> QED
    BY <2>7, <2>8
<1>5. CASE ~ok'
  <2>1. phase' = "release" /\ UNCHANGED <<mem, kbuf, todo, uses>>
    BY <1>5 DEF CopyPage
  <2>2. /\ PoolType' /\ failures < MaxFailures /\ failures' = failures + 1
        /\ \/ unmap_failed' = unmap_failed /\ Strays' \subseteq Strays
           \/ unmap_failed' = unmap_failed + 1 /\ \E a : Strays' \subseteq Strays \cup {a}
    BY <1>i, <1>p, <1>2, <1>3, <1>5, <2>1, AcquireFails
  <2>3. StrayBound'
    <3>1. PICK a : \/ unmap_failed' = unmap_failed /\ Strays' \subseteq Strays
                   \/ unmap_failed' = unmap_failed + 1 /\ Strays' \subseteq Strays \cup {a}
      BY <2>2
    <3>2. IsFiniteSet({a}) /\ Cardinality({a}) <= Slots
      <4>1. IsFiniteSet({a}) /\ Cardinality({a}) = 1
        BY FS_Singleton
      <4> QED
        BY <4>1, BoundAssumption
    <3>3. unmap_failed \in Nat /\ IsFiniteSet(DOMAIN scratch)
      BY <1>i, BoundAssumption DEF CallType, PoolType
    <3> QED
      BY <1>i, <3>1, <3>2, <3>3, StraysNext
  <2>4. ok' \in BOOLEAN
    BY <1>3, <1>5 DEF acquire, AcquireHit, AcquireNew
  <2>5. CallType'
    BY <1>i, <1>u, <2>1, <2>2, <2>4, BoundAssumption, SMTT(60) DEF CallType
  <2>6. DataType'
    BY <1>i, <1>u, <2>1 DEF DataType
  <2>7. CallShape'
    <3>1. Chunk' = Chunk
      BY <1>u DEF Chunk
    <3>2. call.op = "write" => call.iov # <<>>
      BY <1>i, <1>p DEF CallShape, Rw
    <3>3. call.op = "write" => Chunk \in Nat
      BY <1>i, <3>2, ChunkSize
    <3>4. call.op = "write" => Len(kbuf) <= Chunk
      BY <1>i, <1>p, <1>s, <3>3 DEF CallShape
    <3> QED
      BY <1>i, <1>p, <1>u, <2>1, <3>1, <3>4 DEF CallShape, Rw
  <2>8. Offsets' /\ PipeTaken'
    BY <1>i, <1>p, <1>u, <2>1 DEF Offsets, PipeTaken, Taken, Rw
  <2> QED
    BY <2>1, <2>2, <2>3, <2>5, <2>6, <2>7, <2>8 DEF IInv, PoolInUse, PoolEmpty
<1> QED
  BY <1>4, <1>5

\* A page that is not mapped for the copy.
LEMMA StepCopyRefused == IInv /\ CopyRefused => IInv'
<1> SUFFICES ASSUME IInv, CopyRefused PROVE IInv'
  OBVIOUS
<1>i. DataType /\ PoolType /\ CallType /\ CallShape /\ StrayBound /\ Offsets /\ PipeTaken
  BY DEF IInv
<1>1. /\ phase = "copy" /\ phase' = "release" /\ ok' = FALSE
      /\ UNCHANGED <<fds, content, buf, mem, scratch, entries, occupied, order, call, kbuf, todo,
                     uses, began, unmap_failed, calls, failures>>
  BY DEF CopyRefused, data, pool
<1>2. DataType' /\ PoolType' /\ CallType'
  BY <1>i, <1>1 DEF DataType, PoolType, CallType
<1>3. CallShape'
  <2>1. Chunk' = Chunk
    BY <1>1 DEF Chunk
  <2>2. call.op = "write" => call.iov # <<>>
    BY <1>i, <1>1 DEF CallShape, Rw
  <2>3. call.op = "write" => Chunk \in Nat
    BY <1>i, <2>2, ChunkSize
  <2>4. kbuf \in Seq(Byte) /\ todo \in Seq(Nat \ {0})
    BY <1>i DEF CallType
  <2>5. call.op = "write" => Len(kbuf) <= Chunk
    BY <1>i, <1>1, <2>3, <2>4 DEF CallShape
  <2> QED
    BY <1>i, <1>1, <2>1, <2>5 DEF CallShape, Rw
<1>4. StrayBound'
  BY <1>i, <1>1 DEF StrayBound, Strays, Held
<1>5. Offsets' /\ PipeTaken'
  BY <1>i, <1>1 DEF Offsets, PipeTaken, Taken, Rw
<1> QED
  BY <1>1, <1>2, <1>3, <1>4, <1>5 DEF IInv, PoolInUse, PoolEmpty

\* The end of a session.
LEMMA StepEndSession == IInv /\ EndSession => IInv'
<1> SUFFICES ASSUME IInv, EndSession PROVE IInv'
  OBVIOUS
<1>i. DataType /\ PoolType /\ CallType /\ CallShape /\ StrayBound /\ Offsets /\ PipeTaken
  BY DEF IInv
<1>1. /\ phase = "release" /\ NewPool /\ todo' = <<>> /\ uses' = <<>>
      /\ UNCHANGED <<content, buf, mem, kbuf, began, calls>>
  BY DEF EndSession
<1>2. PICK stop \in Slot \cup {Slots + 1} :
       /\ release_all(stop)
       /\ \/ (~ok \/ stop \in Slot) /\ CallEnds(FALSE)
          \/ ok /\ stop \notin Slot /\ call.op = "read" /\ Advance(Len(kbuf))
          \/ ok /\ stop \notin Slot /\ call.op = "write" /\ phase' = "send"
             /\ UNCHANGED <<fds, call, ok>>
          \/ ok /\ stop \notin Slot /\ call.op = "execve" /\ CallEnds(TRUE)
  BY DEF EndSession
<1>3. unmap_failed \in 0..MaxFailures /\ failures \in 0..MaxFailures /\ unmap_failed <= failures
  BY <1>i DEF CallType
<1>4. /\ PoolType' /\ StrayBound' /\ (\A s \in Slot : entries'[s] = NoEntry)
      /\ \/ stop \notin Slot /\ UNCHANGED <<failures, unmap_failed>>
         \/ /\ stop \in Slot /\ failures < MaxFailures /\ failures' = failures + 1
            /\ unmap_failed' = unmap_failed + 1
  BY <1>i, <1>1, <1>2, <1>3, BoundAssumption, Released
<1>5. /\ unmap_failed' \in 0..MaxFailures /\ failures' \in 0..MaxFailures
      /\ unmap_failed' <= failures'
  BY <1>3, <1>4, BoundAssumption
<1>6. /\ kbuf' \in Seq(Byte) /\ todo' \in Seq(Nat \ {0}) /\ calls' \in 0..MaxCalls
      /\ began'.offset \in Nat /\ began'.buf \in Seq(Byte)
  BY <1>i, <1>1 DEF CallType
<1> DEFINE CallRest ==
      /\ fds' \in [Fd -> Handle \cup {Closed}]
      /\ call' \in [op : {"none", "read", "write", "execve"}, fd : Fd \cup {0}, iov : Seq(Iovec),
                    total : Nat]
      /\ phase' \in {"rw", "send", "return"} /\ ok' \in BOOLEAN
<1>7. CallRest /\ CallShape' /\ Offsets' /\ PipeTaken'
  <2>1. ASSUME NEW good \in BOOLEAN, CallEnds(good), good => call.op # "read"
        PROVE  CallRest /\ CallShape' /\ Offsets' /\ PipeTaken'
    <3>1. CallShape' /\ Offsets' /\ PipeTaken'
      BY <1>i, <1>1, <2>1, Ended
    <3> QED
      BY <1>i, <2>1, <3>1 DEF CallEnds, CallType, DataType
  <2>2. CASE call.op = "read" /\ Advance(Len(kbuf))
    <3>1. Len(kbuf) \in Nat /\ Len(kbuf) <= Chunk /\ Rw
      BY <1>i, <1>1, <2>2 DEF CallType, CallShape, Rw
    <3> QED
      BY <1>i, <1>1, <2>2, <3>1, Advanced
  <2>3. CASE call.op = "write" /\ phase' = "send" /\ UNCHANGED <<fds, call, ok>>
    <3>1. CallRest
      BY <1>i, <2>3 DEF CallType, DataType
    <3>2. Chunk' = Chunk
      BY <2>3 DEF Chunk
    <3>3. CallShape'
      BY <1>i, <1>1, <2>3, <3>2 DEF CallShape, Rw
    <3>4. Offsets' /\ PipeTaken'
      BY <1>i, <1>1, <2>3 DEF Offsets, PipeTaken, Rw
    <3> QED
      BY <3>1, <3>3, <3>4
  <2>4. CASE CallEnds(FALSE)
    BY <2>1, <2>4, Zenon
  <2>5. CASE call.op = "execve" /\ CallEnds(TRUE)
    <3>1. TRUE => call.op # "read"
      BY <2>5
    <3> QED
      BY <2>1, <2>5, <3>1, Zenon
  <2> QED
    BY <1>2, <2>2, <2>3, <2>4, <2>5
<1>8. DataType'
  BY <1>i, <1>1, <1>7 DEF DataType
<1>9. CallType'
  BY <1>5, <1>6, <1>7 DEF CallType
<1>10. PoolInUse' /\ PoolEmpty'
  BY <1>4, <1>7 DEF PoolInUse, PoolEmpty
<1> QED
  BY <1>4, <1>7, <1>8, <1>9, <1>10 DEF IInv

\* A turn of a read, up to the copy.
LEMMA StepRwRead == IInv /\ RwRead => IInv'
<1> SUFFICES ASSUME IInv, RwRead PROVE IInv'
  OBVIOUS
<1>i. /\ DataType /\ PoolType /\ CallType /\ CallShape /\ PoolEmpty /\ StrayBound
      /\ Offsets /\ PipeTaken
  BY DEF IInv
<1>1. /\ phase = "rw" /\ call.op = "read"
      /\ fds[call.fd] # Closed /\ fds[call.fd].file # "wr"
      /\ UNCHANGED <<content, mem, scratch, began, unmap_failed, calls, failures>>
  BY DEF RwRead
<1>2. PICK h : h = fds[call.fd]
  OBVIOUS
<1>3. PICK got : got = FileRead(h)
  OBVIOUS
<1>4. /\ buf' = IF h.file = "rd" THEN SubSeq(buf, Len(got) + 1, Len(buf)) ELSE buf
      /\ \/ got = <<>> /\ CallEnds(TRUE) /\ UNCHANGED <<pool, kbuf, todo, uses>>
         \/ got # <<>> /\ OpenSession(Pages(Head(call.iov).base, Len(got)), got)
            /\ UNCHANGED <<fds, call>>
  BY <1>2, <1>3 DEF RwRead
<1>5. call.fd \in Fd /\ call.iov # <<>> /\ h \in Handle
  BY <1>i, <1>1, <1>2 DEF CallShape, DataType, Rw
<1>6. Chunk \in Nat \ {0} /\ Chunk <= RwChunk /\ Head(call.iov) \in Iovec
  BY <1>i, <1>5, ChunkSize
<1>7. got \in Seq(Byte) /\ Len(got) <= Chunk /\ (h.file = "rd" => Len(got) <= Len(buf))
  BY <1>i, <1>3, <1>5, <1>6, ReadBytes
<1>8. /\ fds' = fds /\ call' = call /\ began' = began
  BY <1>1, <1>4 DEF CallEnds
<1>b. buf \in Seq(Byte) /\ began.buf \in Seq(Byte) /\ call.total \in Nat
  BY <1>i DEF DataType, CallType
<1>9. /\ buf' \in Seq(Byte) /\ Len(buf') <= PipeCapacity
      /\ h.file = "rd" => /\ buf' = SubSeq(began.buf, Taken' + 1, Len(began.buf))
                          /\ Taken' = call.total + Len(got)
  <2>1. CASE h.file = "rd"
    <3>1. buf = SubSeq(began.buf, call.total + 1, Len(began.buf)) /\ Taken = call.total
      BY <1>i, <1>1, <1>2, <2>1 DEF PipeTaken
    <3>2. call.total <= Len(began.buf)
      BY <1>b, <3>1 DEF Taken
    <3>3. Len(got) \in Nat /\ Len(got) <= Len(buf)
      BY <1>7, <2>1
    <3>4. /\ buf' \in Seq(Byte) /\ Len(buf') = Len(buf) - Len(got)
          /\ Len(buf) = Len(began.buf) - call.total
          /\ buf' = SubSeq(began.buf, (call.total + Len(got)) + 1, Len(began.buf))
      <4>1. PICK t \in Nat, g \in Nat : t = call.total /\ g = Len(got)
        BY <1>b, <3>3
      <4>2. buf' = SubSeq(buf, g + 1, Len(buf)) /\ buf = SubSeq(began.buf, t + 1, Len(began.buf))
        BY <1>4, <2>1, <3>1, <4>1
      <4>3. t <= Len(began.buf) /\ g <= Len(buf)
        BY <3>2, <3>3, <4>1
      <4>4. /\ SubSeq(buf, g + 1, Len(buf)) \in Seq(Byte)
            /\ Len(SubSeq(buf, g + 1, Len(buf))) = Len(buf) - g /\ Len(buf) = Len(began.buf) - t
            /\ SubSeq(buf, g + 1, Len(buf)) = SubSeq(began.buf, (t + g) + 1, Len(began.buf))
        <5>1. PICK q \in Seq(Byte), b \in Seq(Byte) : q = began.buf /\ b = buf
          BY <1>b
        <5>2. b = SubSeq(q, t + 1, Len(q)) /\ t <= Len(q) /\ g <= Len(b)
          BY <4>2, <4>3, <5>1
        <5>3. /\ SubSeq(b, g + 1, Len(b)) \in Seq(Byte)
              /\ Len(SubSeq(b, g + 1, Len(b))) = Len(b) - g /\ Len(b) = Len(q) - t
              /\ SubSeq(b, g + 1, Len(b)) = SubSeq(q, (t + g) + 1, Len(q))
          BY <5>2, RestOfRest
        <5> QED
          BY <5>1, <5>3
      <4> QED
        BY <4>1, <4>2, <4>4
    <3>5. Taken' = call.total + Len(got)
      <4>1. Taken' = Len(began.buf) - Len(buf')
        BY <1>8 DEF Taken
      <4>2. PICK n \in Nat, g \in Nat : n = Len(began.buf) /\ g = Len(got)
        BY <1>b, <3>3
      <4>3. Len(buf') = (n - call.total) - g
        BY <3>4, <4>2
      <4>4. n - ((n - call.total) - g) = call.total + g
        BY <1>b
      <4> QED
        BY <4>1, <4>2, <4>3, <4>4
    <3>6. Len(buf) <= PipeCapacity /\ PipeCapacity \in Nat
      BY <1>i, BoundAssumption DEF DataType
    <3> QED
      BY <1>b, <3>3, <3>4, <3>5, <3>6
  <2>2. CASE h.file # "rd"
    BY <1>i, <1>4, <2>2 DEF DataType
  <2> QED
    BY <2>1, <2>2
<1>10. DataType'
  BY <1>i, <1>1, <1>8, <1>9 DEF DataType
<1>11. Offsets'
  <2>1. fds[call.fd].offset = began.offset + call.total
    BY <1>i, <1>1 DEF Offsets, Rw
  <2> QED
    BY <1>8, <2>1 DEF Offsets
<1>12. CASE got = <<>> /\ CallEnds(TRUE) /\ UNCHANGED <<pool, kbuf, todo, uses>>
  <2>1. phase' = "return" /\ ok' = TRUE /\ uses' \in Seq(Slot)
    BY <1>i, <1>12 DEF CallEnds, PoolType
  <2>2. PoolType' /\ PoolInUse' /\ PoolEmpty' /\ StrayBound'
    BY <1>i, <1>1, <1>12, <2>1, PoolKept
  <2>3. CallType'
    BY <1>i, <1>1, <1>8, <1>12, <2>1 DEF CallType
  <2>4. CallShape'
    BY <1>5, <1>8, <2>1 DEF CallShape
  <2>5. PipeTaken'
    <3> SUFFICES ASSUME h.file = "rd"
                 PROVE  /\ buf' = SubSeq(began.buf, Taken' + 1, Len(began.buf))
                        /\ Taken' \in call.total..(call.total + RwChunk)
                        /\ Taken' = call.total
      BY <1>2, <1>8, <2>1 DEF PipeTaken
    <3>1. Len(got) = 0
      BY <1>12
    <3> QED
      BY <1>9, <1>b, <3>1, BoundAssumption
  <2> QED
    BY <1>10, <1>11, <2>2, <2>3, <2>4, <2>5 DEF IInv
<1>13. CASE got # <<>> /\ OpenSession(Pages(Head(call.iov).base, Len(got)), got)
  <2>1. PICK pages : pages = Pages(Head(call.iov).base, Len(got))
    OBVIOUS
  <2>2. pages \in Seq(Nat \ {0}) /\ Len(pages) = Len(got) /\ pages # <<>>
    <3>1. Head(call.iov).base \in Nat \ {0} /\ Len(got) \in Nat \ {0}
      BY <1>6, <1>7, <1>13 DEF Iovec
    <3>2. pages \in Seq(Nat \ {0}) /\ Len(pages) = Len(got)
      BY <2>1, <3>1, PagesType
    <3> QED
      BY <3>1, <3>2
  <2>3. PoolType' /\ PoolInUse' /\ PoolEmpty' /\ StrayBound'
    BY <1>i, <1>1, <1>13, SessionOpens
  <2>4. phase' = "copy" /\ todo' = pages /\ kbuf' = got /\ ok' = TRUE
    BY <1>13, <2>1 DEF OpenSession
  <2>5. CallType'
    BY <1>i, <1>1, <1>7, <1>8, <2>2, <2>4 DEF CallType
  <2>6. Chunk' = Chunk
    BY <1>8 DEF Chunk
  <2>7. CallShape'
    BY <1>1, <1>2, <1>5, <1>7, <1>8, <2>2, <2>4, <2>6 DEF CallShape
  <2>8. PipeTaken'
    BY <1>2, <1>8, <1>9, <2>4 DEF PipeTaken
  <2> QED
    BY <1>10, <1>11, <2>3, <2>5, <2>7, <2>8 DEF IInv
<1> QED
  BY <1>4, <1>12, <1>13

\* A turn of a write, up to the copy.
LEMMA StepRwWrite == IInv /\ RwWrite => IInv'
<1> SUFFICES ASSUME IInv, RwWrite PROVE IInv'
  OBVIOUS
<1>i. /\ DataType /\ PoolType /\ CallType /\ CallShape /\ PoolEmpty /\ StrayBound
      /\ Offsets /\ PipeTaken
  BY DEF IInv
<1>1. PICK pages : pages = Pages(Head(call.iov).base, Chunk)
  OBVIOUS
<1>2. /\ phase = "rw" /\ call.op = "write" /\ fds[call.fd] # Closed
      /\ OpenSession(pages, <<>>)
      /\ UNCHANGED <<fds, content, buf, call, mem, scratch, began, unmap_failed, calls, failures>>
  BY <1>1 DEF RwWrite, data
<1>3. call.iov # <<>> /\ call.fd \in Fd
  BY <1>i, <1>2 DEF CallShape, Rw
<1>4. Head(call.iov) \in Iovec /\ Chunk \in Nat \ {0}
  BY <1>i, <1>3, ChunkSize
<1>5. pages \in Seq(Nat \ {0}) /\ Len(pages) = Chunk /\ pages # <<>>
  <2>1. Head(call.iov).base \in Nat \ {0}
    BY <1>4 DEF Iovec
  <2>2. pages \in Seq(Nat \ {0}) /\ Len(pages) = Chunk
    BY <1>1, <1>4, <2>1, PagesType
  <2> QED
    BY <1>4, <2>2
<1>6. PoolType' /\ PoolInUse' /\ PoolEmpty' /\ StrayBound'
  BY <1>i, <1>2, SessionOpens
<1>7. phase' = "copy" /\ todo' = pages /\ kbuf' = <<>> /\ ok' = TRUE
  BY <1>2 DEF OpenSession
<1>8. DataType' /\ CallType'
  BY <1>i, <1>2, <1>5, <1>7, SMTT(60) DEF DataType, CallType
<1>9. CallShape'
  <2>1. Chunk' = Chunk
    BY <1>2 DEF Chunk
  <2>2. Len(kbuf') + Len(todo') <= Chunk
    BY <1>4, <1>5, <1>7
  <2> QED
    BY <1>2, <1>3, <1>5, <1>7, <2>1, <2>2 DEF CallShape
<1>10. Offsets' /\ PipeTaken'
  BY <1>i, <1>2, <1>7 DEF Offsets, PipeTaken, Rw
<1> QED
  BY <1>6, <1>8, <1>9, <1>10 DEF IInv

\* What a write leaves in a file.
LEMMA OverwrittenType ==
  ASSUME NEW file \in Seq(Byte), NEW offset \in Nat, NEW bytes \in Seq(Byte),
         Len(file) <= MaxSize, bytes = <<>> \/ offset + Len(bytes) <= MaxSize
  PROVE  /\ Overwritten(file, offset, bytes) \in Seq(Byte)
         /\ Len(Overwritten(file, offset, bytes)) <= MaxSize
<1> DEFINE end == offset + Len(bytes)
<1>1. PICK n \in Nat : n = IF bytes = <<>> \/ end < Len(file) THEN Len(file) ELSE end
  OBVIOUS
<1>2. n <= MaxSize
  BY <1>1
<1>3. Overwritten(file, offset, bytes) =
        [i \in 1..n |-> IF i \in (offset + 1)..end THEN bytes[i - offset]
                        ELSE IF i <= Len(file) THEN file[i] ELSE Zero]
  BY <1>1 DEF Overwritten
<1>4. ASSUME NEW i \in 1..n
      PROVE  (IF i \in (offset + 1)..end THEN bytes[i - offset]
              ELSE IF i <= Len(file) THEN file[i] ELSE Zero) \in Byte
  <2>1. CASE i \in (offset + 1)..end
    <3>1. i - offset \in 1..Len(bytes)
      BY <2>1
    <3> QED
      BY <2>1, <3>1
  <2>2. CASE i \notin (offset + 1)..end
    BY <2>2, MemoryAssumption
  <2> QED
    BY <2>1, <2>2
<1> HIDE DEF end
<1>5. Overwritten(file, offset, bytes) \in [1..n -> Byte]
  BY <1>3, <1>4
<1>6. PICK w : w = Overwritten(file, offset, bytes)
  OBVIOUS
<1>7. w \in [1..n -> Byte]
  BY <1>5, <1>6
<1>8. w \in Seq(Byte) /\ Len(w) = n
  BY <1>7
<1> QED
  BY <1>2, <1>6, <1>8

\* A prefix of the kernel buffer.
LEMMA PrefixType ==
  ASSUME NEW bytes \in Seq(Byte), NEW room \in Int
  PROVE  LET sent == SubSeq(bytes, 1, Lesser(Len(bytes), room))
         IN /\ sent \in Seq(Byte) /\ Len(sent) <= Len(bytes)
            /\ sent = <<>> \/ Len(sent) <= room
<1>1. PICK m \in Int : m = Lesser(Len(bytes), room)
  BY DEF Lesser
<1>2. m <= Len(bytes) /\ m <= room
  BY <1>1 DEF Lesser
<1>3. CASE 1 <= m
  <2>1. m \in 1..Len(bytes)
    BY <1>2, <1>3
  <2>2. SubSeq(bytes, 1, m) \in Seq(Byte) /\ Len(SubSeq(bytes, 1, m)) = m
    BY <2>1
  <2> QED
    BY <1>1, <1>2, <2>2
<1>4. CASE ~(1 <= m)
  <2>1. SubSeq(bytes, 1, m) = <<>>
    BY <1>4
  <2>2. <<>> \in Seq(Byte) /\ Len(<<>>) = 0 /\ 0 <= Len(bytes)
    OBVIOUS
  <2> QED
    BY <1>1, <2>1, <2>2, Zenon
<1> QED
  BY <1>3, <1>4

\* The write of the chunk.
LEMMA StepRwSend == IInv /\ RwSend => IInv'
<1> SUFFICES ASSUME IInv, RwSend PROVE IInv'
  OBVIOUS
<1>i. /\ DataType /\ PoolType /\ CallType /\ CallShape /\ PoolEmpty /\ StrayBound
      /\ Offsets /\ PipeTaken
  BY DEF IInv
<1>1. PICK h : h = fds[call.fd]
  OBVIOUS
<1>2. PICK sent : sent = IF h.file = "reg" THEN disk_write(h.offset, kbuf) ELSE pipe_write(kbuf)
  OBVIOUS
<1>3. /\ phase = "send"
      /\ h.file = "reg" \/ h.file = "wr"
      /\ content' = IF h.file = "reg" THEN Overwritten(content, h.offset, sent) ELSE content
      /\ buf' = IF h.file = "wr" THEN buf \o sent ELSE buf
      /\ Advance(Len(sent))
      /\ UNCHANGED <<mem, scratch, pool, kbuf, todo, uses, began, unmap_failed, calls, failures>>
  BY <1>1, <1>2 DEF RwSend
<1>4. /\ call.op = "write" /\ call.fd \in Fd /\ call.iov # <<>> /\ h # Closed
      /\ Len(kbuf) <= Chunk
  BY <1>i, <1>1, <1>3 DEF CallShape, Rw
<1>5. h \in Handle /\ h.offset \in Nat
  BY <1>i, <1>1, <1>4 DEF DataType, Handle
<1>6. Chunk \in Nat /\ kbuf \in Seq(Byte) /\ content \in Seq(Byte) /\ buf \in Seq(Byte)
  BY <1>i, <1>4, ChunkSize DEF CallType, DataType
<1>7. /\ sent \in Seq(Byte) /\ Len(sent) <= Len(kbuf)
      /\ h.file = "reg" => sent = <<>> \/ Len(sent) <= MaxSize - h.offset
      /\ h.file = "wr" => sent = <<>> \/ Len(sent) <= PipeCapacity - Len(buf)
  <2>1. CASE h.file = "reg"
    <3>1. PICK room \in Int : room = MaxSize - h.offset
      BY <1>5, BoundAssumption
    <3>2. sent = SubSeq(kbuf, 1, Lesser(Len(kbuf), room))
      BY <1>2, <2>1, <3>1 DEF disk_write
    <3> QED
      BY <1>6, <2>1, <3>1, <3>2, PrefixType
  <2>2. CASE h.file # "reg"
    <3>1. PICK room \in Int : room = PipeCapacity - Len(buf)
      BY <1>6, BoundAssumption
    <3>2. sent = SubSeq(kbuf, 1, Lesser(Len(kbuf), room))
      BY <1>2, <2>2, <3>1 DEF pipe_write
    <3> QED
      BY <1>6, <2>2, <3>1, <3>2, PrefixType
  <2> QED
    BY <2>1, <2>2
<1>8. content' \in Seq(Byte) /\ Len(content') <= MaxSize
  <2>1. CASE h.file = "reg"
    <3>1. sent = <<>> \/ h.offset + Len(sent) <= MaxSize
      BY <1>5, <1>7, <2>1, BoundAssumption
    <3>2. Len(content) <= MaxSize
      BY <1>i DEF DataType
    <3> QED
      BY <1>3, <1>5, <1>6, <1>7, <2>1, <3>1, <3>2, OverwrittenType
  <2>2. CASE h.file # "reg"
    BY <1>i, <1>3, <2>2 DEF DataType
  <2> QED
    BY <2>1, <2>2
<1>9. buf' \in Seq(Byte) /\ Len(buf') <= PipeCapacity
  <2>1. CASE h.file = "wr"
    <3>1. buf' = buf \o sent /\ (sent = <<>> \/ Len(sent) <= PipeCapacity - Len(buf))
      BY <1>3, <1>7, <2>1
    <3>2. buf' \in Seq(Byte) /\ Len(buf') = Len(buf) + Len(sent)
      BY <1>6, <1>7, <3>1
    <3>3. Len(buf) <= PipeCapacity
      BY <1>i DEF DataType
    <3> QED
      BY <1>6, <1>7, <3>1, <3>2, <3>3, BoundAssumption
  <2>2. CASE h.file # "wr"
    BY <1>i, <1>3, <2>2 DEF DataType
  <2> QED
    BY <2>1, <2>2
<1>10. /\ fds' \in [Fd -> Handle \cup {Closed}]
       /\ call' \in [op : {"none", "read", "write", "execve"}, fd : Fd \cup {0},
                     iov : Seq(Iovec), total : Nat]
       /\ phase' \in {"rw", "return"} /\ ok' = TRUE
       /\ CallShape' /\ Offsets' /\ PipeTaken'
  <2>1. PICK n \in Nat : n = Len(sent)
    BY <1>7
  <2>2. n <= Chunk
    BY <1>4, <1>6, <1>7, <2>1
  <2>3. Rw /\ call.op # "read"
    BY <1>4 DEF Rw
  <2>4. Advance(n)
    BY <1>3, <2>1
  <2> QED
    BY <1>i, <1>3, <2>2, <2>3, <2>4, Advanced
<1>11. DataType'
  BY <1>i, <1>3, <1>8, <1>9, <1>10 DEF DataType
<1>12. CallType'
  BY <1>i, <1>3, <1>10 DEF CallType
<1>13. PoolType' /\ PoolInUse' /\ PoolEmpty' /\ StrayBound'
  <2>1. phase \notin {"copy", "release"} /\ phase' # "copy" /\ uses' \in Seq(Slot)
    BY <1>i, <1>3, <1>10 DEF PoolType
  <2> QED
    BY <1>i, <1>3, <2>1, PoolKept
<1> QED
  BY <1>10, <1>11, <1>12, <1>13 DEF IInv

\* A call refused, or ended by a failure of a server.
LEMMA StepRwEnds == IInv /\ (RwRefused \/ RwFails) => IInv'
<1> SUFFICES ASSUME IInv, RwRefused \/ RwFails PROVE IInv'
  OBVIOUS
<1>i. /\ DataType /\ PoolType /\ CallType /\ CallShape /\ PoolEmpty /\ StrayBound
      /\ Offsets /\ PipeTaken
  BY DEF IInv
<1>1. /\ phase \in {"rw", "send"} /\ CallEnds(FALSE)
      /\ UNCHANGED <<content, buf, mem, scratch, pool, kbuf, todo, uses, began, unmap_failed,
                     calls>>
      /\ failures' = failures \/ (failures < MaxFailures /\ failures' = failures + 1)
  BY DEF RwRefused, RwFails, Fails
<1>2. fds' = fds /\ call' = call /\ phase' = "return" /\ ok' = FALSE
  BY <1>1 DEF CallEnds
<1>3. CallShape' /\ Offsets' /\ PipeTaken'
  BY <1>i, <1>1, Ended
<1>4. PoolType' /\ PoolInUse' /\ PoolEmpty' /\ StrayBound'
  <2>1. phase \notin {"copy", "release"} /\ phase' # "copy" /\ uses' \in Seq(Slot)
    BY <1>i, <1>1, <1>2 DEF PoolType
  <2> QED
    BY <1>i, <1>1, <2>1, PoolKept
<1>5. DataType'
  BY <1>i, <1>1, <1>2 DEF DataType
<1>6. CallType'
  <2>1. /\ failures' \in 0..MaxFailures /\ unmap_failed' \in 0..MaxFailures
        /\ unmap_failed' <= failures'
    <3>1. /\ failures \in 0..MaxFailures /\ unmap_failed \in 0..MaxFailures
          /\ unmap_failed <= failures /\ MaxFailures \in Nat
      BY <1>i, BoundAssumption DEF CallType
    <3>2. unmap_failed' = unmap_failed
      BY <1>1
    <3> QED
      BY <1>1, <3>1, <3>2
  <2> QED
    BY <1>i, <1>1, <1>2, <2>1 DEF CallType
<1> QED
  BY <1>3, <1>4, <1>5, <1>6 DEF IInv

\* A call begins: with the offset and the pipe it finds, and nothing counted.
LEMMA Begun ==
  ASSUME DataType, NEW op \in {"read", "write", "execve"}, NEW fd, NEW iov \in Seq(Iovec),
         op = "execve" => fd = 0, op # "execve" => fd \in Fd, Begin(op, fd, iov)
  PROVE  /\ call' \in [op : {"none", "read", "write", "execve"}, fd : Fd \cup {0},
                       iov : Seq(Iovec), total : Nat]
         /\ call'.op = op /\ call'.fd = fd /\ call'.iov = iov /\ call'.total = 0
         /\ began'.offset \in Nat /\ began'.buf = buf
         /\ op # "execve" /\ fds[fd] # Closed => began'.offset = fds[fd].offset
<1>1. /\ call' = [op |-> op, fd |-> fd, iov |-> iov, total |-> 0]
      /\ began' = [offset |-> IF op # "execve" /\ fds[fd] # Closed THEN fds[fd].offset ELSE 0,
                   content |-> content, buf |-> buf, mem |-> mem, iov |-> iov]
  BY DEF Begin
<1>2. op # "execve" /\ fds[fd] # Closed => fds[fd].offset \in Nat
  BY DEF DataType, Handle
<1>3. began'.offset \in Nat /\ began'.buf = buf
  BY <1>1, <1>2
<1> QED
  BY <1>1, <1>3

\* read, readv, write or writev called.
LEMMA StepSysRw == IInv /\ SysRw => IInv'
<1> SUFFICES ASSUME IInv, SysRw PROVE IInv'
  OBVIOUS
<1>i. DataType /\ PoolType /\ CallType /\ PoolEmpty /\ StrayBound
  BY DEF IInv
<1>1. /\ phase = "idle" /\ calls < MaxCalls /\ calls' = calls + 1 /\ phase' = "rw"
      /\ UNCHANGED <<fds, content, buf, mem, scratch, pool, kbuf, todo, ok, uses, unmap_failed,
                     failures>>
  BY DEF SysRw, Called, data, session
<1>2. PICK op \in {"read", "write"}, fd \in Fd, iov \in Vectors : Begin(op, fd, iov)
  BY DEF SysRw
<1>3. iov \in Seq(Iovec) /\ iov # <<>>
  BY MemoryAssumption DEF Iovec
<1>4. /\ call' \in [op : {"none", "read", "write", "execve"}, fd : Fd \cup {0},
                    iov : Seq(Iovec), total : Nat]
      /\ call'.op = op /\ call'.fd = fd /\ call'.iov = iov /\ call'.total = 0
      /\ began'.offset \in Nat /\ began'.buf = buf
      /\ fds[fd] # Closed => began'.offset = fds[fd].offset
  BY <1>i, <1>2, <1>3, Begun
<1>5. DataType'
  BY <1>i, <1>1 DEF DataType
<1>6. PoolType' /\ PoolInUse' /\ PoolEmpty' /\ StrayBound'
  <2>1. phase \notin {"copy", "release"} /\ phase' # "copy" /\ uses' \in Seq(Slot)
    BY <1>i, <1>1 DEF PoolType
  <2> QED
    BY <1>i, <1>1, <2>1, PoolKept
<1>7. CallType'
  <2>1. calls' \in 0..MaxCalls
    BY <1>i, <1>1, BoundAssumption DEF CallType
  <2>2. began'.buf \in Seq(Byte)
    BY <1>i, <1>4 DEF DataType
  <2> QED
    BY <1>i, <1>1, <1>4, <2>1, <2>2 DEF CallType
<1>8. CallShape'
  BY <1>1, <1>3, <1>4 DEF CallShape, Rw
<1>9. Offsets'
  BY <1>1, <1>4 DEF Offsets
<1>10. PipeTaken'
  <2>1. Taken' = 0 /\ buf = SubSeq(buf, 1, Len(buf))
    BY <1>i, <1>1, <1>4 DEF Taken, DataType
  <2> QED
    BY <1>1, <1>4, <2>1 DEF PipeTaken
<1> QED
  BY <1>5, <1>6, <1>7, <1>8, <1>9, <1>10 DEF IInv

\* execve called: its session opens at once.
LEMMA StepSysExecve == IInv /\ SysExecve => IInv'
<1> SUFFICES ASSUME IInv, SysExecve PROVE IInv'
  OBVIOUS
<1>i. DataType /\ PoolType /\ CallType /\ PoolEmpty /\ StrayBound
  BY DEF IInv
<1>1. /\ phase = "idle" /\ calls < MaxCalls /\ calls' = calls + 1
      /\ UNCHANGED <<fds, content, buf, mem, scratch, unmap_failed, failures>>
  BY DEF SysExecve, Called, data
<1>2. PICK pages \in ExecInputs :
        /\ Begin("execve", 0, [i \in DOMAIN pages |-> [base |-> pages[i], len |-> 1]])
        /\ OpenSession(pages, <<>>)
  BY DEF SysExecve
<1>3. pages \in Seq(Nat \ {0}) /\ pages # <<>>
  BY MemoryAssumption
<1>4. PICK iov : iov = [i \in DOMAIN pages |-> [base |-> pages[i], len |-> 1]]
  OBVIOUS
<1>5. iov \in Seq(Iovec)
  <2>1. PICK n \in Nat : n = Len(pages)
    BY <1>3
  <2>2. DOMAIN pages = 1..n /\ \A i \in 1..n : pages[i] \in Nat \ {0}
    BY <1>3, <2>1
  <2>3. iov = [i \in 1..n |-> [base |-> pages[i], len |-> 1]]
    BY <1>4, <2>2
  <2>4. iov \in [1..n -> Iovec]
    BY <2>2, <2>3 DEF Iovec
  <2> QED
    BY <2>4
<1>6. Begin("execve", 0, iov)
  BY <1>2, <1>4
<1>7. /\ call' \in [op : {"none", "read", "write", "execve"}, fd : Fd \cup {0},
                    iov : Seq(Iovec), total : Nat]
      /\ call'.op = "execve" /\ began'.offset \in Nat /\ began'.buf = buf
  BY <1>i, <1>5, <1>6, Begun
<1>8. PoolType' /\ PoolInUse' /\ PoolEmpty' /\ StrayBound'
  BY <1>i, <1>1, <1>2, SessionOpens
<1>9. phase' = "copy" /\ todo' = pages /\ kbuf' = <<>> /\ ok' = TRUE
  BY <1>2 DEF OpenSession
<1>10. DataType'
  BY <1>i, <1>1 DEF DataType
<1>11. CallType'
  <2>1. calls' \in 0..MaxCalls
    BY <1>i, <1>1, BoundAssumption DEF CallType
  <2>2. began'.buf \in Seq(Byte) /\ kbuf' \in Seq(Byte) /\ todo' \in Seq(Nat \ {0})
    BY <1>i, <1>3, <1>7, <1>9 DEF DataType
  <2> QED
    BY <1>i, <1>1, <1>7, <1>9, <2>1, <2>2 DEF CallType
<1>12. CallShape' /\ Offsets' /\ PipeTaken'
  BY <1>3, <1>7, <1>9 DEF CallShape, Offsets, PipeTaken, Rw
<1> QED
  BY <1>8, <1>10, <1>11, <1>12 DEF IInv

\* The reply.
LEMMA StepReturn == IInv /\ Return => IInv'
<1> SUFFICES ASSUME IInv, Return PROVE IInv'
  OBVIOUS
<1>i. DataType /\ PoolType /\ CallType /\ PoolEmpty /\ StrayBound
  BY DEF IInv
<1>1. /\ phase = "return" /\ phase' = "idle" /\ call' = NoCall /\ began' = NoBegan
      /\ kbuf' = <<>> /\ todo' = <<>> /\ uses' = <<>> /\ ok' = TRUE
      /\ UNCHANGED <<fds, content, buf, mem, scratch, pool, unmap_failed, calls, failures>>
  BY DEF Return, data
<1>2. DataType'
  BY <1>i, <1>1 DEF DataType
<1>3. PoolType' /\ PoolInUse' /\ PoolEmpty' /\ StrayBound'
  <2>1. phase \notin {"copy", "release"} /\ phase' # "copy" /\ uses' \in Seq(Slot)
    BY <1>1
  <2> QED
    BY <1>i, <1>1, <2>1, PoolKept
<1>4. CallType'
  <2>1. call' \in [op : {"none", "read", "write", "execve"}, fd : Fd \cup {0}, iov : Seq(Iovec),
                   total : Nat]
    BY <1>1 DEF NoCall
  <2>2. began'.offset \in Nat /\ began'.buf \in Seq(Byte)
    BY <1>1 DEF NoBegan
  <2> QED
    BY <1>i, <1>1, <2>1, <2>2 DEF CallType
<1>5. CallShape' /\ Offsets' /\ PipeTaken'
  BY <1>1 DEF CallShape, Offsets, PipeTaken
<1> QED
  BY <1>2, <1>3, <1>4, <1>5 DEF IInv

\* The calls that only change the descriptors.
LEMMA StepDescriptors == IInv /\ (SysLseek \/ SysDup \/ SysClose) => IInv'
<1> SUFFICES ASSUME IInv, SysLseek \/ SysDup \/ SysClose PROVE IInv'
  OBVIOUS
<1>i. DataType /\ PoolType /\ CallType /\ PoolEmpty /\ StrayBound
  BY DEF IInv
<1>1. /\ phase = "idle" /\ phase' = phase /\ calls < MaxCalls /\ calls' = calls + 1
      /\ UNCHANGED <<content, buf, mem, scratch, pool, call, kbuf, todo, ok, uses, began,
                     unmap_failed, failures>>
  BY DEF SysLseek, SysDup, SysClose, Called, session
<1>2. fds \in [Fd -> Handle \cup {Closed}]
  BY <1>i DEF DataType
<1>3. fds' \in [Fd -> Handle \cup {Closed}]
  <2>1. CASE SysLseek
    <3>1. PICK fd \in Fd, whence \in {"set", "cur", "end"}, delta \in Deltas :
            /\ fds[fd] # Closed
            /\ SeekOk(Sought(fd, whence, delta))
            /\ fds' = [fds EXCEPT ![fd].offset = Sought(fd, whence, delta)]
      BY <2>1 DEF SysLseek
    <3>2. fds[fd] \in Handle /\ fds[fd].offset \in Nat /\ delta \in Int
      BY <1>2, <3>1, BoundAssumption DEF Handle
    <3>3. PICK to : to = Sought(fd, whence, delta)
      OBVIOUS
    <3>4. to \in Int
      <4>1. PICK size \in Nat : size = IF fds[fd].file = "reg" THEN Len(content) ELSE 0
        BY <1>i DEF DataType
      <4>2. to = delta + (CASE whence = "set" -> 0 [] whence = "cur" -> fds[fd].offset
                            [] whence = "end" -> size)
        BY <3>3, <4>1 DEF Sought
      <4>3. CASE whence = "set"
        BY <3>2, <4>2, <4>3
      <4>4. CASE whence = "cur"
        BY <3>2, <4>2, <4>4
      <4>5. CASE whence = "end"
        BY <3>2, <4>1, <4>2, <4>5
      <4> QED
        BY <4>3, <4>4, <4>5
    <3>5. to \in Nat
      BY <3>1, <3>3, <3>4 DEF SeekOk
    <3>6. fds' = [fds EXCEPT ![fd].offset = to]
      BY <3>1, <3>3
    <3> QED
      BY <1>2, <3>2, <3>5, <3>6 DEF Handle
  <2>2. CASE SysDup
    BY <1>2, <2>2 DEF SysDup
  <2>3. CASE SysClose
    BY <1>2, <2>3 DEF SysClose
  <2> QED
    BY <2>1, <2>2, <2>3
<1>4. DataType'
  BY <1>i, <1>1, <1>3 DEF DataType
<1>5. PoolType' /\ PoolInUse' /\ PoolEmpty' /\ StrayBound'
  <2>1. phase \notin {"copy", "release"} /\ phase' # "copy" /\ uses' \in Seq(Slot)
    BY <1>i, <1>1 DEF PoolType
  <2> QED
    BY <1>i, <1>1, <2>1, PoolKept
<1>6. CallType'
  <2>1. calls' \in 0..MaxCalls
    BY <1>i, <1>1, BoundAssumption DEF CallType
  <2> QED
    BY <1>i, <1>1, <2>1 DEF CallType
<1>7. CallShape' /\ Offsets' /\ PipeTaken'
  BY <1>1 DEF CallShape, Offsets, PipeTaken
<1> QED
  BY <1>4, <1>5, <1>6, <1>7 DEF IInv

\* A step that changes nothing.
LEMMA StepStutter == IInv /\ UNCHANGED vars => IInv'
<1> SUFFICES ASSUME IInv, UNCHANGED vars PROVE IInv'
  OBVIOUS
<1>1. UNCHANGED <<fds, content, buf, mem, scratch, entries, occupied, order, phase, call, kbuf,
                  todo, ok, uses, began, unmap_failed, calls, failures>>
  BY DEF vars, data, pool, session
<1>2. DataType' /\ PoolType' /\ CallType'
  BY <1>1 DEF IInv, DataType, PoolType, CallType
<1>3. CallShape' /\ Offsets' /\ PipeTaken'
  BY <1>1 DEF IInv, CallShape, Offsets, PipeTaken, Taken, Rw, Chunk
<1>4. PoolInUse' /\ PoolEmpty' /\ StrayBound'
  BY <1>1 DEF IInv, PoolInUse, Mapping, Recency, UsedBefore, PoolEmpty, StrayBound, Strays, Held
<1> QED
  BY <1>2, <1>3, <1>4 DEF IInv

\* IInv is an invariant.
LEMMA IoInvariant == Spec => []IInv
<1>1. IInv /\ [Next]_vars => IInv'
  BY StepCopyPage, StepCopyRefused, StepEndSession, StepRwRead, StepRwWrite, StepRwSend,
     StepRwEnds, StepSysRw, StepSysExecve, StepReturn, StepDescriptors, StepStutter DEF Next
<1> QED
  BY IoInit, <1>1, PTL DEF Spec

(***************************************************************************)
(* The theorems                                                            *)
(***************************************************************************)
\* Every variable has its type; in particular no offset is negative, and neither
\* the file nor the pipe outgrows its bound (do_read, do_write, lseek).
THEOREM IoTypeOK == Spec => []TypeOK
<1>1. IInv => TypeOK
  BY DEF IInv, DataType, PoolType, CallType, TypeOK
<1> QED
  BY IoInvariant, <1>1, PTL

\* The slot pick_slot takes from a full pool has the oldest last use.
LEMMA OldestPicked ==
  ASSUME PoolType, Recency, \A s \in Slot : occupied[s], NEW s \in Slot
  PROVE  LastUse(pick_slot) <= LastUse(s)
<1>1. order \in Seq(Slot) /\ uses \in Seq(Slot)
  BY DEF PoolType
<1>2. PICK old \in Slot : old = pick_slot /\ 1 \in DOMAIN order /\ order[1] = old
  BY PickedSlot
<1>3. ASSUME NEW t \in Slot
      PROVE  /\ LastUse(t) \in Nat /\ LastUse(t) \in DOMAIN uses /\ uses[LastUse(t)] = t
             /\ \A k \in DOMAIN uses : uses[k] = t => k <= LastUse(t)
  <2> DEFINE U == {k \in DOMAIN uses : uses[k] = t}
  <2>1. U # {}
    BY DEF Recency
  <2>2. PICK n \in Nat : n = Len(uses)
    BY <1>1
  <2>3. U \subseteq 0..n
    BY <1>1, <2>2
  <2>4. Max(U) \in U /\ \A k \in U : Max(U) >= k
    BY <2>1, <2>3, MaxOf
  <2>5. LastUse(t) = Max(U)
    BY DEF LastUse
  <2> HIDE DEF U
  <2>6. LastUse(t) \in U /\ LastUse(t) \in 0..n
    BY <2>3, <2>4, <2>5
  <2>7. \A k \in U : k <= LastUse(t)
    BY <2>3, <2>4, <2>5, <2>6
  <2> QED
    BY <2>6, <2>7 DEF U
<1>4. PICK j \in DOMAIN order : order[j] = s
  BY DEF Recency
<1>5. CASE j = 1
  <2>1. s = old
    BY <1>2, <1>4, <1>5
  <2> QED
    BY <1>2, <1>3, <2>1
<1>6. CASE j # 1
  <2>1. 1 < j
    BY <1>1, <1>4, <1>6
  <2>2. UsedBefore(old, s)
    BY <1>2, <1>4, <2>1 DEF Recency
  <2>3. PICK k \in DOMAIN uses : uses[k] = s /\ \A l \in DOMAIN uses : uses[l] = old => l < k
    BY <2>2 DEF UsedBefore
  <2>4. LastUse(old) < k /\ k <= LastUse(s) /\ k \in Nat
    BY <1>1, <1>3, <2>3, SMTT(60)
  <2>5. LastUse(old) \in Nat /\ LastUse(s) \in Nat
    BY <1>3
  <2> QED
    BY <1>2, <2>4, <2>5
<1> QED
  BY <1>5, <1>6

\* While a session copies, its pool is sound: the entry find_hit unwraps is
\* there, its scratch address maps its frame, no frame has two slots, and the
\* slot a full pool gives up is the one used longest ago.
THEOREM PoolIsSound == Spec => []PoolSound
<1>1. IInv => PoolSound
  <2> SUFFICES ASSUME IInv, phase = "copy" PROVE PoolSound
    BY DEF PoolSound
  <2>1. PoolType /\ Mapping /\ Recency
    BY DEF IInv, PoolInUse
  <2>2. (\A s \in Slot : occupied[s]) => \A s \in Slot : LastUse(pick_slot) <= LastUse(s)
    BY <2>1, OldestPicked
  <2> QED
    BY <2>1, <2>2 DEF PoolSound, Mapping
<1> QED
  BY IoInvariant, <1>1, PTL

\* The offset of the handle is ahead of where the call began by exactly what it
\* has counted; a read of a pipe has taken from its head what it counted, and at
\* most one chunk more when it fails (do_read, do_write).
THEOREM OffsetCounted == Spec => []OffsetMatchesCount
<1>1. IInv => OffsetMatchesCount
  <2> SUFFICES ASSUME IInv, phase # "idle", call.op \in {"read", "write"}, fds[call.fd] # Closed
               PROVE  /\ fds[call.fd].offset = began.offset + call.total
                      /\ call.op = "read" /\ fds[call.fd].file = "rd" =>
                           /\ buf = SubSeq(began.buf, Taken + 1, Len(began.buf))
                           /\ Taken \in call.total..(call.total + RwChunk)
                           /\ phase = "return" /\ ok => Taken = call.total
    BY DEF OffsetMatchesCount, Taken
  <2>1. fds[call.fd].offset = began.offset + call.total
    BY DEF IInv, Offsets, Rw
  <2>2. ASSUME call.op = "read", fds[call.fd].file = "rd"
        PROVE  /\ buf = SubSeq(began.buf, Taken + 1, Len(began.buf))
               /\ Taken \in call.total..(call.total + RwChunk)
               /\ phase = "return" /\ ok => Taken = call.total
    <3>1. /\ buf = SubSeq(began.buf, Taken + 1, Len(began.buf))
          /\ phase = "rw" => Taken = call.total
          /\ phase \in {"copy", "release"} => Taken = call.total + Len(kbuf)
          /\ phase = "return" => /\ Taken \in call.total..(call.total + RwChunk)
                                 /\ ok => Taken = call.total
      BY <2>2 DEF IInv, PipeTaken
    <3>2. phase \in {"rw", "copy", "release", "return"}
      BY <2>2 DEF IInv, CallType, CallShape
    <3>3. call.total \in Nat /\ RwChunk \in Nat
      BY BoundAssumption DEF IInv, CallType
    <3>4. CASE phase \in {"copy", "release"}
      <4>1. call.iov # <<>> /\ Len(kbuf) <= Chunk /\ CallType
        BY <2>2, <3>4 DEF IInv, CallShape, Rw
      <4>2. Chunk \in Nat /\ Chunk <= RwChunk
        BY <4>1, ChunkSize
      <4>3. Len(kbuf) \in Nat
        BY <4>1 DEF CallType
      <4> QED
        BY <3>1, <3>3, <3>4, <4>1, <4>2, <4>3
    <3>5. CASE phase = "rw"
      BY <3>1, <3>3, <3>5
    <3>6. CASE phase = "return"
      BY <3>1, <3>6
    <3> QED
      BY <3>2, <3>4, <3>5, <3>6
  <2> QED
    BY <2>1, <2>2
<1> QED
  BY IoInvariant, <1>1, PTL

\* Outside a session no scratch mapping is left, but for at most a pool after
\* each unmapping that failed (with_user_session, release_all).
THEOREM ScratchIsReleased == Spec => []ScratchReleased
<1>1. IInv => ScratchReleased
  <2> SUFFICES ASSUME IInv, phase \in {"idle", "rw", "send", "return"}
               PROVE  Cardinality(DOMAIN scratch) <= Slots * unmap_failed
    BY DEF ScratchReleased
  <2>1. \A s \in Slot : entries[s] = NoEntry
    BY DEF IInv, PoolEmpty
  <2>2. Strays = DOMAIN scratch
    BY <2>1 DEF Strays, Held
  <2> QED
    BY <2>2 DEF IInv, StrayBound
<1> QED
  BY IoInvariant, <1>1, PTL

(***************************************************************************)
(* Induction over sequences: flattening, step by step                      *)
(***************************************************************************)
\* Induction for a set of numbers: if it holds 0 and goes on, it holds all up to n.
LEMMA UpTo ==
  ASSUME NEW n \in Nat, NEW T, 0 \in T, \A i \in 1..n : i - 1 \in T => i \in T
  PROVE  \A i \in 0..n : i \in T
<1> SUFFICES ASSUME NEW i \in 0..n, i \notin T PROVE FALSE
  OBVIOUS
<1> DEFINE B == {j \in 0..n : j \notin T}
<1>1. PICK m \in B : \A k \in B : m <= k
  <2>1. B \subseteq Nat /\ B # {}
    OBVIOUS
  <2> HIDE DEF B
  <2> QED BY <2>1, MinOf, Zenon
<1>2. m # 0 /\ m \in 1..n
  OBVIOUS
<1>3. m - 1 \in 0..n /\ m - 1 \notin B
  BY <1>1, <1>2
<1> QED BY <1>2, <1>3

\* The function by which FlattenSeq is defined.
FlatIter(h, seqs, m) ==
  h = [i \in 1..m |-> IF i = 1 THEN seqs[i] ELSE h[i - 1] \o seqs[i]]

\* Concatenation, by a name that hides it from the provers.
Joined(a, b) == a \o b

\* It is associative.
LEMMA JoinedAssociative ==
  ASSUME NEW S, NEW a \in Seq(S), NEW b \in Seq(S), NEW c \in Seq(S)
  PROVE  Joined(Joined(a, b), c) = Joined(a, Joined(b, c))
  BY ConcatAssociative DEF Joined

\* The sequences that flattening goes through.
FlatRun(g, seqs, n) == g[0] = <<>> /\ \A i \in 1..n : g[i] = Joined(g[i - 1], seqs[i])

\* Flattening is the last of them.
LEMMA FlattenSteps ==
  ASSUME NEW S, NEW seqs \in Seq(Seq(S)), NEW n, n = Len(seqs)
  PROVE  \E g : /\ FlatRun(g, seqs, n) /\ FlattenSeq(seqs) = g[n]
                /\ \A i \in 0..n : g[i] \in Seq(S)
<1> DEFINE Good == {m \in 0..n : \E h : FlatIter(h, seqs, m)}
           it == CHOOSE h : FlatIter(h, seqs, n)
<1>0. n \in Nat /\ (n = 0 => seqs = <<>>) /\ \A i \in 1..n : seqs[i] \in Seq(S)
  OBVIOUS
<1>1. 0 \in Good
  <2> DEFINE h == [i \in 1..0 |-> <<>>]
  <2>1. FlatIter(h, seqs, 0)
    BY DEF FlatIter
  <2> HIDE DEF h
  <2> QED BY <1>0, <2>1
<1>2. ASSUME NEW i \in 1..n, i - 1 \in Good PROVE i \in Good
  <2>1. PICK h : FlatIter(h, seqs, i - 1)
    BY <1>2
  <2> DEFINE k == [j \in 1..i |-> IF j = i THEN IF i = 1 THEN seqs[i] ELSE h[i - 1] \o seqs[i]
                                  ELSE h[j]]
  <2>2. ASSUME NEW j \in 1..i
        PROVE  k[j] = IF j = 1 THEN seqs[j] ELSE k[j - 1] \o seqs[j]
    <3>1. CASE j = i /\ i = 1
      BY <3>1
    <3>2. CASE j = i /\ i # 1
      <4>1. i - 1 \in 1..i /\ i - 1 # i
        BY <3>2
      <4>2. k[i - 1] = h[i - 1]
        BY <4>1
      <4>3. k[i] = h[i - 1] \o seqs[i]
        BY <3>2
      <4> HIDE DEF k
      <4> QED BY <3>2, <4>2, <4>3
    <3>3. CASE j # i
      <4>1. j \in 1..(i - 1) /\ (j # 1 => j - 1 \in 1..(i - 1))
        BY <3>3
      <4>2. k[j] = h[j] /\ (j # 1 => k[j - 1] = h[j - 1])
        BY <3>3
      <4>3. h[j] = IF j = 1 THEN seqs[j] ELSE h[j - 1] \o seqs[j]
        BY <2>1, <4>1 DEF FlatIter
      <4> HIDE DEF k
      <4> QED BY <4>2, <4>3
    <3> QED BY <3>1, <3>2, <3>3
  <2>3. k = [j \in 1..i |-> k[j]]
    OBVIOUS
  <2> HIDE DEF k
  <2>4. FlatIter(k, seqs, i)
    BY <2>2, <2>3 DEF FlatIter
  <2> QED BY <2>4
<1>3. \A i \in 0..n : i \in Good
  <2> HIDE DEF Good
  <2> QED BY <1>0, <1>1, <1>2, UpTo
<1> DEFINE g == [i \in 0..n |-> IF i = 0 THEN <<>> ELSE it[i]]
<1>4. FlatIter(it, seqs, n)
  <2>1. \E h : FlatIter(h, seqs, n)
    BY <1>0, <1>3
  <2> QED BY <2>1
<1>5. n # 0 => FlattenSeq(seqs) = it[n]
  BY DEF FlattenSeq, FlatIter
<1>6. n = 0 => FlattenSeq(seqs) = <<>>
  BY <1>0 DEF FlattenSeq
<1> HIDE DEF it
<1>7. g[0] = <<>> /\ \A i \in 1..n : g[i] = it[i]
  BY <1>0
<1>8. FlattenSeq(seqs) = g[n]
  BY <1>0, <1>5, <1>6
<1> HIDE DEF g
<1>9. ASSUME NEW i \in 1..n PROVE g[i] = Joined(g[i - 1], seqs[i])
  <2>1. it[i] = IF i = 1 THEN seqs[i] ELSE it[i - 1] \o seqs[i]
    BY <1>4 DEF FlatIter
  <2>2. CASE i = 1
    <3>1. g[i] = seqs[i] /\ g[i - 1] = <<>>
      BY <1>7, <2>1, <2>2
    <3>2. seqs[i] = Joined(<<>>, seqs[i])
      BY <1>0 DEF Joined
    <3> QED BY <3>1, <3>2, Zenon
  <2>3. CASE i # 1
    <3>1. g[i] = it[i] /\ g[i - 1] = it[i - 1]
      BY <1>7, <2>3
    <3>2. it[i] = Joined(it[i - 1], seqs[i])
      BY <2>1, <2>3 DEF Joined
    <3> QED BY <3>1, <3>2
  <2> QED BY <2>2, <2>3
<1> DEFINE T == {m \in 0..n : g[m] \in Seq(S)}
<1>10. 0 \in T
  <2>1. <<>> \in Seq(S)
    OBVIOUS
  <2>2. g[0] \in Seq(S)
    BY <1>7, <2>1, Zenon
  <2> QED BY <1>0, <2>2
<1>11. ASSUME NEW i \in 1..n, i - 1 \in T PROVE i \in T
  <2>1. g[i - 1] \in Seq(S) /\ seqs[i] \in Seq(S)
    BY <1>0, <1>11
  <2>2. Joined(g[i - 1], seqs[i]) \in Seq(S)
    BY <2>1 DEF Joined
  <2> QED BY <1>9, <2>2
<1>12. \A i \in 0..n : i \in T
  <2> HIDE DEF T
  <2> QED BY <1>0, <1>10, <1>11, UpTo
<1>13. FlatRun(g, seqs, n)
  BY <1>7, <1>9 DEF FlatRun
<1> QED BY <1>8, <1>12, <1>13

\* Flattening takes the sequences from the first on.
LEMMA FlattenHead ==
  ASSUME NEW S, NEW seqs \in Seq(Seq(S)), seqs # <<>>
  PROVE  /\ FlattenSeq(seqs) = Head(seqs) \o FlattenSeq(Tail(seqs))
         /\ FlattenSeq(Tail(seqs)) \in Seq(S) /\ FlattenSeq(seqs) \in Seq(S)
<1> DEFINE n == Len(seqs)
           rest == Tail(seqs)
<1>1. /\ n \in Nat \ {0} /\ n - 1 \in Nat /\ rest \in Seq(Seq(S)) /\ Len(rest) = n - 1
      /\ Head(seqs) \in Seq(S) /\ Head(seqs) = seqs[1]
      /\ \A i \in 1..(n - 1) : rest[i] = seqs[i + 1] /\ rest[i] \in Seq(S)
  OBVIOUS
<1> HIDE DEF n, rest
<1>2. PICK g : /\ FlatRun(g, seqs, n) /\ FlattenSeq(seqs) = g[n]
               /\ \A i \in 0..n : g[i] \in Seq(S)
  BY FlattenSteps DEF n
<1>3. PICK h : /\ FlatRun(h, rest, n - 1) /\ FlattenSeq(rest) = h[n - 1]
               /\ \A i \in 0..(n - 1) : h[i] \in Seq(S)
  BY <1>1, FlattenSteps, ZenonT(60)
<1> DEFINE T == {i \in 0..(n - 1) : g[i + 1] = Joined(Head(seqs), h[i])}
<1>4. 0 \in T
  <2>1. g[1] = Joined(<<>>, seqs[1]) /\ h[0] = <<>>
    BY <1>1, <1>2, <1>3 DEF FlatRun
  <2>2. Joined(<<>>, seqs[1]) = Joined(Head(seqs), <<>>)
    BY <1>1 DEF Joined
  <2>3. g[1] = Joined(Head(seqs), h[0])
    BY <2>1, <2>2
  <2> QED BY <1>1, <2>3
<1>5. ASSUME NEW i \in 1..(n - 1), i - 1 \in T PROVE i \in T
  <2>1. g[i] = Joined(Head(seqs), h[i - 1])
    BY <1>5
  <2>2. g[i + 1] = Joined(g[i], seqs[i + 1])
    BY <1>1, <1>2 DEF FlatRun
  <2>3. h[i] = Joined(h[i - 1], rest[i]) /\ rest[i] = seqs[i + 1]
    BY <1>1, <1>3 DEF FlatRun
  <2>4. Head(seqs) \in Seq(S) /\ h[i - 1] \in Seq(S) /\ rest[i] \in Seq(S)
    BY <1>1, <1>3
  <2>5. Joined(Joined(Head(seqs), h[i - 1]), rest[i])
        = Joined(Head(seqs), Joined(h[i - 1], rest[i]))
    BY <2>4, JoinedAssociative
  <2>6. g[i + 1] = Joined(Head(seqs), h[i])
    BY <2>1, <2>2, <2>3, <2>5
  <2> QED BY <2>6
<1>6. \A i \in 0..(n - 1) : i \in T
  <2> HIDE DEF T
  <2> QED BY <1>1, <1>4, <1>5, UpTo
<1>7. g[n] = Joined(Head(seqs), h[n - 1])
  <2>1. g[(n - 1) + 1] = Joined(Head(seqs), h[n - 1]) /\ (n - 1) + 1 = n
    BY <1>1, <1>6
  <2> QED BY <2>1, Zenon
<1>8. g[n] \in Seq(S) /\ h[n - 1] \in Seq(S)
  BY <1>1, <1>2, <1>3
<1>9. FlattenSeq(seqs) = Head(seqs) \o FlattenSeq(rest)
  BY <1>2, <1>3, <1>7 DEF Joined
<1>10. FlattenSeq(seqs) \in Seq(S) /\ FlattenSeq(rest) \in Seq(S)
  BY <1>2, <1>3, <1>8, Zenon
<1> QED BY <1>9, <1>10 DEF rest

(***************************************************************************)
(* The addresses of a call's buffers                                       *)
(***************************************************************************)
\* The addresses of buffers are those of the first and then of the others.
LEMMA AddressesHead ==
  ASSUME NEW iov \in Seq(Iovec)
  PROVE  /\ iov = <<>> => Addresses(iov) = <<>>
         /\ iov # <<>> =>
              Addresses(iov) = Pages(Head(iov).base, Head(iov).len) \o Addresses(Tail(iov))
         /\ Addresses(iov) \in Seq(Nat \ {0})
<1> DEFINE Lists(v) == [i \in DOMAIN v |-> Pages(v[i].base, v[i].len)]
<1>1. ASSUME NEW v \in Seq(Iovec) PROVE Lists(v) \in Seq(Seq(Nat \ {0})) /\ Len(Lists(v)) = Len(v)
  <2>1. PICK n \in Nat : n = Len(v)
    OBVIOUS
  <2>2. DOMAIN v = 1..n /\ \A i \in 1..n : v[i].base \in Nat \ {0} /\ v[i].len \in Nat \ {0}
    <3>1. DOMAIN v = 1..n /\ \A i \in 1..n : v[i] \in Iovec
      BY <2>1
    <3>2. \A x \in Iovec : x.base \in Nat \ {0} /\ x.len \in Nat \ {0}
      BY DEF Iovec
    <3> QED BY <3>1, <3>2
  <2>3. \A i \in 1..n : Pages(v[i].base, v[i].len) \in Seq(Nat \ {0})
    BY <2>2, PagesType
  <2>4. Lists(v) = [i \in 1..n |-> Pages(v[i].base, v[i].len)]
    BY <2>2
  <2>5. Lists(v) \in [1..n -> Seq(Nat \ {0})]
    BY <2>3, <2>4
  <2> HIDE DEF Lists
  <2>6. Lists(v) \in Seq(Seq(Nat \ {0})) /\ DOMAIN Lists(v) = 1..n
    BY <2>5
  <2> QED BY <2>1, <2>6
<1>2. \A v : Addresses(v) = FlattenSeq(Lists(v))
  BY DEF Addresses
<1>3. CASE iov = <<>>
  <2>1. Lists(iov) = <<>>
    BY <1>3
  <2>2. FlattenSeq(<<>>) = <<>>
    BY DEF FlattenSeq
  <2>3. Addresses(iov) = <<>>
    BY <1>2, <2>1, <2>2, Zenon
  <2>4. <<>> \in Seq(Nat \ {0})
    OBVIOUS
  <2> QED BY <1>3, <2>3, <2>4, Zenon
<1>4. CASE iov # <<>>
  <2>1. Tail(iov) \in Seq(Iovec) /\ iov[1] = Head(iov) /\ Len(iov) \in Nat \ {0}
        /\ Len(Tail(iov)) = Len(iov) - 1 /\ \A i \in 1..(Len(iov) - 1) : Tail(iov)[i] = iov[i + 1]
    BY <1>4
  <2>2. Lists(iov) \in Seq(Seq(Nat \ {0})) /\ Len(Lists(iov)) = Len(iov)
    BY <1>1
  <2>3. Lists(Tail(iov)) \in Seq(Seq(Nat \ {0})) /\ Len(Lists(Tail(iov))) = Len(iov) - 1
    BY <1>1, <2>1
  <2>4. \A i \in 1..Len(iov) : Lists(iov)[i] = Pages(iov[i].base, iov[i].len)
    OBVIOUS
  <2>5. \A i \in 1..(Len(iov) - 1) :
          Lists(Tail(iov))[i] = Pages(Tail(iov)[i].base, Tail(iov)[i].len)
    BY <2>1
  <2>6. \A i \in 1..(Len(iov) - 1) : Lists(Tail(iov))[i] = Lists(iov)[i + 1]
    <3> HIDE DEF Lists
    <3> QED BY <2>1, <2>4, <2>5
  <2> HIDE DEF Lists
  <2>7. Lists(iov) # <<>> /\ Head(Lists(iov)) = Pages(Head(iov).base, Head(iov).len)
    BY <2>1, <2>2, <2>4
  <2>8. Tail(Lists(iov)) = Lists(Tail(iov))
    <3>1. /\ Tail(Lists(iov)) \in Seq(Seq(Nat \ {0})) /\ Len(Tail(Lists(iov))) = Len(iov) - 1
          /\ \A i \in 1..(Len(iov) - 1) : Tail(Lists(iov))[i] = Lists(iov)[i + 1]
      BY <2>2, <2>7
    <3> QED BY <2>3, <2>6, <3>1, SeqEqual
  <2>9. /\ FlattenSeq(Lists(iov)) = Head(Lists(iov)) \o FlattenSeq(Tail(Lists(iov)))
        /\ FlattenSeq(Lists(iov)) \in Seq(Nat \ {0})
    BY <2>2, <2>7, FlattenHead
  <2>10. Addresses(iov) = Pages(Head(iov).base, Head(iov).len) \o Addresses(Tail(iov))
    BY <1>2, <2>7, <2>8, <2>9, Zenon
  <2>11. Addresses(iov) \in Seq(Nat \ {0})
    BY <1>2, <2>9, Zenon
  <2> QED BY <1>4, <2>10, <2>11, Zenon
<1> QED BY <1>3, <1>4

\* By place: the first buffer's addresses go up by one, the others' follow.
LEMMA AddressesAt ==
  ASSUME NEW iov \in Seq(Iovec), iov # <<>>
  PROVE  /\ Addresses(iov) \in Seq(Nat \ {0}) /\ Addresses(Tail(iov)) \in Seq(Nat \ {0})
         /\ Head(iov) \in Iovec
         /\ Len(Addresses(iov)) = Head(iov).len + Len(Addresses(Tail(iov)))
         /\ \A i \in 1..Head(iov).len : Addresses(iov)[i] = Head(iov).base + i - 1
         /\ \A i \in 1..Len(Addresses(Tail(iov))) :
              Addresses(iov)[Head(iov).len + i] = Addresses(Tail(iov))[i]
<1>1. Head(iov) \in Iovec /\ Tail(iov) \in Seq(Iovec)
  OBVIOUS
<1>2. PICK base \in Nat \ {0}, len \in Nat \ {0} : base = Head(iov).base /\ len = Head(iov).len
  BY <1>1 DEF Iovec
<1>3. PICK p, q : p = Pages(base, len) /\ q = Addresses(Tail(iov))
  OBVIOUS
<1>4. p \in Seq(Nat \ {0}) /\ Len(p) = len
  BY <1>2, <1>3, PagesType
<1>5. \A i \in 1..len : p[i] = base + i - 1
  BY <1>3 DEF Pages
<1>6. q \in Seq(Nat \ {0})
  BY <1>1, <1>3, AddressesHead
<1>7. Addresses(iov) = p \o q
  BY <1>2, <1>3, AddressesHead
<1>8. /\ p \o q \in Seq(Nat \ {0}) /\ Len(p \o q) = len + Len(q)
      /\ \A i \in 1..len : (p \o q)[i] = p[i]
      /\ \A i \in 1..Len(q) : (p \o q)[len + i] = q[i]
  <2>1. /\ p \o q \in Seq(Nat \ {0}) /\ Len(p \o q) = Len(p) + Len(q)
        /\ \A i \in 1..(Len(p) + Len(q)) :
             (p \o q)[i] = IF i <= Len(p) THEN p[i] ELSE q[i - Len(p)]
    BY <1>4, <1>6, ConcatProperties
  <2>2. Len(q) \in Nat
    BY <1>6
  <2>3. ASSUME NEW i \in 1..Len(q) PROVE (p \o q)[len + i] = q[i]
    <3>1. len + i \in 1..(len + Len(q)) /\ ~(len + i <= len) /\ (len + i) - len = i
      BY <2>2
    <3> QED BY <1>4, <2>1, <3>1
  <2>4. ASSUME NEW i \in 1..len PROVE (p \o q)[i] = p[i]
    <3>1. i \in 1..(len + Len(q)) /\ i <= len
      BY <2>2
    <3> QED BY <1>4, <2>1, <3>1
  <2> QED BY <1>4, <2>1, <2>3, <2>4
<1> QED BY <1>1, <1>2, <1>3, <1>5, <1>6, <1>7, <1>8

\* n bytes of the first buffer on, the addresses are what is left of them.
LEMMA AddressesAfter ==
  ASSUME NEW iov \in Seq(Iovec), iov # <<>>, NEW n \in Nat, n <= Head(iov).len
  PROVE  /\ Addresses(After(iov, n)) \in Seq(Nat \ {0})
         /\ Len(Addresses(iov)) = n + Len(Addresses(After(iov, n)))
         /\ \A i \in 1..Len(Addresses(After(iov, n))) :
              Addresses(After(iov, n))[i] = Addresses(iov)[n + i]
<1>1. CASE n = Head(iov).len
  <2>1. After(iov, n) = Tail(iov)
    BY <1>1 DEF After
  <2> QED BY <1>1, <2>1, AddressesAt
<1>2. CASE n # Head(iov).len
  <2>1. Head(iov) \in Iovec /\ Tail(iov) \in Seq(Iovec)
    OBVIOUS
  <2>2. PICK base \in Nat \ {0}, len \in Nat \ {0} : base = Head(iov).base /\ len = Head(iov).len
    BY <2>1 DEF Iovec
  <2>3. PICK x : x = [base |-> base + n, len |-> len - n]
    OBVIOUS
  <2>4. x \in Iovec /\ x.base = base + n /\ x.len = len - n
    <3>1. base + n \in Nat \ {0} /\ len - n \in Nat \ {0}
      BY <1>2, <2>2
    <3> QED BY <2>3, <3>1 DEF Iovec
  <2>5. PICK v : v = <<x>> \o Tail(iov)
    OBVIOUS
  <2>6. After(iov, n) = v
    BY <1>2, <2>2, <2>3, <2>5 DEF After
  <2>7. v \in Seq(Iovec) /\ v # <<>> /\ Head(v) = x /\ Tail(v) = Tail(iov)
    <3>1. <<x>> \in Seq(Iovec) /\ Len(<<x>>) = 1 /\ <<x>>[1] = x
      BY <2>4
    <3>2. /\ v \in Seq(Iovec) /\ Len(v) = 1 + Len(Tail(iov)) /\ v[1] = x
          /\ \A i \in 1..Len(Tail(iov)) : v[i + 1] = Tail(iov)[i]
      BY <2>1, <2>5, <3>1
    <3>3. v # <<>> /\ Head(v) = x /\ Tail(v) \in Seq(Iovec) /\ Len(Tail(v)) = Len(Tail(iov))
      BY <2>1, <3>2
    <3>4. \A i \in 1..Len(Tail(iov)) : Tail(v)[i] = Tail(iov)[i]
      BY <2>1, <3>2, <3>3
    <3> QED BY <2>1, <3>2, <3>3, <3>4, SeqEqual
  <2>8. PICK a, b, q : a = Addresses(iov) /\ b = Addresses(v) /\ q = Addresses(Tail(iov))
    OBVIOUS
  <2>9. /\ a \in Seq(Nat \ {0}) /\ Len(a) = len + Len(q) /\ q \in Seq(Nat \ {0})
        /\ \A i \in 1..len : a[i] = base + i - 1
        /\ \A i \in 1..Len(q) : a[len + i] = q[i]
    BY <2>2, <2>8, AddressesAt
  <2>10. /\ b \in Seq(Nat \ {0}) /\ Len(b) = (len - n) + Len(q)
         /\ \A i \in 1..(len - n) : b[i] = (base + n) + i - 1
         /\ \A i \in 1..Len(q) : b[(len - n) + i] = q[i]
    BY <2>4, <2>7, <2>8, AddressesAt, ZenonT(60)
  <2>11. ASSUME NEW i \in 1..Len(b) PROVE b[i] = a[n + i]
    <3>0. /\ i \in Nat /\ i >= 1 /\ i <= (len - n) + Len(q) /\ Len(q) \in Nat
          /\ n \in Nat /\ n <= len /\ len \in Nat /\ base \in Nat
      <4>1. n \in Nat /\ n <= len /\ len \in Nat /\ base \in Nat
        BY <2>2
      <4>2. Len(q) \in Nat
        BY <2>9
      <4>3. Len(b) = (len - n) + Len(q)
        BY <2>10
      <4> QED BY <4>1, <4>2, <4>3
    <3>1. CASE i <= len - n
      <4>1. i \in 1..(len - n) /\ n + i \in 1..len /\ (base + n) + i - 1 = base + (n + i) - 1
        BY <3>0, <3>1
      <4> QED BY <2>9, <2>10, <4>1
    <3>2. CASE ~(i <= len - n)
      <4> DEFINE j == i - (len - n)
      <4>1. j \in 1..Len(q) /\ i = (len - n) + j /\ n + i = len + j
        BY <3>0, <3>2
      <4> HIDE DEF j
      <4> QED BY <2>9, <2>10, <4>1
    <3> QED BY <3>1, <3>2
  <2>12. Len(a) = n + Len(b)
    BY <2>2, <2>9, <2>10, SMTT(60)
  <2> QED BY <2>6, <2>8, <2>10, <2>11, <2>12
<1> QED BY <1>1, <1>2

(***************************************************************************)
(* The transfer                                                            *)
(***************************************************************************)
\* The addresses of the call, the frame of the i-th, and what a read is to give.
Adr == Addresses(began.iov)
FrameAt(i) == UserMap[Adr[i]].frame
InCall == phase # "idle" /\ Rw /\ fds[call.fd] # Closed
Src == Source(fds[call.fd].file)

\* What the call found is typed.
Begins ==
  /\ began.iov \in Seq(Iovec) /\ began.content \in Seq(Byte)
  /\ InCall => began.iov \in Vectors

\* The buffers still to be filled or written are those after what was counted.
Remains ==
  InCall =>
    /\ call.total <= Len(Adr) /\ \A i \in 1..call.total : Adr[i] \in DOMAIN UserMap
    /\ phase # "return" =>
         /\ Len(Adr) = call.total + Len(Addresses(call.iov))
         /\ \A i \in 1..Len(Addresses(call.iov)) : Adr[call.total + i] = Addresses(call.iov)[i]

\* What a read has counted is in memory; what its session has copied is too.
ReadDone ==
  InCall /\ call.op = "read" =>
    /\ content = began.content /\ call.total <= Len(Src)
    /\ \A i \in 1..call.total : mem[FrameAt(i)] = Src[i]
ReadSession ==
  InCall /\ call.op = "read" /\ phase \in {"copy", "release"} =>
    /\ call.total + Len(kbuf) <= Len(Src)
    /\ \A i \in 1..Len(kbuf) : kbuf[i] = Src[call.total + i]
    /\ \A j \in 1..Len(todo) : todo[j] = Adr[call.total + (Len(kbuf) - Len(todo)) + j]
    /\ \A i \in 1..(Len(kbuf) - Len(todo)) :
         Adr[call.total + i] \in DOMAIN UserMap /\ mem[FrameAt(call.total + i)] = kbuf[i]
    /\ phase = "release" /\ ok => todo = <<>>

\* What a write has counted is in the file or the pipe; what its session has
\* copied is what memory holds.
WriteDone ==
  InCall /\ call.op = "write" =>
    IF fds[call.fd].file = "reg"
    THEN content = Overwritten(began.content, began.offset, BytesAt(mem, Counted))
    ELSE buf = began.buf \o BytesAt(mem, Counted)
WriteSession ==
  InCall /\ call.op = "write" /\ phase \in {"copy", "release", "send"} =>
    /\ phase = "copy" => \A j \in 1..Len(todo) : todo[j] = Adr[call.total + Len(kbuf) + j]
    /\ \A i \in 1..Len(kbuf) :
         Adr[call.total + i] \in DOMAIN UserMap /\ kbuf[i] = mem[FrameAt(call.total + i)]

TInv == Begins /\ Remains /\ ReadDone /\ ReadSession /\ WriteDone /\ WriteSession

\* A write of nothing changes nothing.
LEMMA OverwrittenNone ==
  ASSUME NEW file \in Seq(Byte), NEW offset \in Nat
  PROVE  Overwritten(file, offset, <<>>) = file
<1>1. PICK n \in Nat : n = Len(file)
  OBVIOUS
<1>2. Overwritten(file, offset, <<>>) =
        [i \in 1..n |-> IF i \in (offset + 1)..(offset + 0) THEN <<>>[i - offset]
                        ELSE IF i <= n THEN file[i] ELSE Zero]
  BY <1>1 DEF Overwritten
<1>3. \A i \in 1..n : i \notin (offset + 1)..(offset + 0) /\ i <= n
  BY <1>1
<1>4. Overwritten(file, offset, <<>>) = [i \in 1..n |-> file[i]]
  BY <1>2, <1>3
<1> QED BY <1>1, <1>4

\* What a file holds after a write is bytes.
LEMMA OverwrittenSeq ==
  ASSUME NEW file \in Seq(Byte), NEW offset \in Nat, NEW bytes \in Seq(Byte)
  PROVE  Overwritten(file, offset, bytes) \in Seq(Byte)
<1> DEFINE end == offset + Len(bytes)
           l == IF bytes = <<>> \/ end < Len(file) THEN Len(file) ELSE end
           At(i) == IF i \in (offset + 1)..end THEN bytes[i - offset]
                    ELSE IF i <= Len(file) THEN file[i] ELSE Zero
<1>1. l \in Nat /\ end \in Nat /\ Len(file) \in Nat /\ Len(bytes) \in Nat
  OBVIOUS
<1>2. ASSUME NEW i \in 1..l PROVE At(i) \in Byte
  <2>1. i \in Nat /\ i >= 1
    BY <1>1
  <2>2. CASE i \in (offset + 1)..end
    <3>1. i - offset \in 1..Len(bytes)
      BY <1>1, <2>2
    <3> QED BY <2>2, <3>1
  <2>3. CASE i \notin (offset + 1)..end /\ i <= Len(file)
    BY <1>1, <2>1, <2>3
  <2>4. CASE i \notin (offset + 1)..end /\ ~(i <= Len(file))
    BY <2>4, MemoryAssumption
  <2> QED BY <2>2, <2>3, <2>4
<1>3. Overwritten(file, offset, bytes) = [i \in 1..l |-> At(i)]
  BY DEF Overwritten
<1> HIDE DEF l, At
<1>4. [i \in 1..l |-> At(i)] \in Seq(Byte)
  BY <1>1, <1>2
<1> QED BY <1>3, <1>4

\* Two writes, one at the end of the other, are one write of both.
LEMMA OverwrittenTwice ==
  ASSUME NEW file \in Seq(Byte), NEW offset \in Nat, NEW x \in Seq(Byte), NEW y \in Seq(Byte)
  PROVE  Overwritten(Overwritten(file, offset, x), offset + Len(x), y)
         = Overwritten(file, offset, x \o y)
<1>1. CASE x = <<>>
  <2>1. Overwritten(file, offset, x) = file /\ Len(x) = 0 /\ x \o y = y
    BY <1>1, OverwrittenNone
  <2>2. offset + Len(x) = offset
    BY <2>1
  <2> QED BY <2>1, <2>2, Zenon
<1>2. PICK f : f = Overwritten(file, offset, x)
  OBVIOUS
<1>3. CASE y = <<>> /\ x # <<>>
  <2>0. f \in Seq(Byte)
    BY <1>2, OverwrittenSeq
  <2>1. Overwritten(f, offset + Len(x), y) = f /\ x \o y = x
    BY <1>3, <2>0, OverwrittenNone
  <2> QED BY <1>2, <2>1, Zenon
<1>4. CASE y # <<>> /\ x # <<>>
  <2>1. PICK n \in Nat, m \in Nat \ {0}, k \in Nat \ {0} : n = Len(file) /\ m = Len(x) /\ k = Len(y)
    BY <1>4
  <2>2. /\ Len(x \o y) = m + k /\ x \o y # <<>>
        /\ \A i \in 1..m : (x \o y)[i] = x[i]
        /\ \A i \in 1..k : (x \o y)[m + i] = y[i]
    BY <1>4, <2>1
  <2>3. PICK z : z = x \o y
    OBVIOUS
  <2> DEFINE l1 == IF offset + m < n THEN n ELSE offset + m
             l2 == IF offset + m + k < l1 THEN l1 ELSE offset + m + k
             l3 == IF offset + (m + k) < n THEN n ELSE offset + (m + k)
  <2>4. f = [i \in 1..l1 |-> IF i \in (offset + 1)..(offset + m) THEN x[i - offset]
                             ELSE IF i <= n THEN file[i] ELSE Zero]
    BY <1>2, <1>4, <2>1 DEF Overwritten
  <2>5. l1 \in Nat /\ l2 = l3 /\ l3 \in Nat
    BY <2>1
  <2>6. Len(f) = l1
    <3> HIDE DEF l1
    <3> QED BY <2>4, <2>5
  <2>7. Overwritten(f, offset + m, y) =
          [i \in 1..l2 |-> IF i \in (offset + m + 1)..(offset + m + k) THEN y[i - (offset + m)]
                           ELSE IF i <= l1 THEN f[i] ELSE Zero]
    BY <1>4, <2>1, <2>6 DEF Overwritten
  <2>8. Overwritten(file, offset, z) =
          [i \in 1..l3 |-> IF i \in (offset + 1)..(offset + (m + k)) THEN z[i - offset]
                           ELSE IF i <= n THEN file[i] ELSE Zero]
    BY <2>1, <2>2, <2>3 DEF Overwritten
  <2>9. ASSUME NEW i \in 1..l3
        PROVE  (IF i \in (offset + m + 1)..(offset + m + k) THEN y[i - (offset + m)]
                ELSE IF i <= l1 THEN f[i] ELSE Zero)
               = (IF i \in (offset + 1)..(offset + (m + k)) THEN z[i - offset]
                  ELSE IF i <= n THEN file[i] ELSE Zero)
    <3>0. i \in Nat /\ i >= 1 /\ offset \in Nat /\ m \in Nat /\ k \in Nat /\ n \in Nat
      BY <2>1, <2>5
    <3>1. CASE i \in (offset + m + 1)..(offset + m + k)
      <4>1. i - (offset + m) \in 1..k /\ i - offset = m + (i - (offset + m))
            /\ i \in (offset + 1)..(offset + (m + k))
        BY <3>0, <3>1
      <4>2. z[i - offset] = y[i - (offset + m)]
        BY <2>2, <2>3, <4>1
      <4> QED BY <3>1, <4>1, <4>2
    <3>2. CASE i \in (offset + 1)..(offset + m)
      <4>1. /\ i \notin (offset + m + 1)..(offset + m + k) /\ i - offset \in 1..m
            /\ i \in (offset + 1)..(offset + (m + k)) /\ i <= l1 /\ i \in 1..l1
        BY <3>0, <3>2
      <4>2. f[i] = x[i - offset]
        BY <2>4, <3>2, <4>1
      <4>3. z[i - offset] = x[i - offset]
        BY <2>2, <2>3, <4>1
      <4> HIDE DEF l1
      <4> QED BY <4>1, <4>2, <4>3
    <3>3. CASE i \notin (offset + 1)..(offset + (m + k))
      <4>1. i \notin (offset + m + 1)..(offset + m + k) /\ i \notin (offset + 1)..(offset + m)
        BY <3>0, <3>3
      <4>2. i <= l1 => i \in 1..l1 /\ f[i] = IF i <= n THEN file[i] ELSE Zero
        <5>1. i <= l1 => i \in 1..l1
          BY <3>0, <2>5
        <5> HIDE DEF l1
        <5> QED BY <2>4, <4>1, <5>1
      <4>3. ~(i <= l1) => ~(i <= n)
        BY <3>0
      <4> HIDE DEF l1
      <4> QED BY <3>3, <4>1, <4>2, <4>3
    <3>4. \/ i \in (offset + m + 1)..(offset + m + k) \/ i \in (offset + 1)..(offset + m)
          \/ i \notin (offset + 1)..(offset + (m + k))
      BY <3>0
    <3> QED BY <3>1, <3>2, <3>3, <3>4, Zenon
  <2> HIDE DEF l1, l2, l3
  <2>10. Overwritten(f, offset + m, y) = Overwritten(file, offset, z)
    BY <2>5, <2>7, <2>8, <2>9
  <2> QED BY <1>2, <2>1, <2>3, <2>10
<1> QED BY <1>1, <1>3, <1>4

\* sent holds the bytes of the n addresses after the first t.
Carries(memory, a, t, n, sent) ==
  /\ t + n <= Len(a) /\ \A i \in 1..(t + n) : a[i] \in DOMAIN UserMap
  /\ Len(sent) = n /\ \A i \in 1..n : sent[i] = memory[UserMap[a[t + i]].frame]

\* The bytes at the counted addresses, before and after n more.
LEMMA BytesGrow ==
  ASSUME NEW memory \in [Frame -> Byte], NEW a \in Seq(Nat \ {0}), NEW t \in Nat, NEW n \in Nat,
         NEW sent \in Seq(Byte), Carries(memory, a, t, n, sent)
  PROVE  /\ BytesAt(memory, SubSeq(a, 1, t)) \in Seq(Byte)
         /\ Len(BytesAt(memory, SubSeq(a, 1, t))) = t
         /\ BytesAt(memory, SubSeq(a, 1, t + n)) = Joined(BytesAt(memory, SubSeq(a, 1, t)), sent)
<1>0. /\ t + n <= Len(a) /\ \A i \in 1..(t + n) : a[i] \in DOMAIN UserMap
      /\ Len(sent) = n /\ \A i \in 1..n : sent[i] = memory[UserMap[a[t + i]].frame]
  BY DEF Carries
<1>1. ASSUME NEW u \in Nat, u <= t + n
      PROVE  /\ BytesAt(memory, SubSeq(a, 1, u)) \in Seq(Byte)
             /\ Len(BytesAt(memory, SubSeq(a, 1, u))) = u
             /\ \A i \in 1..u : BytesAt(memory, SubSeq(a, 1, u))[i] = memory[UserMap[a[i]].frame]
  <2>0. u <= Len(a) /\ Len(a) \in Nat
    BY <1>0, <1>1
  <2>1. PICK s : s = SubSeq(a, 1, u)
    OBVIOUS
  <2>2. DOMAIN s = 1..u /\ \A i \in 1..u : s[i] = a[i]
    BY <2>0, <2>1
  <2>3. \A i \in 1..u : memory[UserMap[a[i]].frame] \in Byte
    <3> TAKE i \in 1..u
    <3>1. i \in 1..(t + n)
      BY <1>1
    <3>2. UserMap[a[i]].frame \in Frame
      BY <1>0, <3>1, MemoryAssumption
    <3> QED BY <3>2
  <2>4. BytesAt(memory, s) = [i \in 1..u |-> memory[UserMap[a[i]].frame]]
    BY <2>2 DEF BytesAt
  <2>5. [i \in 1..u |-> memory[UserMap[a[i]].frame]] \in Seq(Byte)
    BY <2>3, SMTT(60)
  <2>6. PICK b : b = BytesAt(memory, s)
    OBVIOUS
  <2>7. b \in Seq(Byte) /\ DOMAIN b = 1..u /\ \A i \in 1..u : b[i] = memory[UserMap[a[i]].frame]
    BY <2>4, <2>5, <2>6
  <2>8. Len(b) = u
    BY <1>1, <2>7
  <2> QED BY <2>1, <2>6, <2>7, <2>8
<1>2. PICK x, y : x = BytesAt(memory, SubSeq(a, 1, t)) /\ y = BytesAt(memory, SubSeq(a, 1, t + n))
  OBVIOUS
<1>3. x \in Seq(Byte) /\ Len(x) = t /\ \A i \in 1..t : x[i] = memory[UserMap[a[i]].frame]
  <2>1. t <= t + n
    OBVIOUS
  <2> QED BY <1>1, <1>2, <2>1
<1>4. y \in Seq(Byte) /\ Len(y) = t + n /\ \A i \in 1..(t + n) : y[i] = memory[UserMap[a[i]].frame]
  <2>1. t + n \in Nat /\ t + n <= t + n
    OBVIOUS
  <2> QED BY <1>1, <1>2, <2>1
<1>5. /\ x \o sent \in Seq(Byte) /\ Len(x \o sent) = t + n
      /\ \A i \in 1..(t + n) : (x \o sent)[i] = IF i <= t THEN x[i] ELSE sent[i - t]
  BY <1>0, <1>3, ConcatProperties, ZenonT(60)
<1>6. ASSUME NEW i \in 1..(t + n) PROVE y[i] = (x \o sent)[i]
  <2>1. CASE i <= t
    <3>1. i \in 1..t
      BY <2>1
    <3> QED BY <1>3, <1>4, <1>5, <2>1, <3>1
  <2>2. CASE ~(i <= t)
    <3>1. i - t \in 1..n /\ t + (i - t) = i
      BY <2>2
    <3>2. sent[i - t] = memory[UserMap[a[t + (i - t)]].frame]
      BY <1>0, <3>1
    <3>3. (x \o sent)[i] = sent[i - t]
      BY <1>5, <2>2
    <3> QED BY <1>4, <3>1, <3>2, <3>3
  <2> QED BY <2>1, <2>2
<1>7. y = x \o sent
  BY <1>4, <1>5, <1>6, SeqEqual
<1> QED BY <1>2, <1>3, <1>7 DEF Joined

\* The addresses of the chunk a call is at.
LEMMA ChunkAddresses ==
  ASSUME IInv, Begins, Remains, InCall, phase # "return"
  PROVE  /\ Adr \in Seq(Nat \ {0}) /\ Len(Adr) \in Nat /\ call.total \in Nat
         /\ call.iov \in Seq(Iovec) /\ call.iov # <<>> /\ call.fd \in Fd /\ fds[call.fd] \in Handle
         /\ Chunk \in Nat \ {0} /\ Chunk <= RwChunk /\ Chunk <= Head(call.iov).len
         /\ call.total + Chunk <= Len(Adr)
         /\ \A i \in 1..Chunk : Adr[call.total + i] = Head(call.iov).base + i - 1
<1>1. Adr \in Seq(Nat \ {0})
  BY AddressesHead DEF Begins, Adr
<1>2. CallType /\ CallShape /\ DataType
  BY DEF IInv
<1>3. call.iov \in Seq(Iovec) /\ call.total \in Nat
  BY <1>2 DEF CallType
<1>4. call.iov # <<>> /\ call.fd \in Fd
  <2>1. phase \in {"rw", "copy", "release", "send"}
    BY <1>2 DEF CallType, InCall
  <2> QED BY <1>2, <2>1 DEF CallShape, InCall
<1>5. fds[call.fd] \in Handle
  BY <1>2, <1>4 DEF DataType, InCall
<1>6. Chunk \in Nat \ {0} /\ Chunk <= RwChunk /\ Chunk <= Head(call.iov).len
  BY <1>2, <1>4, ChunkSize
<1>q. PICK q : q = Addresses(call.iov)
  OBVIOUS
<1>7. PICK len \in Nat \ {0} : len = Head(call.iov).len
  BY <1>3, <1>4, AddressesAt DEF Iovec
<1>8. /\ q \in Seq(Nat \ {0}) /\ Len(q) \in Nat /\ len <= Len(q)
      /\ \A i \in 1..len : q[i] = Head(call.iov).base + i - 1
  <2>1. /\ q \in Seq(Nat \ {0}) /\ Addresses(Tail(call.iov)) \in Seq(Nat \ {0})
        /\ Len(q) = len + Len(Addresses(Tail(call.iov)))
        /\ \A i \in 1..len : q[i] = Head(call.iov).base + i - 1
    BY <1>3, <1>4, <1>7, <1>q, AddressesAt
  <2>2. Len(Addresses(Tail(call.iov))) \in Nat
    BY <2>1
  <2> QED BY <2>1, <2>2
<1>9. Len(Adr) = call.total + Len(q) /\ \A i \in 1..Len(q) : Adr[call.total + i] = q[i]
  BY <1>q DEF Remains
<1>10. call.total + Chunk <= Len(Adr)
  BY <1>3, <1>6, <1>7, <1>8, <1>9, SMTT(60)
<1>11. \A i \in 1..Chunk : i \in 1..len /\ i \in 1..Len(q)
  BY <1>6, <1>7, <1>8
<1>12. Len(Adr) \in Nat
  BY <1>1
<1> QED BY <1>1, <1>3, <1>4, <1>5, <1>6, <1>8, <1>9, <1>10, <1>11, <1>12

\* A call that ends keeps what it has counted.
LEMMA EndKeeps ==
  ASSUME TInv, phase # "idle", phase' = "return",
         UNCHANGED <<fds, call, began, mem, content>>, call.op = "write" => buf' = buf
  PROVE  TInv'
<1>1. InCall' => InCall
  BY DEF InCall, Rw
<1>2. Adr' = Adr /\ Src' = Src /\ Counted' = Counted
  BY DEF Adr, Src, Source, Counted
<1>3. Begins' /\ Remains'
  BY <1>1, <1>2 DEF TInv, Begins, Remains
<1>4. ReadDone'
  BY <1>1, <1>2 DEF TInv, ReadDone, FrameAt
<1>5. WriteDone'
  BY <1>1, <1>2 DEF TInv, WriteDone
<1>6. ReadSession' /\ WriteSession'
  BY DEF ReadSession, WriteSession
<1> QED BY <1>3, <1>4, <1>5, <1>6 DEF TInv

\* Outside of a read or write there is nothing to say.
LEMMA NoCallKeeps ==
  ASSUME ~InCall', began'.iov \in Seq(Iovec), began'.content \in Seq(Byte)
  PROVE  TInv'
  BY DEF TInv, Begins, Remains, ReadDone, ReadSession, WriteDone, WriteSession

\* n more bytes are counted, and the buffers that remain are those after them.
LEMMA Moves ==
  ASSUME IInv, Begins, Remains, InCall, phase \in {"release", "send"},
         NEW n \in Nat, n <= Chunk, Advance(n), began' = began,
         \A i \in 1..n : Adr[call.total + i] \in DOMAIN UserMap
  PROVE  /\ Begins' /\ Remains' /\ phase' \in {"rw", "return"}
         /\ call'.total = call.total + n /\ call'.op = call.op /\ call'.fd = call.fd
         /\ fds'[call.fd].file = fds[call.fd].file /\ InCall'
         /\ Adr' = Adr /\ call.total + n <= Len(Adr)
         /\ \A i \in 1..(call.total + n) : Adr[i] \in DOMAIN UserMap
<1>1. /\ Adr \in Seq(Nat \ {0}) /\ Len(Adr) \in Nat /\ call.total \in Nat
      /\ call.iov \in Seq(Iovec) /\ call.iov # <<>> /\ call.fd \in Fd /\ fds[call.fd] \in Handle
      /\ Chunk \in Nat \ {0} /\ Chunk <= Head(call.iov).len
      /\ call.total + Chunk <= Len(Adr)
  BY ChunkAddresses
<1>2. fds \in [Fd -> Handle \cup {Closed}] /\ CallType
  BY DEF IInv, DataType
<1>3. fds' = [fds EXCEPT ![call.fd].offset = @ + n]
  BY DEF Advance, Moved
<1>4. call' = [call EXCEPT !.total = @ + n, !.iov = After(@, n)]
  BY DEF Advance, Moved
<1>5. /\ call'.total = call.total + n /\ call'.op = call.op /\ call'.fd = call.fd
      /\ call'.iov = After(call.iov, n)
  BY <1>2, <1>4 DEF CallType
<1>6. fds'[call.fd].file = fds[call.fd].file /\ fds'[call.fd] # Closed
  <2>1. fds[call.fd].offset + n \in Nat
    BY <1>1 DEF Handle
  <2>2. fds'[call.fd] = [fds[call.fd] EXCEPT !.offset = @ + n]
    BY <1>1, <1>2, <1>3
  <2>3. fds'[call.fd] \in Handle /\ fds'[call.fd].file = fds[call.fd].file
    BY <1>1, <2>1, <2>2 DEF Handle
  <2> QED BY <2>3, MemoryAssumption
<1>7. phase' \in {"rw", "return"}
  BY DEF Advance
<1>8. InCall'
  BY <1>5, <1>6, <1>7 DEF InCall, Rw
<1>9. Adr' = Adr
  BY DEF Adr
<1>10. Begins'
  BY DEF Begins, InCall
<1>11. call.total + n <= Len(Adr)
  BY <1>1
<1>12. ASSUME NEW i \in 1..(call.total + n) PROVE Adr[i] \in DOMAIN UserMap
  <2>1. CASE i <= call.total
    <3>1. i \in 1..call.total
      BY <1>1, <2>1
    <3> QED BY <3>1 DEF Remains
  <2>2. CASE ~(i <= call.total)
    <3>1. i - call.total \in 1..n /\ call.total + (i - call.total) = i
      BY <1>1, <2>2, SMTT(60)
    <3>2. Adr[call.total + (i - call.total)] \in DOMAIN UserMap
      BY <3>1
    <3> QED BY <3>1, <3>2
  <2> QED BY <2>1, <2>2
<1>13. Remains'
  <2>1. n <= Head(call.iov).len
    <3>1. Head(call.iov).len \in Nat
      BY <1>1, AddressesAt DEF Iovec
    <3> QED BY <1>1, <3>1
  <2>2. PICK a, b : a = Addresses(call.iov) /\ b = Addresses(After(call.iov, n))
    OBVIOUS
  <2>3. /\ b \in Seq(Nat \ {0}) /\ Len(a) = n + Len(b)
        /\ \A i \in 1..Len(b) : b[i] = a[n + i]
    BY <1>1, <2>1, <2>2, AddressesAfter
  <2>4. Len(b) \in Nat
    BY <2>3
  <2>5. Len(Adr) = call.total + Len(a) /\ \A i \in 1..Len(a) : Adr[call.total + i] = a[i]
    BY <2>2 DEF Remains
  <2>6. Len(Adr) = (call.total + n) + Len(b)
    BY <1>1, <2>3, <2>4, <2>5
  <2>7. ASSUME NEW i \in 1..Len(b) PROVE Adr[(call.total + n) + i] = b[i]
    <3>1. n + i \in 1..Len(a) /\ call.total + (n + i) = (call.total + n) + i
      BY <1>1, <2>3, <2>4
    <3>2. Adr[call.total + (n + i)] = a[n + i]
      BY <2>5, <3>1
    <3> QED BY <2>3, <3>1, <3>2
  <2>8. Addresses(call'.iov) = b
    BY <1>5, <2>2
  <2> QED BY <1>5, <1>9, <1>11, <1>12, <2>6, <2>7, <2>8 DEF Remains
<1> QED BY <1>5, <1>6, <1>7, <1>8, <1>9, <1>10, <1>11, <1>12, <1>13

(***************************************************************************)
(* The steps of a transfer                                                 *)
(***************************************************************************)
\* A read or write called: nothing is counted yet.
LEMMA MoveSysRw == IInv /\ TInv /\ SysRw => TInv'
<1> SUFFICES ASSUME IInv, TInv, SysRw PROVE TInv'
  OBVIOUS
<1>d. DataType
  BY DEF IInv
<1>1. phase' = "rw" /\ UNCHANGED <<fds, content, buf, mem>>
  BY DEF SysRw, data
<1>2. PICK op \in {"read", "write"}, fd \in Fd, iov \in Vectors : Begin(op, fd, iov)
  BY DEF SysRw
<1>3. iov \in Seq(Iovec)
  BY MemoryAssumption DEF Iovec
<1>4. /\ call'.op = op /\ call'.fd = fd /\ call'.iov = iov /\ call'.total = 0
      /\ began'.iov = iov /\ began'.content = content /\ began'.buf = buf
  BY <1>2 DEF Begin
<1>5. began'.offset \in Nat
  BY <1>d, <1>2, <1>3, Begun
<1>6. Begins'
  BY <1>d, <1>2, <1>3, <1>4 DEF Begins, DataType
<1>7. Adr' = Addresses(iov) /\ Adr' \in Seq(Nat \ {0})
  BY <1>3, <1>4, AddressesHead DEF Adr
<1>8. Len(Adr') \in Nat
  BY <1>7
<1>9. Remains'
  BY <1>4, <1>7, <1>8 DEF Remains
<1>10. ReadDone'
  <2>1. Src' \in Seq(Byte)
    <3>1. began'.buf \in Seq(Byte) /\ began'.content \in Seq(Byte)
      BY <1>d, <1>4 DEF DataType
    <3>2. SubSeq(began'.content, began'.offset + 1, Len(began'.content)) \in Seq(Byte)
      BY <1>5, <3>1
    <3> QED BY <3>1, <3>2 DEF Src, Source
  <2>2. 0 <= Len(Src')
    BY <2>1
  <2> QED BY <1>1, <1>4, <2>2 DEF ReadDone
<1>11. WriteDone'
  <2>1. Counted' = <<>>
    <3>1. Counted' = SubSeq(Adr', 1, 0)
      BY <1>4 DEF Counted, Adr
    <3> QED BY <1>7, <3>1
  <2>2. BytesAt(mem, <<>>) = <<>>
    BY DEF BytesAt
  <2>3. BytesAt(mem, Counted)' = <<>>
    BY <1>1, <2>1, <2>2
  <2>4. Overwritten(content, began'.offset, <<>>) = content /\ buf \o <<>> = buf
    BY <1>d, <1>5, OverwrittenNone DEF DataType
  <2>5. WriteDone' <=> (InCall' /\ call'.op = "write" =>
          IF fds'[call'.fd].file = "reg"
          THEN content' = Overwritten(began'.content, began'.offset, BytesAt(mem, Counted)')
          ELSE buf' = began'.buf \o BytesAt(mem, Counted)')
    BY DEF WriteDone, BytesAt, Overwritten
  <2> QED BY <1>1, <1>4, <2>3, <2>4, <2>5
<1>12. ReadSession' /\ WriteSession'
  BY <1>1 DEF ReadSession, WriteSession
<1> QED BY <1>6, <1>9, <1>10, <1>11, <1>12 DEF TInv

\* The steps that are of no read or write.
LEMMA MoveOthers ==
  IInv /\ TInv /\ (SysExecve \/ SysLseek \/ SysDup \/ SysClose \/ Return) => TInv'
<1> SUFFICES ASSUME IInv, TInv, SysExecve \/ SysLseek \/ SysDup \/ SysClose \/ Return PROVE TInv'
  OBVIOUS
<1>1. CASE SysLseek \/ SysDup \/ SysClose
  <2>1. phase' = "idle" /\ began' = began
    BY <1>1 DEF SysLseek, SysDup, SysClose, Called
  <2> QED BY <2>1, NoCallKeeps DEF TInv, Begins, InCall
<1>2. CASE Return
  <2>1. phase' = "idle" /\ began' = NoBegan
    BY <1>2 DEF Return
  <2>2. <<>> \in Seq(Iovec) /\ <<>> \in Seq(Byte)
    OBVIOUS
  <2> QED BY <2>1, <2>2, NoCallKeeps DEF InCall, NoBegan
<1>3. CASE SysExecve
  <2>1. PICK pages \in ExecInputs :
          Begin("execve", 0, [i \in DOMAIN pages |-> [base |-> pages[i], len |-> 1]])
    BY <1>3 DEF SysExecve
  <2>2. PICK iov : iov = [i \in DOMAIN pages |-> [base |-> pages[i], len |-> 1]]
    OBVIOUS
  <2>3. iov \in Seq(Iovec)
    <3>1. pages \in Seq(Nat \ {0})
      BY MemoryAssumption
    <3>2. PICK n \in Nat : n = Len(pages)
      BY <3>1
    <3>3. DOMAIN pages = 1..n /\ \A i \in 1..n : pages[i] \in Nat \ {0}
      BY <3>1, <3>2
    <3>4. iov = [i \in 1..n |-> [base |-> pages[i], len |-> 1]]
      BY <2>2, <3>3
    <3>5. iov \in [1..n -> Iovec]
      BY <3>3, <3>4 DEF Iovec
    <3> QED BY <3>5
  <2>4. call'.op = "execve" /\ began'.iov = iov /\ began'.content = content
    BY <2>1, <2>2 DEF Begin
  <2>5. content \in Seq(Byte)
    BY DEF IInv, DataType
  <2> QED BY <2>3, <2>4, <2>5, NoCallKeeps DEF InCall, Rw
<1> QED BY <1>1, <1>2, <1>3

\* The steps that end a call before its chunk has moved.
LEMMA MoveRefused == IInv /\ TInv /\ (RwRefused \/ RwFails) => TInv'
<1> SUFFICES ASSUME IInv, TInv, RwRefused \/ RwFails PROVE TInv'
  OBVIOUS
<1>1. /\ phase # "idle" /\ phase' = "return"
      /\ UNCHANGED <<fds, call, began, mem, content, buf>>
  BY DEF RwRefused, RwFails, CallEnds
<1> QED BY <1>1, EndKeeps

\* A write's session opens.
LEMMA MoveRwWrite == IInv /\ TInv /\ RwWrite => TInv'
<1> SUFFICES ASSUME IInv, TInv, RwWrite PROVE TInv'
  OBVIOUS
<1>1. /\ phase = "rw" /\ phase' = "copy" /\ call.op = "write" /\ fds[call.fd] # Closed
      /\ UNCHANGED <<fds, content, buf, call, mem, began>>
      /\ todo' = Pages(Head(call.iov).base, Chunk) /\ kbuf' = <<>>
  BY DEF RwWrite, OpenSession, data
<1>2. InCall /\ InCall'
  BY <1>1 DEF InCall, Rw
<1>3. Adr' = Adr /\ Counted' = Counted
  BY <1>1 DEF Adr, Counted
<1>4. Begins' /\ Remains'
  BY <1>1, <1>2, <1>3 DEF TInv, Begins, Remains
<1>5. ReadDone' /\ ReadSession'
  BY <1>1 DEF ReadDone, ReadSession
<1>6. WriteDone'
  BY <1>1, <1>2, <1>3 DEF TInv, WriteDone
<1>7. WriteSession'
  <2>1. /\ call.total \in Nat /\ Chunk \in Nat \ {0} /\ Head(call.iov).base \in Nat \ {0}
        /\ \A i \in 1..Chunk : Adr[call.total + i] = Head(call.iov).base + i - 1
    <3>1. Head(call.iov) \in Iovec
      BY <1>1, <1>2, ChunkAddresses, AddressesAt DEF TInv
    <3>2. Head(call.iov).base \in Nat \ {0}
      BY <3>1 DEF Iovec
    <3> QED BY <1>1, <1>2, <3>2, ChunkAddresses DEF TInv
  <2>2. Len(todo') = Chunk /\ \A i \in 1..Chunk : todo'[i] = Head(call.iov).base + i - 1
    BY <1>1, <2>1, PagesType DEF Pages
  <2>3. Len(kbuf') = 0
    BY <1>1
  <2>4. \A j \in 1..Len(todo') : todo'[j] = Adr[call.total + 0 + j]
    BY <2>1, <2>2
  <2> QED BY <1>1, <1>3, <2>3, <2>4 DEF WriteSession
<1> QED BY <1>4, <1>5, <1>6, <1>7 DEF TInv

\* What a read gets from the file or the pipe is what comes next of its source.
LEMMA ReadNext ==
  ASSUME IInv, Begins, ReadDone, InCall, phase = "rw", call.op = "read",
         fds[call.fd] \in Handle, fds[call.fd].file # "wr", Chunk \in Nat \ {0}, call.total \in Nat,
         NEW got, got = FileRead(fds[call.fd]), got # <<>>
  PROVE  /\ got \in Seq(Byte) /\ Len(got) <= Chunk
         /\ call.total + Len(got) <= Len(Src)
         /\ \A i \in 1..Len(got) : got[i] = Src[call.total + i]
<1>1. DataType /\ Offsets /\ PipeTaken /\ CallType
  BY DEF IInv
<1>2. got \in Seq(Byte) /\ Len(got) <= Chunk
  BY <1>1, ReadBytes
<1>3. fds[call.fd].offset = began.offset + call.total /\ began.offset \in Nat
  BY <1>1 DEF Offsets, CallType, InCall
<1>4. PICK off \in Nat : off = began.offset
  BY <1>3
<1>5. CASE fds[call.fd].file = "reg"
  <2>1. PICK n \in Nat : n = Len(content)
    BY <1>1 DEF DataType
  <2>2. got = SubSeq(content, off + call.total + 1, Lesser(off + call.total + Chunk, n))
    BY <1>3, <1>4, <1>5, <2>1 DEF FileRead
  <2>3. PICK m \in Nat : m = Lesser(off + call.total + Chunk, n)
    BY <2>1 DEF Lesser
  <2>4. m <= n
    BY <2>1, <2>3 DEF Lesser
  <2>5. content \in Seq(Byte)
    BY <1>1 DEF DataType
  <2>6. off + call.total + 1 <= m
    <3> SUFFICES ASSUME m < off + call.total + 1 PROVE FALSE
      BY <2>3
    <3>1. got = <<>>
      BY <2>2, <2>3, SubSeqEmpty
    <3> QED BY <3>1
  <2>7. /\ Len(got) = m - (off + call.total)
        /\ \A i \in 1..Len(got) : got[i] = content[(off + call.total) + i]
    <3>1. PICK k \in Nat : k = off + call.total
      OBVIOUS
    <3>2. got = SubSeq(content, k + 1, m) /\ k + 1 <= m /\ m <= Len(content)
      BY <2>1, <2>2, <2>3, <2>4, <2>6, <3>1
    <3>3. Len(got) = m - k /\ \A i \in 1..(m - k) : got[i] = content[k + i]
      BY <2>5, <3>2
    <3> QED BY <3>1, <3>3
  <2>8. Src = SubSeq(content, off + 1, n)
    BY <1>4, <1>5, <2>1 DEF Src, Source, ReadDone
  <2>9. Len(Src) = n - off /\ \A i \in 1..(n - off) : Src[i] = content[off + i]
    <3>1. off + 1 <= n
      BY <2>4, <2>6
    <3> QED BY <2>1, <2>5, <2>8, <3>1
  <2>10. call.total + Len(got) <= Len(Src)
    BY <2>4, <2>6, <2>7, <2>9
  <2>11. ASSUME NEW i \in 1..Len(got) PROVE got[i] = Src[call.total + i]
    <3>1. /\ call.total + i \in 1..(n - off)
          /\ off + (call.total + i) = (off + call.total) + i
      BY <2>4, <2>6, <2>7
    <3>2. Src[call.total + i] = content[off + (call.total + i)]
      BY <2>9, <3>1
    <3> QED BY <2>7, <3>1, <3>2
  <2> QED BY <1>2, <2>10, <2>11
<1>6. CASE fds[call.fd].file = "rd"
  <2>1. /\ buf = SubSeq(began.buf, Taken + 1, Len(began.buf)) /\ Taken = call.total
    BY <1>1, <1>6 DEF PipeTaken, InCall
  <2>2. buf \in Seq(Byte) /\ began.buf \in Seq(Byte)
    BY <1>1 DEF DataType, CallType
  <2>3. PICK n \in Nat, b \in Nat : n = Len(began.buf) /\ b = Len(buf)
    BY <2>2
  <2>4. n - b = call.total
    BY <2>1, <2>3 DEF Taken
  <2>5. \A i \in 1..b : buf[i] = began.buf[call.total + i]
    <3>1. PICK t \in Nat : t = call.total
      OBVIOUS
    <3>2. buf = SubSeq(began.buf, t + 1, n)
      BY <2>1, <2>3, <3>1
    <3>3. t <= n /\ b = n - t
      BY <2>3, <2>4, <3>1
    <3>4. \A i \in 1..(n - t) : buf[i] = began.buf[t + i]
      BY <2>2, <2>3, <3>2, <3>3
    <3> QED BY <3>1, <3>3, <3>4
  <2>6. got = SubSeq(buf, 1, Lesser(Chunk, b))
    BY <1>6, <2>3 DEF FileRead, pipe_read
  <2>7. PICK m \in Nat : m = Lesser(Chunk, b)
    BY <2>3 DEF Lesser
  <2>8. m <= b
    BY <2>3, <2>7 DEF Lesser
  <2>9. Len(got) = m /\ \A i \in 1..m : got[i] = buf[i]
    BY <2>2, <2>3, <2>6, <2>7, <2>8
  <2>10. Src = began.buf
    BY <1>6 DEF Src, Source
  <2>11. call.total + Len(got) <= Len(Src)
    BY <2>3, <2>4, <2>8, <2>9, <2>10
  <2>12. \A i \in 1..Len(got) : got[i] = Src[call.total + i]
    BY <2>3, <2>5, <2>8, <2>9, <2>10
  <2> QED BY <1>2, <2>11, <2>12
<1> QED BY <1>5, <1>6 DEF Handle

\* A read's session opens, or the read is over.
LEMMA MoveRwRead == IInv /\ TInv /\ RwRead => TInv'
<1> SUFFICES ASSUME IInv, TInv, RwRead PROVE TInv'
  OBVIOUS
<1>1. PICK got : got = FileRead(fds[call.fd])
  OBVIOUS
<1>2. /\ phase = "rw" /\ call.op = "read" /\ fds[call.fd] # Closed /\ fds[call.fd].file # "wr"
      /\ UNCHANGED <<content, mem, began>>
  BY DEF RwRead
<1>3. \/ got = <<>> /\ CallEnds(TRUE)
      \/ /\ got # <<>> /\ OpenSession(Pages(Head(call.iov).base, Len(got)), got)
         /\ UNCHANGED <<fds, call>>
  BY <1>1 DEF RwRead
<1>4. InCall /\ Begins /\ Remains /\ ReadDone
  BY <1>2 DEF InCall, Rw, TInv
<1>5. CASE CallEnds(TRUE)
  <2>1. phase' = "return" /\ UNCHANGED <<fds, call>>
    BY <1>5 DEF CallEnds
  <2> QED BY <1>2, <2>1, EndKeeps
<1>6. CASE /\ got # <<>> /\ OpenSession(Pages(Head(call.iov).base, Len(got)), got)
           /\ UNCHANGED <<fds, call>>
  <2>1. /\ phase' = "copy" /\ UNCHANGED <<fds, call>> /\ kbuf' = got
        /\ todo' = Pages(Head(call.iov).base, Len(got))
    BY <1>6 DEF OpenSession
  <2>2. /\ call.total \in Nat /\ Chunk \in Nat \ {0} /\ fds[call.fd] \in Handle
        /\ call.iov \in Seq(Iovec) /\ call.iov # <<>>
        /\ \A i \in 1..Chunk : Adr[call.total + i] = Head(call.iov).base + i - 1
    BY <1>2, <1>4, ChunkAddresses
  <2>3. /\ got \in Seq(Byte) /\ Len(got) <= Chunk
        /\ call.total + Len(got) <= Len(Src)
        /\ \A i \in 1..Len(got) : got[i] = Src[call.total + i]
    BY <1>1, <1>2, <1>4, <1>6, <2>2, ReadNext
  <2>4. Head(call.iov).base \in Nat \ {0}
    BY <2>2, AddressesAt DEF Iovec
  <2>5. PICK n \in Nat : n = Len(got)
    BY <2>3
  <2>6. Len(todo') = n /\ \A i \in 1..n : todo'[i] = Head(call.iov).base + i - 1
    BY <2>1, <2>4, <2>5, PagesType DEF Pages
  <2>7. InCall' /\ Adr' = Adr /\ Src' = Src
    BY <1>2, <2>1 DEF InCall, Rw, Adr, Src, Source
  <2>8. Begins' /\ Remains'
    BY <1>2, <1>4, <2>1, <2>7 DEF Begins, Remains
  <2>9. ReadDone'
    BY <1>2, <1>4, <2>1, <2>7 DEF ReadDone, FrameAt
  <2>10. ReadSession'
    <3>1. Len(kbuf') - Len(todo') = 0
      BY <2>1, <2>5, <2>6
    <3>2. \A j \in 1..Len(todo') : todo'[j] = Adr[call.total + 0 + j]
      <4> TAKE j \in 1..Len(todo')
      <4>1. j \in 1..Chunk /\ call.total + 0 + j = call.total + j /\ j \in 1..n
        BY <2>2, <2>3, <2>5, <2>6
      <4> QED BY <2>2, <2>6, <4>1
    <3>3. 1..0 = {}
      OBVIOUS
    <3>4. /\ call'.total + Len(kbuf') <= Len(Src')
          /\ \A i \in 1..Len(kbuf') : kbuf'[i] = Src'[call'.total + i]
      BY <2>1, <2>3, <2>7
    <3>5. \A j \in 1..Len(todo') : todo'[j] = Adr'[call'.total + (Len(kbuf') - Len(todo')) + j]
      BY <2>1, <2>7, <3>1, <3>2
    <3>6. 1..(Len(kbuf') - Len(todo')) = {}
      BY <3>1, <3>3
    <3> QED BY <2>1, <3>4, <3>5, <3>6 DEF ReadSession
  <2>11. WriteDone' /\ WriteSession'
    BY <1>2, <2>1 DEF WriteDone, WriteSession
  <2> QED BY <2>8, <2>9, <2>10, <2>11 DEF TInv
<1> QED BY <1>3, <1>5, <1>6

\* A session that fails leaves things as they are.
LEMMA SessionStops ==
  ASSUME TInv, phase = "copy", phase' = "release", ok' = FALSE,
         UNCHANGED <<fds, content, buf, mem, call, kbuf, todo, began>>
  PROVE  TInv'
<1>1. InCall' => InCall
  BY DEF InCall, Rw
<1>2. Adr' = Adr /\ Src' = Src /\ Counted' = Counted
  BY DEF Adr, Src, Source, Counted
<1>3. Begins' /\ Remains'
  BY <1>1, <1>2 DEF TInv, Begins, Remains
<1>4. ReadDone' /\ ReadSession'
  BY <1>1, <1>2 DEF TInv, ReadDone, ReadSession, FrameAt
<1>5. WriteDone' /\ WriteSession'
  BY <1>1, <1>2 DEF TInv, WriteDone, WriteSession, FrameAt
<1> QED BY <1>3, <1>4, <1>5 DEF TInv

\* A page that is not mapped for the copy ends the session.
LEMMA MoveCopyRefused == IInv /\ TInv /\ CopyRefused => TInv'
<1> SUFFICES ASSUME IInv, TInv, CopyRefused PROVE TInv'
  OBVIOUS
<1>1. /\ phase = "copy" /\ phase' = "release" /\ ok' = FALSE
      /\ UNCHANGED <<fds, content, buf, mem, call, kbuf, todo, began>>
  BY DEF CopyRefused, data
<1> QED BY <1>1, SessionStops

\* A page is copied, or acquire fails.
LEMMA MoveCopyPage == DistinctBuffers /\ IInv /\ TInv /\ CopyPage => TInv'
<1> SUFFICES ASSUME DistinctBuffers, IInv, TInv, CopyPage PROVE TInv'
  OBVIOUS
<1>1. /\ phase = "copy" /\ Mapped(Head(todo)) /\ UNCHANGED <<fds, content, buf, call, began>>
  BY DEF CopyPage, data
<1>2. PICK page : page = UserMap[Head(todo)].frame
  OBVIOUS
<1>3. page \in Frame /\ acquire(page) /\ Head(todo) \in DOMAIN UserMap
  BY <1>1, <1>2, MemoryAssumption DEF CopyPage, Mapped
<1>4. CASE ~ok'
  <2>1. phase' = "release" /\ UNCHANGED <<mem, kbuf, todo>>
    BY <1>4 DEF CopyPage
  <2>2. ok' = FALSE
    BY <1>3, <1>4 DEF acquire, AcquireHit, AcquireNew
  <2> QED BY <1>1, <2>1, <2>2, SessionStops
<1>5. CASE ok'
  <2>1. PICK slot, frame : slot = Acquired(page) /\ frame = scratch'[entries'[slot].addr]
    OBVIOUS
  <2>2. /\ IF call.op = "read" THEN copy_to_user(frame) ELSE copy_from_user(frame)
        /\ todo' = Tail(todo) /\ uses' = Append(uses, slot)
        /\ phase' = IF todo' = <<>> THEN "release" ELSE "copy"
    BY <1>2, <1>5, <2>1 DEF CopyPage
  <2>3. frame = page
    <3>1. PoolType /\ Mapping /\ Recency
      BY <1>1 DEF IInv, PoolInUse
    <3> QED BY <1>3, <1>5, <2>1, <2>2, <3>1, AcquireOk
  <2>4. todo \in Seq(Nat \ {0}) /\ todo # <<>> /\ kbuf \in Seq(Byte) /\ mem \in [Frame -> Byte]
    BY <1>1 DEF IInv, CallType, CallShape, DataType
  <2>5. /\ Len(todo) \in Nat \ {0} /\ Len(todo') = Len(todo) - 1 /\ Head(todo) = todo[1]
        /\ \A j \in 1..(Len(todo) - 1) : todo'[j] = todo[j + 1]
    BY <2>2, <2>4
  <2>6. Adr' = Adr /\ Src' = Src /\ Counted' = Counted
    BY <1>1 DEF Adr, Src, Source, Counted
  <2>7. CASE ~InCall
    <3>1. ~InCall'
      BY <1>1, <2>2, <2>7 DEF InCall, Rw
    <3> QED BY <1>1, <3>1, NoCallKeeps DEF TInv, Begins
  <2>8. CASE InCall
    <3>1. phase' \in {"copy", "release"}
      BY <2>2
    <3>2. InCall'
      BY <1>1, <2>8, <3>1 DEF InCall, Rw
    <3>3. Begins /\ Remains
      BY DEF TInv
    <3>4. Begins' /\ Remains'
      BY <1>1, <2>6, <2>8, <3>1, <3>3 DEF Begins, Remains
    <3>5. /\ Adr \in Seq(Nat \ {0}) /\ Len(Adr) \in Nat /\ call.total \in Nat
          /\ Chunk \in Nat /\ call.total + Chunk <= Len(Adr)
      BY <1>1, <2>8, <3>3, ChunkAddresses
    <3>6. CASE call.op = "read"
      <4>1. mem' = [mem EXCEPT ![page] = kbuf[Len(kbuf) - Len(todo) + 1]] /\ kbuf' = kbuf
        BY <2>2, <2>3, <3>6 DEF copy_to_user
      <4>2. PICK t \in Nat, n \in Nat, k \in Nat :
              /\ t = call.total /\ n = Len(kbuf) /\ k = Len(kbuf) - Len(todo)
              /\ k + 1 <= n /\ n <= Chunk
        <5>1. Len(todo) <= Len(kbuf) /\ Len(kbuf) <= Chunk
          BY <1>1, <3>6 DEF IInv, CallShape
        <5>2. Len(kbuf) \in Nat /\ Len(kbuf) - Len(todo) \in Nat
              /\ (Len(kbuf) - Len(todo)) + 1 <= Len(kbuf)
          BY <2>4, <2>5, <5>1
        <5> QED BY <3>5, <5>1, <5>2
      <4>3. ReadDone /\ ReadSession
        BY DEF TInv
      <4>4. /\ t + n <= Len(Src) /\ \A i \in 1..n : kbuf[i] = Src[t + i]
            /\ \A j \in 1..Len(todo) : todo[j] = Adr[t + k + j]
            /\ \A i \in 1..k : Adr[t + i] \in DOMAIN UserMap /\ mem[FrameAt(t + i)] = kbuf[i]
        BY <1>1, <2>8, <3>6, <4>2, <4>3 DEF ReadSession
      <4>5. /\ content = began.content /\ t <= Len(Src)
            /\ \A i \in 1..t : mem[FrameAt(i)] = Src[i] /\ Adr[i] \in DOMAIN UserMap
        BY <2>8, <3>3, <3>6, <4>2, <4>3 DEF ReadDone, Remains
      <4>6. PICK c \in Nat : c = t + k + 1
        OBVIOUS
      <4>7. c \in 1..Len(Adr)
        BY <3>5, <4>2, <4>6, SMTT(60)
      <4>8. Adr[c] = Head(todo) /\ FrameAt(c) = page /\ Adr[c] \in DOMAIN UserMap
        <5>1. 1 \in 1..Len(todo)
          BY <2>5
        <5>2. todo[1] = Adr[t + k + 1]
          BY <4>4, <5>1
        <5> QED BY <1>2, <1>3, <2>5, <4>6, <5>2 DEF FrameAt
      <4>9. ASSUME NEW i \in 1..Len(Adr), i # c, Adr[i] \in DOMAIN UserMap
            PROVE  mem'[FrameAt(i)] = mem[FrameAt(i)]
        <5>1. began.iov \in Vectors
          BY <2>8, <3>3 DEF Begins
        <5>2. DOMAIN Adr = 1..Len(Adr)
          BY <3>5
        <5>3. UserMap[Adr[i]].frame # UserMap[Adr[c]].frame
          BY <4>7, <4>8, <4>9, <5>1, <5>2 DEF DistinctBuffers, Adr
        <5>4. FrameAt(i) # page /\ FrameAt(i) \in Frame
          BY <4>8, <4>9, <5>3, MemoryAssumption DEF FrameAt
        <5> QED BY <2>4, <4>1, <5>4
      <4>10. \A i : FrameAt(i)' = FrameAt(i)
        BY <2>6 DEF FrameAt
      <4>11. ReadDone'
        <5>1. ASSUME NEW i \in 1..t PROVE mem'[FrameAt(i)] = Src[i]
          <6>1. i \in 1..Len(Adr) /\ i # c
            BY <4>6, <4>7
          <6> QED BY <4>5, <4>9, <6>1
        <5> QED BY <1>1, <2>6, <4>2, <4>5, <4>10, <5>1 DEF ReadDone
      <4>12. ReadSession'
        <5>1. Len(kbuf') = n /\ Len(kbuf') - Len(todo') = k + 1
          BY <2>5, <4>1, <4>2
        <5>2. ASSUME NEW j \in 1..Len(todo') PROVE todo'[j] = Adr[t + (k + 1) + j]
          <6>1. /\ j \in 1..(Len(todo) - 1) /\ j + 1 \in 1..Len(todo)
                /\ t + k + (j + 1) = t + (k + 1) + j
            BY <2>5
          <6>2. todo[j + 1] = Adr[t + k + (j + 1)]
            BY <4>4, <6>1
          <6> QED BY <2>5, <6>1, <6>2
        <5>3. ASSUME NEW i \in 1..(k + 1)
              PROVE  Adr[t + i] \in DOMAIN UserMap /\ mem'[FrameAt(t + i)] = kbuf[i]
          <6>1. CASE i = k + 1
            <7>1. t + i = c
              BY <4>6, <6>1
            <7>2. mem'[page] = kbuf[i]
              BY <1>3, <2>4, <4>1, <4>2, <6>1
            <7> QED BY <4>8, <7>1, <7>2
          <6>2. CASE i # k + 1
            <7>1. i \in 1..k /\ t + i # c /\ t + i \in 1..Len(Adr)
              BY <4>6, <4>7, <6>2
            <7> QED BY <4>4, <4>9, <7>1
          <6> QED BY <6>1, <6>2
        <5>4. phase' = "release" => todo' = <<>>
          BY <2>2
        <5>5. /\ call'.total = t /\ call'.total + Len(kbuf') <= Len(Src')
              /\ \A i \in 1..Len(kbuf') : kbuf'[i] = Src'[call'.total + i]
          BY <1>1, <2>6, <4>1, <4>2, <4>4
        <5>6. \A j \in 1..Len(todo') : todo'[j] = Adr'[call'.total + (Len(kbuf') - Len(todo')) + j]
          BY <2>6, <5>1, <5>2, <5>5
        <5>7. \A i \in 1..(Len(kbuf') - Len(todo')) :
                Adr'[call'.total + i] \in DOMAIN UserMap
                /\ mem'[UserMap[Adr'[call'.total + i]].frame] = kbuf'[i]
          BY <2>6, <4>1, <5>1, <5>3, <5>5 DEF FrameAt
        <5> QED BY <5>4, <5>5, <5>6, <5>7 DEF ReadSession, FrameAt
      <4>13. WriteDone' /\ WriteSession'
        BY <1>1, <3>6 DEF WriteDone, WriteSession
      <4> QED BY <3>4, <4>11, <4>12, <4>13 DEF TInv
    <3>7. CASE call.op = "write"
      <4>1. kbuf' = Append(kbuf, mem[page]) /\ mem' = mem
        BY <2>2, <2>3, <3>7 DEF copy_from_user
      <4>2. PICK t \in Nat, n \in Nat : t = call.total /\ n = Len(kbuf)
        BY <2>4, <3>5
      <4>3. mem[page] \in Byte
        BY <1>3, <2>4
      <4>4. /\ Len(kbuf') = n + 1 /\ kbuf'[n + 1] = mem[page]
            /\ \A i \in 1..n : kbuf'[i] = kbuf[i]
        BY <2>4, <4>1, <4>2, <4>3
      <4>5. WriteDone /\ WriteSession
        BY DEF TInv
      <4>6. /\ \A j \in 1..Len(todo) : todo[j] = Adr[t + n + j]
            /\ \A i \in 1..n : Adr[t + i] \in DOMAIN UserMap /\ kbuf[i] = mem[FrameAt(t + i)]
        BY <1>1, <2>8, <3>7, <4>2, <4>5 DEF WriteSession
      <4>7. Adr[t + (n + 1)] = Head(todo)
        <5>1. 1 \in 1..Len(todo) /\ t + n + 1 = t + (n + 1)
          BY <2>5
        <5> QED BY <2>5, <4>6, <5>1
      <4>9. WriteSession'
        <5>1. ASSUME NEW j \in 1..Len(todo') PROVE todo'[j] = Adr[t + (n + 1) + j]
          <6>1. /\ j \in 1..(Len(todo) - 1) /\ j + 1 \in 1..Len(todo)
                /\ t + n + (j + 1) = t + (n + 1) + j
            BY <2>5
          <6>2. todo[j + 1] = Adr[t + n + (j + 1)]
            BY <4>6, <6>1
          <6> QED BY <2>5, <6>1, <6>2
        <5>2. ASSUME NEW i \in 1..(n + 1)
              PROVE  Adr[t + i] \in DOMAIN UserMap /\ kbuf'[i] = mem[FrameAt(t + i)]
          <6>1. CASE i = n + 1
            BY <1>2, <1>3, <4>4, <4>7, <6>1 DEF FrameAt
          <6>2. CASE i # n + 1
            <7>1. i \in 1..n
              BY <6>2
            <7> QED BY <4>4, <4>6, <7>1
          <6> QED BY <6>1, <6>2
        <5>3. call'.total = t
          BY <1>1, <4>2
        <5>4. \A j \in 1..Len(todo') : todo'[j] = Adr'[call'.total + Len(kbuf') + j]
          BY <2>6, <4>4, <5>1, <5>3
        <5>5. \A i \in 1..Len(kbuf') :
                Adr'[call'.total + i] \in DOMAIN UserMap
                /\ kbuf'[i] = mem'[UserMap[Adr'[call'.total + i]].frame]
          BY <2>6, <4>1, <4>4, <5>2, <5>3 DEF FrameAt
        <5> QED BY <5>4, <5>5 DEF WriteSession, FrameAt
      <4>10. WriteDone'
        BY <1>1, <2>6, <2>8, <4>1, <4>5 DEF WriteDone
      <4>11. ReadDone' /\ ReadSession'
        BY <1>1, <3>7 DEF ReadDone, ReadSession
      <4> QED BY <3>4, <4>9, <4>10, <4>11 DEF TInv
    <3> QED BY <2>8, <3>6, <3>7 DEF InCall, Rw
  <2> QED BY <2>7, <2>8
<1> QED BY <1>4, <1>5

\* The session ends: a read counts the chunk, a write goes on to send it.
LEMMA MoveEndSession == IInv /\ TInv /\ EndSession => TInv'
<1> SUFFICES ASSUME IInv, TInv, EndSession PROVE TInv'
  OBVIOUS
<1>1. phase = "release" /\ UNCHANGED <<content, buf, mem, kbuf, began>>
  BY DEF EndSession
<1>2. \/ CallEnds(FALSE) \/ CallEnds(TRUE)
      \/ ok /\ call.op = "read" /\ Advance(Len(kbuf))
      \/ call.op = "write" /\ phase' = "send" /\ UNCHANGED <<fds, call>>
  BY DEF EndSession
<1>t. Begins /\ Remains /\ ReadDone /\ ReadSession /\ WriteDone /\ WriteSession
  BY DEF TInv
<1>3. CASE CallEnds(FALSE) \/ CallEnds(TRUE)
  <2>1. phase' = "return" /\ UNCHANGED <<fds, call>>
    BY <1>3 DEF CallEnds
  <2> QED BY <1>1, <2>1, EndKeeps
<1>4. CASE ok /\ call.op = "read" /\ Advance(Len(kbuf))
  <2>1. InCall
    BY <1>1, <1>4 DEF InCall, Rw, IInv, CallShape
  <2>2. PICK t \in Nat, n \in Nat : t = call.total /\ n = Len(kbuf)
    BY DEF IInv, CallType
  <2>3. Len(kbuf) <= Chunk
    BY <1>1, <1>4 DEF IInv, CallShape
  <2>4. /\ t + n <= Len(Src) /\ \A i \in 1..n : kbuf[i] = Src[t + i]
        /\ \A i \in 1..(Len(kbuf) - Len(todo)) :
             Adr[t + i] \in DOMAIN UserMap /\ mem[FrameAt(t + i)] = kbuf[i]
        /\ todo = <<>>
    BY <1>1, <1>t, <1>4, <2>1, <2>2 DEF ReadSession
  <2>5. Len(kbuf) - Len(todo) = n
    BY <2>2, <2>4
  <2>6. \A i \in 1..n : Adr[t + i] \in DOMAIN UserMap /\ mem[FrameAt(t + i)] = kbuf[i]
    BY <2>4, <2>5
  <2>7. /\ Begins' /\ Remains' /\ phase' \in {"rw", "return"}
        /\ call'.total = t + n /\ call'.op = "read" /\ call'.fd = call.fd
        /\ fds'[call.fd].file = fds[call.fd].file /\ InCall' /\ Adr' = Adr
    BY <1>1, <1>t, <1>4, <2>1, <2>2, <2>3, <2>6, Moves
  <2>8. Src' = Src
    BY <1>1, <2>7 DEF Src, Source
  <2>9. ASSUME NEW i \in 1..(t + n) PROVE mem[FrameAt(i)] = Src[i]
    <3>1. CASE i \in 1..t
      BY <1>t, <1>4, <2>1, <2>2, <3>1 DEF ReadDone
    <3>2. CASE i \notin 1..t
      <4>1. i - t \in 1..n /\ t + (i - t) = i
        BY <3>2
      <4>2. mem[FrameAt(t + (i - t))] = Src[t + (i - t)]
        BY <2>4, <2>6, <4>1
      <4> QED BY <4>1, <4>2
    <3> QED BY <3>1, <3>2
  <2>10. ReadDone'
    <3>1. content' = began'.content
      BY <1>1, <1>t, <1>4, <2>1 DEF ReadDone
    <3>2. \A i \in 1..call'.total : mem'[UserMap[Adr'[i]].frame] = Src'[i]
      BY <1>1, <2>7, <2>8, <2>9 DEF FrameAt
    <3> QED BY <2>4, <2>7, <2>8, <3>1, <3>2 DEF ReadDone, FrameAt
  <2>11. ReadSession' /\ WriteDone' /\ WriteSession'
    BY <2>7 DEF ReadSession, WriteDone, WriteSession
  <2> QED BY <2>7, <2>10, <2>11 DEF TInv
<1>5. CASE call.op = "write" /\ phase' = "send" /\ UNCHANGED <<fds, call>>
  <2>1. InCall /\ InCall'
    BY <1>1, <1>5 DEF InCall, Rw, IInv, CallShape
  <2>2. Adr' = Adr /\ Counted' = Counted
    BY <1>1, <1>5 DEF Adr, Counted
  <2>3. Begins' /\ Remains'
    BY <1>1, <1>t, <1>5, <2>1, <2>2 DEF Begins, Remains
  <2>4. WriteDone' /\ WriteSession'
    BY <1>1, <1>t, <1>5, <2>1, <2>2 DEF WriteDone, WriteSession, FrameAt
  <2>5. ReadDone' /\ ReadSession'
    BY <1>5 DEF ReadDone, ReadSession
  <2> QED BY <2>3, <2>4, <2>5 DEF TInv
<1> QED BY <1>2, <1>3, <1>4, <1>5

\* The chunk, or the head of it, is in the file or the pipe, and counted.
LEMMA MoveRwSend == IInv /\ TInv /\ RwSend => TInv'
<1> SUFFICES ASSUME IInv, TInv, RwSend PROVE TInv'
  OBVIOUS
<1>t. Begins /\ Remains /\ WriteDone /\ WriteSession
  BY DEF TInv
<1>i. DataType /\ CallType /\ CallShape /\ Offsets
  BY DEF IInv
<1>1. phase = "send" /\ UNCHANGED <<mem, began>>
  BY DEF RwSend
<1>2. call.op = "write" /\ InCall
  BY <1>i, <1>1 DEF InCall, Rw, CallShape
<1>3. /\ Adr \in Seq(Nat \ {0}) /\ Len(Adr) \in Nat /\ call.total \in Nat
      /\ fds[call.fd] \in Handle /\ Chunk \in Nat
  BY <1>t, <1>1, <1>2, ChunkAddresses
<1>4. PICK h : h = fds[call.fd]
  OBVIOUS
<1>5. PICK sent : sent = IF h.file = "reg" THEN disk_write(h.offset, kbuf) ELSE pipe_write(kbuf)
  OBVIOUS
<1>6. /\ h.file = "reg" \/ h.file = "wr"
      /\ content' = IF h.file = "reg" THEN Overwritten(content, h.offset, sent) ELSE content
      /\ buf' = IF h.file = "wr" THEN buf \o sent ELSE buf
      /\ Advance(Len(sent))
  BY <1>4, <1>5 DEF RwSend
<1>7. PICK room \in Int : sent = SubSeq(kbuf, 1, Lesser(Len(kbuf), room))
  <2>1. h.offset \in Nat /\ MaxSize \in Nat /\ PipeCapacity \in Nat /\ Len(buf) \in Nat
    BY <1>i, <1>3, <1>4, BoundAssumption DEF Handle, DataType
  <2>2. MaxSize - h.offset \in Int /\ PipeCapacity - Len(buf) \in Int
    BY <2>1
  <2> QED BY <1>5, <2>2 DEF disk_write, pipe_write
<1>8. kbuf \in Seq(Byte) /\ Len(kbuf) <= Chunk
  BY <1>i, <1>1, <1>2 DEF CallType, CallShape
<1>9. sent \in Seq(Byte) /\ Len(sent) <= Len(kbuf)
  BY <1>7, <1>8, PrefixType
<1>10. PICK t \in Nat, n \in Nat : t = call.total /\ n = Len(sent)
  BY <1>3, <1>9
<1>11. \A i \in 1..n : sent[i] = kbuf[i]
  <2>1. PICK m : m = Lesser(Len(kbuf), room)
    OBVIOUS
  <2>2. m \in Int /\ m <= Len(kbuf) /\ Len(kbuf) \in Nat
    BY <1>8, <2>1 DEF Lesser
  <2>3. \A i \in 1..m : kbuf[i] \in Byte
    BY <1>8, <2>2
  <2>4. /\ Len(SubSeq(kbuf, 1, m)) = IF 1 <= m THEN m - 1 + 1 ELSE 0
        /\ \A i \in 1..(m - 1 + 1) : SubSeq(kbuf, 1, m)[i] = kbuf[1 + i - 1]
    BY <2>2, <2>3, SubSeqProperties
  <2>5. n = (IF 1 <= m THEN m ELSE 0) /\ \A i \in 1..m : sent[i] = kbuf[i]
    BY <1>7, <1>10, <2>1, <2>2, <2>4
  <2> QED BY <2>2, <2>5
<1>12. n <= Chunk
  <2>1. Len(kbuf) \in Nat
    BY <1>8
  <2> QED BY <1>3, <1>8, <1>9, <1>10, <2>1
<1>13. \A i \in 1..n : Adr[t + i] \in DOMAIN UserMap /\ sent[i] = mem[FrameAt(t + i)]
  <2>1. \A i \in 1..Len(kbuf) : Adr[t + i] \in DOMAIN UserMap /\ kbuf[i] = mem[FrameAt(t + i)]
    BY <1>t, <1>1, <1>2, <1>10 DEF WriteSession
  <2>2. \A i \in 1..n : i \in 1..Len(kbuf)
    BY <1>8, <1>9, <1>10
  <2> QED BY <1>11, <2>1, <2>2
<1>14. /\ Begins' /\ Remains' /\ phase' \in {"rw", "return"}
       /\ call'.total = t + n /\ call'.op = "write" /\ call'.fd = call.fd
       /\ fds'[call.fd].file = h.file /\ InCall' /\ Adr' = Adr /\ t + n <= Len(Adr)
       /\ \A i \in 1..(t + n) : Adr[i] \in DOMAIN UserMap
  BY <1>t, <1>1, <1>2, <1>4, <1>6, <1>10, <1>12, <1>13, Moves
<1>15. PICK x, y : x = BytesAt(mem, SubSeq(Adr, 1, t)) /\ y = BytesAt(mem, SubSeq(Adr, 1, t + n))
  OBVIOUS
<1>16. x \in Seq(Byte) /\ Len(x) = t /\ y = x \o sent
  <2>1. mem \in [Frame -> Byte]
    BY <1>i DEF DataType
  <2>2. \A i \in 1..n : sent[i] = mem[UserMap[Adr[t + i]].frame]
    BY <1>13 DEF FrameAt
  <2>3. PICK a \in Seq(Nat \ {0}) : a = Adr
    BY <1>3
  <2>4. Carries(mem, a, t, n, sent)
    BY <1>10, <1>14, <2>2, <2>3 DEF Carries
  <2>5. sent \in Seq(Byte)
    BY <1>9
  <2>6. /\ BytesAt(mem, SubSeq(a, 1, t)) \in Seq(Byte)
        /\ Len(BytesAt(mem, SubSeq(a, 1, t))) = t
        /\ BytesAt(mem, SubSeq(a, 1, t + n)) = Joined(BytesAt(mem, SubSeq(a, 1, t)), sent)
    BY <2>1, <2>4, <2>5, BytesGrow
  <2> QED BY <1>15, <2>3, <2>6 DEF Joined
<1>17. BytesAt(mem, Counted) = x
  BY <1>10, <1>15 DEF Counted, Adr
<1>18. BytesAt(mem', Counted') = y
  <2>1. Counted' = SubSeq(Adr', 1, call'.total)
    BY DEF Counted, Adr
  <2>2. Counted' = SubSeq(Adr, 1, t + n)
    BY <1>14, <2>1
  <2> QED BY <1>1, <1>15, <2>2
<1>19. WriteDone'
  <2>1. CASE h.file = "reg"
    <3>1. content = Overwritten(began.content, began.offset, x)
      BY <1>t, <1>2, <1>4, <1>17, <2>1 DEF WriteDone
    <3>2. h.offset = began.offset + t /\ began.offset \in Nat /\ began.content \in Seq(Byte)
      BY <1>i, <1>t, <1>2, <1>4, <1>10 DEF Offsets, InCall, CallType, Begins
    <3>3. content' = Overwritten(content, began.offset + Len(x), sent)
      BY <1>6, <1>16, <2>1, <3>2
    <3>4. content' = Overwritten(began.content, began.offset, x \o sent)
      BY <1>9, <1>16, <3>1, <3>2, <3>3, OverwrittenTwice, ZenonT(60)
    <3>5. content' = Overwritten(began'.content, began'.offset, BytesAt(mem', Counted'))
      BY <1>1, <1>16, <1>18, <3>4
    <3> QED BY <1>14, <2>1, <3>5 DEF WriteDone, Overwritten, BytesAt
  <2>2. CASE h.file = "wr"
    <3>1. buf = began.buf \o x
      BY <1>t, <1>2, <1>4, <1>17, <2>2 DEF WriteDone
    <3>2. buf' = (began.buf \o x) \o sent
      BY <1>6, <2>2, <3>1
    <3>3. began.buf \in Seq(Byte)
      BY <1>i DEF CallType
    <3>4. buf' = began.buf \o (x \o sent)
      <4>1. x \in Seq(Byte) /\ sent \in Seq(Byte)
        BY <1>9, <1>16
      <4>2. PICK b \in Seq(Byte) : b = began.buf
        BY <3>3
      <4>3. Joined(Joined(b, x), sent) = Joined(b, Joined(x, sent))
        BY <4>1, JoinedAssociative
      <4> QED BY <3>2, <4>2, <4>3 DEF Joined
    <3>5. buf' = began'.buf \o BytesAt(mem', Counted')
      BY <1>1, <1>16, <1>18, <3>4
    <3> QED BY <1>14, <2>2, <3>5 DEF WriteDone, BytesAt
  <2> QED BY <1>6, <2>1, <2>2
<1>20. ReadDone' /\ ReadSession' /\ WriteSession'
  BY <1>14 DEF ReadDone, ReadSession, WriteSession
<1> QED BY <1>14, <1>19, <1>20 DEF TInv

\* A step that changes nothing.
LEMMA MoveStutter == TInv /\ UNCHANGED vars => TInv'
<1> SUFFICES ASSUME TInv, UNCHANGED vars PROVE TInv'
  OBVIOUS
<1>1. UNCHANGED <<fds, content, buf, mem, phase, call, kbuf, todo, ok, began>>
  BY DEF vars, data, session
<1>2. InCall' = InCall /\ Adr' = Adr /\ Src' = Src /\ Counted' = Counted
  BY <1>1 DEF InCall, Rw, Adr, Src, Source, Counted
<1>3. Begins' /\ Remains' /\ ReadDone' /\ ReadSession'
  BY <1>1, <1>2 DEF TInv, Begins, Remains, ReadDone, ReadSession, FrameAt
<1>4. WriteDone' /\ WriteSession'
  BY <1>1, <1>2 DEF TInv, WriteDone, WriteSession, FrameAt
<1> QED BY <1>3, <1>4 DEF TInv

\* What a read, readv, write or writev has counted has moved, whole, in order and
\* to the right place (do_read, do_write, copy_to_user, copy_from_user), whatever
\* the chunks, the slots of the pool and the failures, as long as no two bytes of
\* the buffers of one call lie in the same place of memory.
THEOREM TransferIsExact == DistinctBuffers => (Spec => []TransferExact)
<1> SUFFICES ASSUME DistinctBuffers PROVE Spec => []TransferExact
  OBVIOUS
<1>1. Init => TInv
  <2> SUFFICES ASSUME Init PROVE TInv
    OBVIOUS
  <2>1. phase = "idle" /\ began = NoBegan
    BY DEF Init
  <2>2. <<>> \in Seq(Iovec) /\ <<>> \in Seq(Byte)
    OBVIOUS
  <2> QED BY <2>1, <2>2 DEF TInv, Begins, Remains, ReadDone, ReadSession, WriteDone, WriteSession,
                            InCall, NoBegan
<1>2. IInv /\ TInv /\ [Next]_vars => TInv'
  BY MoveCopyPage, MoveCopyRefused, MoveEndSession, MoveRwRead, MoveRwWrite, MoveRwSend,
     MoveRefused, MoveSysRw, MoveOthers, MoveStutter DEF Next
<1>3. IInv /\ TInv => TransferExact
  <2> SUFFICES ASSUME IInv, TInv, phase \in {"rw", "return"}, call.op \in {"read", "write"},
                      fds[call.fd] # Closed
               PROVE  LET file == fds[call.fd].file
                      IN \/ call.op = "read"
                            /\ BytesAt(mem, Counted) = SubSeq(Source(file), 1, call.total)
                         \/ call.op = "write" /\ file = "reg"
                            /\ content = Overwritten(began.content, began.offset,
                                                     BytesAt(mem, Counted))
                         \/ call.op = "write" /\ file # "reg"
                            /\ buf = began.buf \o BytesAt(mem, Counted)
    BY DEF TransferExact
  <2>1. InCall
    BY DEF InCall, Rw
  <2>2. CASE call.op = "write"
    BY <2>1, <2>2 DEF TInv, WriteDone
  <2>3. CASE call.op = "read"
    <3>1. PICK t \in Nat : t = call.total
      BY DEF IInv, CallType
    <3>2. Adr \in Seq(Nat \ {0}) /\ Src \in Seq(Byte)
      <4>1. Adr \in Seq(Nat \ {0})
        BY AddressesHead DEF TInv, Begins, Adr
      <4>2. began.offset \in Nat /\ began.content \in Seq(Byte) /\ began.buf \in Seq(Byte)
        BY DEF IInv, CallType, TInv, Begins
      <4>3. SubSeq(began.content, began.offset + 1, Len(began.content)) \in Seq(Byte)
        BY <4>2
      <4> QED BY <4>1, <4>2, <4>3 DEF Src, Source
    <3>3. /\ t <= Len(Adr) /\ t <= Len(Src)
          /\ \A i \in 1..t : Adr[i] \in DOMAIN UserMap /\ mem[FrameAt(i)] = Src[i]
      BY <2>1, <2>3, <3>1 DEF TInv, Remains, ReadDone
    <3>4. PICK s : s = SubSeq(Adr, 1, t)
      OBVIOUS
    <3>5. DOMAIN s = 1..t /\ \A i \in 1..t : s[i] = Adr[i]
      BY <3>2, <3>3, <3>4
    <3>6. BytesAt(mem, s) = [i \in 1..t |-> Src[i]]
      <4>1. BytesAt(mem, s) = [i \in 1..t |-> mem[UserMap[s[i]].frame]]
        BY <3>5 DEF BytesAt
      <4>2. \A i \in 1..t : mem[UserMap[s[i]].frame] = Src[i]
        BY <3>3, <3>5 DEF FrameAt
      <4> QED BY <4>1, <4>2
    <3>7. SubSeq(Src, 1, t) = [i \in 1..t |-> Src[i]]
      BY <3>2, <3>3
    <3>8. Counted = s /\ Src = Source(fds[call.fd].file)
      BY <3>1, <3>4 DEF Counted, Adr, Src
    <3> QED BY <2>3, <3>1, <3>6, <3>7, <3>8
  <2> QED BY <2>2, <2>3
<1> QED BY IoInvariant, <1>1, <1>2, <1>3, PTL DEF Spec
=============================================================================
