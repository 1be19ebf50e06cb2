---------------------------- MODULE ApeTtyProofs ----------------------------
(***************************************************************************)
(* Proofs about ApeTty: for every keyboard, chunk size, set of modes,      *)
(* buffers, masks and calls.                                               *)
(*                                                                         *)
(* What feed_input and process_output make of a whole chunk is proved from *)
(* what they make of one byte: a fold is the last of the states it goes    *)
(* through (OutputSteps, FeedSteps), and a set of numbers that has 0 and,  *)
(* with each number, the next has them all (UpTo).                         *)
(*                                                                         *)
(* TtyInv adds to the types what old_mask holds while ppoll's mask is in   *)
(* force (SInv), and that no read is under way while ppoll's promise of    *)
(* input is outstanding (PollInv).                                         *)
(*                                                                         *)
(* FaithInv adds to InputFaithful what an erase needs to take the right    *)
(* character, the last of the line: from every character of the line on,   *)
(* characters outnumber erases, in the end by as many as are left of the   *)
(* line (Balanced).  And it says of last_was_cr what the name says.        *)
(***************************************************************************)
EXTENDS ApeTty, FiniteSetTheorems, WellFoundedInduction, TLAPS

(***************************************************************************)
(* Types and the invariant                                                 *)
(***************************************************************************)
\* What goes to the host, a mode, and what a call of the driver works on.
OutByte == Byte \cup {Rub}
TermiosType == [iflag : SUBSET Iflag, oflag : SUBSET Oflag, lflag : SUBSET Lflag,
                verase : Byte, vkill : Byte, veof : Byte, vmin : Nat]
LdiscType == [line : Seq(Byte), readable : Seq(Byte \cup {ReplyByte}), cr : BOOLEAN,
              csi : BOOLEAN, echo : Seq(OutByte)]

\* The buffers of the driver, the types of the invariant.
Buffers ==
  /\ canonical_line_buf \in Seq(Byte) /\ readable_buf \in Seq(Byte \cup {ReplyByte})
  /\ last_was_cr \in BOOLEAN /\ in_csi \in BOOLEAN /\ host_csi \in BOOLEAN
  /\ asked \in BOOLEAN

\* The history of the keys: each with the mode it was read in.
FedType == Seq([byte : Byte, termios : TermiosType])

\* What holds of the mask between and during the calls of ppoll.
SInv == /\ phase # "poll" => signal_blocked = OwnMask
        /\ phase = "poll" => old_mask = OwnMask

\* A promise of input is outstanding only while no read is under way.
PollInv == PollThenRead /\ (phase = "read" => ~promised)

\* The other parts: the keys on their way, the call, the signals, the mode.
HostInv == host_in \in Seq(Byte) /\ fed \in FedType /\ Len(fed) + Len(host_in) <= MaxTyped
CallInv ==
  /\ phase \in {"idle", "read", "write", "poll"}
  /\ want \in Seq(Nat) /\ (want # <<>> <=> phase = "read")
  /\ out \in Seq(Seq(Byte)) /\ (out # <<>> <=> phase = "write")
SignalInv ==
  /\ signal_pending \in Pending \cup {{}}
  /\ signal_blocked \in Masks \cup {OwnMask} /\ old_mask \in {OwnMask, {}}
  /\ events \subseteq {"in", "out", "nval"} /\ left \in Nat \cup {NoTimeout}
  /\ SInv
TermiosInv == termios \in Termios \cup {default_termios}

\* The inductive invariant.
TtyInv == TypeOK /\ fed \in FedType /\ SInv /\ PollInv

(***************************************************************************)
(* Induction                                                               *)
(***************************************************************************)
\* A nonempty set of naturals has a least element.
LEMMA LeastNatural ==
  ASSUME NEW T, T \subseteq Nat, T # {}
  PROVE  \E m \in T : \A k \in T : m <= k
<1>1. PICK m \in T : \A k \in T : ~(<<k, m>> \in OpToRel(<, Nat))
  BY WFMin, NatLessThanWellFounded, Zenon
<1>2. \A k \in T : ~(k < m)
  BY <1>1 DEF OpToRel
<1> QED
  BY <1>2

\* Induction for a set of numbers: if it holds 0 and goes on, it holds all up to n.
LEMMA UpTo ==
  ASSUME NEW n \in Nat, NEW T, 0 \in T, \A i \in 1..n : i - 1 \in T => i \in T
  PROVE  \A i \in 0..n : i \in T
<1> SUFFICES ASSUME NEW i \in 0..n, i \notin T PROVE FALSE
  OBVIOUS
<1> DEFINE B == {j \in 0..n : j \notin T}
<1>1. PICK m \in B : \A k \in B : m <= k
  <2>1. B \subseteq Nat /\ B # {}
    OBVIOUS
  <2> HIDE DEF B
  <2> QED BY <2>1, LeastNatural, Zenon
<1>2. m # 0 /\ m \in 1..n
  OBVIOUS
<1>3. m - 1 \in 0..n /\ m - 1 \notin B
  BY <1>1, <1>2
<1> QED BY <1>2, <1>3

\* Max of a set that has its upper bound.
LEMMA MaxOfTop ==
  ASSUME NEW k \in Nat, NEW x \in SUBSET (1..k), k \in x
  PROVE  Max(x) = k
<1>1. \A y \in x : k >= y
  OBVIOUS
<1>2. \A z \in x : (\A y \in x : z >= y) => z = k
  OBVIOUS
<1> QED BY <1>1, <1>2 DEF Max

\* The function by which FoldLeft is defined, on the bytes at the places in S.
OutIter(h, s, tx, S) ==
  h = [x \in SUBSET S |-> IF x = {} THEN s ELSE Advance(h[x \ {Max(x)}], tx[Max(x)])]

\* The states g that the parser goes through on the first n bytes of tx.
OutRun(g, s, tx, n) == g[0] = s /\ \A i \in 1..n : g[i] = Advance(g[i - 1], tx[i])

\* The fold of a sequence is the last of the states that it goes through.
LEMMA OutputSteps ==
  ASSUME NEW s, NEW tx, NEW n \in Nat, DOMAIN tx = 1..n
  PROVE  \E g : OutRun(g, s, tx, n) /\ process_output(s, tx) = g[n]
<1> DEFINE Good == {m \in 0..n : \E h : OutIter(h, s, tx, 1..m)}
           it == CHOOSE h : OutIter(h, s, tx, 1..n)
           g == [i \in 0..n |-> it[1..i]]
<1>1. 0 \in Good
  <2> DEFINE h == [x \in SUBSET (1..0) |-> s]
  <2>1. \A x \in SUBSET (1..0) : x = {}
    OBVIOUS
  <2>2. OutIter(h, s, tx, 1..0)
    BY <2>1 DEF OutIter
  <2> QED BY <2>2
<1>2. ASSUME NEW i \in 1..n, i - 1 \in Good PROVE i \in Good
  <2>1. PICK h : OutIter(h, s, tx, 1..(i - 1))
    BY <1>2
  <2> DEFINE k == [x \in SUBSET (1..i) |->
                     IF i \in x THEN Advance(h[x \ {i}], tx[i]) ELSE h[x]]
  <2>2. ASSUME NEW x \in SUBSET (1..i)
        PROVE  k[x] = IF x = {} THEN s ELSE Advance(k[x \ {Max(x)}], tx[Max(x)])
    <3>1. CASE i \in x
      <4>1. Max(x) = i
        BY <3>1, MaxOfTop
      <4>2. k[x] = Advance(h[x \ {i}], tx[i])
        BY <3>1
      <4>3. x \ {i} \in SUBSET (1..i) /\ i \notin x \ {i}
        OBVIOUS
      <4>4. k[x \ {i}] = h[x \ {i}]
        BY <4>3
      <4> HIDE DEF k
      <4> QED BY <3>1, <4>1, <4>2, <4>4
    <3>2. CASE i \notin x
      <4>0. \A y \in x : y \in 1..(i - 1)
        BY <3>2
      <4>1. x \in SUBSET (1..(i - 1)) /\ x \ {Max(x)} \in SUBSET (1..(i - 1))
        BY <4>0
      <4>2. h[x] = IF x = {} THEN s ELSE Advance(h[x \ {Max(x)}], tx[Max(x)])
        BY <2>1, <4>1 DEF OutIter
      <4>3. k[x] = h[x] /\ k[x \ {Max(x)}] = h[x \ {Max(x)}]
        BY <3>2
      <4> QED BY <4>2, <4>3
    <3> QED BY <3>1, <3>2
  <2>3. OutIter(k, s, tx, 1..i)
    <3>1. k = [x \in SUBSET (1..i) |-> k[x]]
      OBVIOUS
    <3> HIDE DEF k
    <3> QED BY <2>2, <3>1 DEF OutIter
  <2> HIDE DEF k
  <2> QED BY <2>3
<1>3. \A i \in 0..n : i \in Good
  <2> HIDE DEF Good
  <2> QED BY <1>1, <1>2, UpTo, SMTT(60)
<1>4. OutIter(it, s, tx, 1..n)
  <2>1. \E h : OutIter(h, s, tx, 1..n)
    BY <1>3
  <2> QED BY <2>1
<1>5. process_output(s, tx) = it[1..n]
  BY DEF process_output, FoldLeft, MapThenFoldSet, OutIter
<1> HIDE DEF it
<1>6. it[1..0] = s
  BY <1>4 DEF OutIter
<1>7. ASSUME NEW i \in 1..n PROVE it[1..i] = Advance(it[1..(i - 1)], tx[i])
  <2>1. Max(1..i) = i
    BY MaxOfTop
  <2>2. \A j : j \in 1..i /\ j # i <=> j \in 1..(i - 1)
    OBVIOUS
  <2>3. (1..i) \ {i} = 1..(i - 1)
    BY <2>2
  <2>4. 1..i # {} /\ 1..i \in SUBSET (1..n)
    OBVIOUS
  <2> QED BY <1>4, <2>1, <2>3, <2>4 DEF OutIter
<1>8. /\ g[0] = s /\ g[n] = it[1..n]
      /\ \A i \in 1..n : g[i] = it[1..i] /\ g[i - 1] = it[1..(i - 1)]
  BY <1>6
<1> HIDE DEF g
<1>9. OutRun(g, s, tx, n) /\ process_output(s, tx) = g[n]
  BY <1>5, <1>7, <1>8 DEF OutRun
<1> QED BY <1>9

\* The same functions and states for the keys fed to the line discipline.
FeedIter(h, s, t, tx, S) ==
  h = [x \in SUBSET S |-> IF x = {} THEN s ELSE feed_byte(h[x \ {Max(x)}], t, tx[Max(x)])]

\* The states g that the line discipline goes through on the first n bytes of tx.
FeedRun(g, s, t, tx, n) == g[0] = s /\ \A i \in 1..n : g[i] = feed_byte(g[i - 1], t, tx[i])

\* feed_input is the last of the states that it goes through.
LEMMA FeedSteps ==
  ASSUME NEW s, NEW t, NEW tx, NEW n \in Nat, DOMAIN tx = 1..n
  PROVE  \E g : FeedRun(g, s, t, tx, n) /\ feed_input(s, t, tx) = g[n]
<1> DEFINE Good == {m \in 0..n : \E h : FeedIter(h, s, t, tx, 1..m)}
           it == CHOOSE h : FeedIter(h, s, t, tx, 1..n)
           g == [i \in 0..n |-> it[1..i]]
<1>1. 0 \in Good
  <2> DEFINE h == [x \in SUBSET (1..0) |-> s]
  <2>1. \A x \in SUBSET (1..0) : x = {}
    OBVIOUS
  <2>2. FeedIter(h, s, t, tx, 1..0)
    BY <2>1 DEF FeedIter
  <2> QED BY <2>2
<1>2. ASSUME NEW i \in 1..n, i - 1 \in Good PROVE i \in Good
  <2>1. PICK h : FeedIter(h, s, t, tx, 1..(i - 1))
    BY <1>2
  <2> DEFINE k == [x \in SUBSET (1..i) |->
                     IF i \in x THEN feed_byte(h[x \ {i}], t, tx[i]) ELSE h[x]]
  <2>2. ASSUME NEW x \in SUBSET (1..i)
        PROVE  k[x] = IF x = {} THEN s ELSE feed_byte(k[x \ {Max(x)}], t, tx[Max(x)])
    <3>1. CASE i \in x
      <4>1. Max(x) = i
        BY <3>1, MaxOfTop
      <4>2. k[x] = feed_byte(h[x \ {i}], t, tx[i])
        BY <3>1
      <4>3. x \ {i} \in SUBSET (1..i) /\ i \notin x \ {i}
        OBVIOUS
      <4>4. k[x \ {i}] = h[x \ {i}]
        BY <4>3
      <4> HIDE DEF k
      <4> QED BY <3>1, <4>1, <4>2, <4>4
    <3>2. CASE i \notin x
      <4>0. \A y \in x : y \in 1..(i - 1)
        BY <3>2
      <4>1. x \in SUBSET (1..(i - 1)) /\ x \ {Max(x)} \in SUBSET (1..(i - 1))
        BY <4>0
      <4>2. h[x] = IF x = {} THEN s ELSE feed_byte(h[x \ {Max(x)}], t, tx[Max(x)])
        BY <2>1, <4>1 DEF FeedIter
      <4>3. k[x] = h[x] /\ k[x \ {Max(x)}] = h[x \ {Max(x)}]
        BY <3>2
      <4> QED BY <4>2, <4>3
    <3> QED BY <3>1, <3>2
  <2>3. FeedIter(k, s, t, tx, 1..i)
    <3>1. k = [x \in SUBSET (1..i) |-> k[x]]
      OBVIOUS
    <3> HIDE DEF k
    <3> QED BY <2>2, <3>1 DEF FeedIter
  <2> HIDE DEF k
  <2> QED BY <2>3
<1>3. \A i \in 0..n : i \in Good
  <2> HIDE DEF Good
  <2> QED BY <1>1, <1>2, UpTo, SMTT(60)
<1>4. FeedIter(it, s, t, tx, 1..n)
  <2>1. \E h : FeedIter(h, s, t, tx, 1..n)
    BY <1>3
  <2> QED BY <2>1
<1>5. feed_input(s, t, tx) = it[1..n]
  BY DEF feed_input, FoldLeft, MapThenFoldSet, FeedIter
<1> HIDE DEF it
<1>6. it[1..0] = s
  BY <1>4 DEF FeedIter
<1>7. ASSUME NEW i \in 1..n PROVE it[1..i] = feed_byte(it[1..(i - 1)], t, tx[i])
  <2>1. Max(1..i) = i
    BY MaxOfTop
  <2>2. \A j : j \in 1..i /\ j # i <=> j \in 1..(i - 1)
    OBVIOUS
  <2>3. (1..i) \ {i} = 1..(i - 1)
    BY <2>2
  <2>4. 1..i # {} /\ 1..i \in SUBSET (1..n)
    OBVIOUS
  <2> QED BY <1>4, <2>1, <2>3, <2>4 DEF FeedIter
<1>8. /\ g[0] = s /\ g[n] = it[1..n]
      /\ \A i \in 1..n : g[i] = it[1..i] /\ g[i - 1] = it[1..(i - 1)]
  BY <1>6
<1> HIDE DEF g
<1>9. FeedRun(g, s, t, tx, n) /\ feed_input(s, t, tx) = g[n]
  BY <1>5, <1>7, <1>8 DEF FeedRun
<1> QED BY <1>9

\* The function by which FlattenSeq is defined.
FlatIter(h, seqs, m) ==
  h = [i \in 1..m |-> IF i = 1 THEN seqs[i] ELSE h[i - 1] \o seqs[i]]

\* Flattening sequences over S gives a sequence over S.
LEMMA FlattenType ==
  ASSUME NEW S, NEW seqs \in Seq(Seq(S))
  PROVE  FlattenSeq(seqs) \in Seq(S)
<1> DEFINE n == Len(seqs)
           Good == {m \in 0..n : \E h : FlatIter(h, seqs, m)}
           it == CHOOSE h : FlatIter(h, seqs, n)
<1>0. n \in Nat /\ \A i \in 1..n : seqs[i] \in Seq(S)
  OBVIOUS
<1> HIDE DEF n
<1>1. 0 \in Good
  <2> DEFINE h == [i \in 1..0 |-> <<>>]
  <2>1. FlatIter(h, seqs, 0)
    BY DEF FlatIter
  <2> HIDE DEF h
  <2> QED BY <1>0, <2>1
<1>2. ASSUME NEW i \in 1..n, i - 1 \in Good PROVE i \in Good
  <2>1. PICK h : FlatIter(h, seqs, i - 1)
    BY <1>2
  <2> DEFINE k == [j \in 1..i |-> IF j = i THEN IF i = 1 THEN seqs[i] ELSE h[i - 1] \o seqs[i]
                                  ELSE h[j]]
  <2>2. ASSUME NEW j \in 1..i
        PROVE  k[j] = IF j = 1 THEN seqs[j] ELSE k[j - 1] \o seqs[j]
    <3>1. CASE j = i /\ i = 1
      BY <3>1
    <3>2. CASE j = i /\ i # 1
      <4>1. i - 1 \in 1..i /\ i - 1 # i
        BY <3>2
      <4>2. k[i - 1] = h[i - 1]
        BY <4>1
      <4>3. k[i] = h[i - 1] \o seqs[i]
        BY <3>2
      <4> HIDE DEF k
      <4> QED BY <3>2, <4>2, <4>3
    <3>3. CASE j # i
      <4>1. j \in 1..(i - 1) /\ (j # 1 => j - 1 \in 1..(i - 1))
        BY <3>3
      <4>2. k[j] = h[j] /\ (j # 1 => k[j - 1] = h[j - 1])
        BY <3>3
      <4>3. h[j] = IF j = 1 THEN seqs[j] ELSE h[j - 1] \o seqs[j]
        BY <2>1, <4>1 DEF FlatIter
      <4> HIDE DEF k
      <4> QED BY <4>2, <4>3
    <3> QED BY <3>1, <3>2, <3>3
  <2>3. k = [j \in 1..i |-> k[j]]
    OBVIOUS
  <2> HIDE DEF k
  <2>4. FlatIter(k, seqs, i)
    BY <2>2, <2>3 DEF FlatIter
  <2> QED BY <2>4
<1>3. \A i \in 0..n : i \in Good
  <2> HIDE DEF Good
  <2> QED BY <1>0, <1>1, <1>2, UpTo
<1>4. CASE n = 0
  <2>1. FlattenSeq(seqs) = seqs /\ seqs = <<>>
    BY <1>4 DEF FlattenSeq, n
  <2> QED BY <2>1
<1>5. CASE n # 0
  <2>1. FlatIter(it, seqs, n)
    <3>1. \E h : FlatIter(h, seqs, n)
      BY <1>0, <1>3
    <3> QED BY <3>1
  <2>2. FlattenSeq(seqs) = it[n]
    BY <1>5 DEF FlattenSeq, FlatIter, n
  <2> HIDE DEF it
  <2> DEFINE T == {m \in 0..n : m = 0 \/ it[m] \in Seq(S)}
  <2>3. ASSUME NEW i \in 1..n, i - 1 \in T PROVE i \in T
    <3>1. it[i] = IF i = 1 THEN seqs[i] ELSE it[i - 1] \o seqs[i]
      BY <2>1 DEF FlatIter
    <3>2. i # 1 => it[i - 1] \in Seq(S)
      BY <2>3
    <3>3. CASE i = 1
      BY <1>0, <3>1, <3>3
    <3>4. CASE i # 1
      <4>1. seqs[i] \in Seq(S) /\ it[i - 1] \in Seq(S)
        BY <1>0, <3>2, <3>4
      <4>2. it[i - 1] \o seqs[i] \in Seq(S)
        BY <4>1
      <4>3. it[i] = it[i - 1] \o seqs[i]
        BY <3>1, <3>4
      <4>4. it[i] \in Seq(S)
        BY <4>2, <4>3, Zenon
      <4> QED BY <4>4
    <3> QED BY <3>3, <3>4
  <2>4. 0 \in T
    BY <1>0
  <2>5. \A i \in 0..n : i \in T
    <3> HIDE DEF T
    <3> QED BY <1>0, <2>3, <2>4, UpTo
  <2> QED BY <1>0, <1>5, <2>2, <2>5
<1> QED BY <1>4, <1>5

(***************************************************************************)
(* What the line discipline and the parser keep                            *)
(***************************************************************************)
\* The parser on one byte keeps the types and takes nothing away from the reader.
LEMMA AdvanceKeeps ==
  ASSUME NEW s \in LdiscType, NEW b
  PROVE  Advance(s, b) \in LdiscType /\ Len(Advance(s, b).readable) >= Len(s.readable)
<1> DEFINE more == s.readable \o <<ReplyByte, ReplyByte>>
<1>0. /\ s.readable \in Seq(Byte \cup {ReplyByte})
      /\ <<ReplyByte, ReplyByte>> \in Seq(Byte \cup {ReplyByte})
  BY DEF LdiscType
<1>1. more \in Seq(Byte \cup {ReplyByte}) /\ Len(more) >= Len(s.readable)
  BY <1>0
<1>2. respond([s EXCEPT !.csi = FALSE]) = [s EXCEPT !.csi = FALSE, !.readable = more]
  BY DEF respond, LdiscType
<1> HIDE DEF more
<1>3. Len(s.readable) \in Nat
  BY <1>0
<1>4. Advance(s, b) \in {s, [s EXCEPT !.csi = TRUE], [s EXCEPT !.csi = FALSE],
                        [s EXCEPT !.csi = FALSE, !.readable = more]}
  BY <1>2 DEF Advance
<1>5. \A x \in {s, [s EXCEPT !.csi = TRUE], [s EXCEPT !.csi = FALSE],
               [s EXCEPT !.csi = FALSE, !.readable = more]} :
        x \in LdiscType /\ (x.readable = s.readable \/ x.readable = more)
  BY <1>1 DEF LdiscType
<1>6. Advance(s, b) \in LdiscType
      /\ (Advance(s, b).readable = s.readable \/ Advance(s, b).readable = more)
  BY <1>4, <1>5, Zenon
<1> QED BY <1>1, <1>3, <1>6

\* The same of a whole output.
LEMMA OutputKeeps ==
  ASSUME NEW s \in LdiscType, NEW S, NEW tx \in Seq(S)
  PROVE  process_output(s, tx) \in LdiscType
         /\ Len(process_output(s, tx).readable) >= Len(s.readable)
<1> DEFINE n == Len(tx)
<1>1. n \in Nat /\ DOMAIN tx = 1..n
  OBVIOUS
<1> HIDE DEF n
<1>2. PICK g : OutRun(g, s, tx, n) /\ process_output(s, tx) = g[n]
  BY <1>1, OutputSteps
<1> DEFINE T == {i \in 0..n : g[i] \in LdiscType /\ Len(g[i].readable) >= Len(s.readable)}
<1>3. 0 \in T
  <2>1. Len(s.readable) \in Nat
    BY DEF LdiscType
  <2> QED BY <1>1, <1>2, <2>1 DEF OutRun
<1>4. ASSUME NEW i \in 1..n, i - 1 \in T PROVE i \in T
  <2>1. g[i - 1] \in LdiscType /\ Len(g[i - 1].readable) >= Len(s.readable)
    BY <1>4
  <2>2. g[i] \in LdiscType /\ Len(g[i].readable) >= Len(g[i - 1].readable)
    BY <1>2, <2>1, AdvanceKeeps DEF OutRun
  <2>3. Len(s.readable) \in Nat /\ Len(g[i].readable) \in Nat /\ Len(g[i - 1].readable) \in Nat
    BY <2>1, <2>2, SMTT(60) DEF LdiscType
  <2>4. Len(g[i].readable) >= Len(s.readable)
    BY <2>1, <2>2, <2>3, SMTT(60)
  <2> QED BY <2>2, <2>4
<1>5. \A i \in 0..n : i \in T
  <2> HIDE DEF T
  <2> QED BY <1>1, <1>3, <1>4, UpTo
<1> QED BY <1>1, <1>2, <1>5

\* An echo keeps the types.
LEMMA EchoType ==
  ASSUME NEW s \in LdiscType, NEW t, NEW bytes \in Seq(OutByte)
  PROVE  Echo(s, t, bytes) \in LdiscType
<1>1. s.echo \o bytes \in Seq(OutByte)
  BY DEF LdiscType
<1> QED BY <1>1 DEF Echo, LdiscType

\* The end of a line keeps the types.
LEMMA FlushType ==
  ASSUME NEW s \in LdiscType
  PROVE  Flush(s) \in LdiscType
<1>0. s.line \in Seq(Byte \cup {ReplyByte})
  BY DEF LdiscType
<1>1. s.readable \o s.line \in Seq(Byte \cup {ReplyByte})
  BY <1>0 DEF LdiscType
<1>2. <<>> \in Seq(Byte)
  OBVIOUS
<1> DEFINE all == s.readable \o s.line
<1>3. Flush(s) = [s EXCEPT !.readable = all, !.line = <<>>]
  BY DEF Flush, LdiscType
<1> HIDE DEF all
<1>4. [s EXCEPT !.readable = all, !.line = <<>>] \in LdiscType
  BY <1>1, <1>2 DEF LdiscType, all
<1> QED BY <1>3, <1>4

\* A key in canonical mode keeps the types.
LEMMA CanonicalInputType ==
  ASSUME NEW s \in LdiscType, NEW t, NEW b \in Byte
  PROVE  canonical_input(s, t, b) \in LdiscType
<1>1. canonical_erase(s, t) \in LdiscType
  <2>1. s.line # <<>> => Front(s.line) \in Seq(Byte)
    BY DEF LdiscType, Front
  <2>2. s.line # <<>> => [s EXCEPT !.line = Front(@)] \in LdiscType
    BY <2>1 DEF LdiscType
  <2>3. <<Rub>> \in Seq(OutByte)
    BY DEF OutByte
  <2> QED BY <2>2, <2>3, EchoType DEF canonical_erase
<1>2. canonical_kill(s, t) \in LdiscType
  <2>1. Len(s.line) \in Nat
    BY DEF LdiscType
  <2>2. [i \in 1..Len(s.line) |-> Rub] \in Seq(OutByte)
    BY <2>1 DEF OutByte
  <2>3. <<>> \in Seq(Byte)
    OBVIOUS
  <2>4. [s EXCEPT !.line = <<>>] \in LdiscType
    BY <2>3 DEF LdiscType
  <2> QED BY <2>2, <2>4, EchoType DEF canonical_kill
<1>3. Echo([s EXCEPT !.line = Append(@, b)], t, <<b>>) \in LdiscType
  <2>1. Append(s.line, b) \in Seq(Byte)
    BY DEF LdiscType
  <2>2. [s EXCEPT !.line = Append(@, b)] \in LdiscType
    BY <2>1 DEF LdiscType
  <2>3. <<b>> \in Seq(OutByte)
    BY DEF OutByte
  <2> QED BY <2>2, <2>3, EchoType
<1> QED BY <1>1, <1>2, <1>3, FlushType DEF canonical_input

\* A key in either mode keeps the types.
LEMMA FeedByteType ==
  ASSUME NEW s \in LdiscType, NEW t, NEW raw \in Byte
  PROVE  feed_byte(s, t, raw) \in LdiscType
<1> DEFINE next == [s EXCEPT !.cr = (raw = "cr")]
           b == CASE raw = "cr" /\ Has(t, "ICRNL") -> "nl"
                  [] raw = "nl" /\ Has(t, "INLCR") -> "cr"
                  [] OTHER -> raw
<1>1. next \in LdiscType
  BY DEF LdiscType
<1>2. b \in Byte
  BY DEF Byte, Special
<1> HIDE DEF next, b
<1>3. canonical_input(next, t, b) \in LdiscType
  BY <1>1, <1>2, CanonicalInputType
<1>4. Echo([next EXCEPT !.readable = Append(@, b)], t, <<b>>) \in LdiscType
  <2>1. Append(next.readable, b) \in Seq(Byte \cup {ReplyByte})
    BY <1>1, <1>2 DEF LdiscType
  <2>2. [next EXCEPT !.readable = Append(@, b)] \in LdiscType
    BY <1>1, <2>1 DEF LdiscType
  <2>3. <<b>> \in Seq(OutByte)
    BY <1>2 DEF OutByte
  <2> QED BY <2>2, <2>3, EchoType
<1> QED BY <1>1, <1>3, <1>4 DEF feed_byte, next, b

\* So does a chunk of keys.
LEMMA FeedInputType ==
  ASSUME NEW s \in LdiscType, NEW t, NEW input \in Seq(Byte)
  PROVE  feed_input(s, t, input) \in LdiscType
<1> DEFINE n == Len(input)
<1>1. n \in Nat /\ DOMAIN input = 1..n /\ \A i \in 1..n : input[i] \in Byte
  OBVIOUS
<1> HIDE DEF n
<1>2. PICK g : FeedRun(g, s, t, input, n) /\ feed_input(s, t, input) = g[n]
  BY <1>1, FeedSteps
<1> DEFINE T == {i \in 0..n : g[i] \in LdiscType}
<1>3. 0 \in T
  BY <1>1, <1>2 DEF FeedRun
<1>4. ASSUME NEW i \in 1..n, i - 1 \in T PROVE i \in T
  BY <1>1, <1>2, <1>4, FeedByteType DEF FeedRun
<1>5. \A i \in 0..n : i \in T
  <2> HIDE DEF T
  <2> QED BY <1>1, <1>3, <1>4, UpTo
<1> QED BY <1>1, <1>2, <1>5

\* Output processing keeps the types.
LEMMA TransformType ==
  ASSUME NEW t, NEW bytes \in Seq(OutByte)
  PROVE  tty_output_transform(t, bytes) \in Seq(OutByte)
<1> DEFINE Post(b) == CASE b = "nl" /\ Has(t, "ONLCR") -> <<"cr", "nl">>
                        [] b = "cr" /\ Has(t, "OCRNL") -> <<"nl">>
                        [] OTHER -> <<b>>
           seqs == [i \in DOMAIN bytes |-> Post(bytes[i])]
<1>1. <<"cr", "nl">> \in Seq(OutByte) /\ <<"nl">> \in Seq(OutByte)
  BY DEF OutByte, Byte, Special
<1>2. \A b \in OutByte : Post(b) \in Seq(OutByte)
  BY <1>1
<1> HIDE DEF Post
<1>3. \A i \in DOMAIN bytes : Post(bytes[i]) \in Seq(OutByte)
  BY <1>2
<1>4. seqs \in Seq(Seq(OutByte))
  <2>1. Len(bytes) \in Nat /\ DOMAIN bytes = 1..Len(bytes)
    OBVIOUS
  <2> QED BY <1>3, <2>1
<1> HIDE DEF seqs
<1>5. FlattenSeq(seqs) \in Seq(OutByte)
  BY <1>4, FlattenType
<1> QED BY <1>5 DEF tty_output_transform, seqs, Post

\* TtyDevice::write keeps the types and takes nothing away from the reader.
LEMMA WriteKeeps ==
  ASSUME NEW s \in LdiscType, NEW t, NEW bytes \in Seq(OutByte)
  PROVE  /\ write(s, t, bytes).state \in LdiscType
         /\ Len(write(s, t, bytes).state.readable) >= Len(s.readable)
<1> DEFINE tx == tty_output_transform(t, bytes)
<1>1. tx \in Seq(OutByte)
  BY TransformType
<1>2. write(s, t, bytes).state = process_output(s, tx)
  BY DEF write
<1> HIDE DEF tx
<1> QED BY <1>1, <1>2, OutputKeeps

\* What a call of the driver starts from is typed.
LEMMA LdiscHasType == Buffers => Ldisc \in LdiscType /\ Ldisc.readable = readable_buf
<1> SUFFICES ASSUME Buffers PROVE Ldisc \in LdiscType /\ Ldisc.readable = readable_buf
  OBVIOUS
<1>1. <<>> \in Seq(OutByte)
  OBVIOUS
<1> QED BY <1>1 DEF Buffers, Ldisc, LdiscType

\* A write, or the echo of what was typed, leaves the buffers typed.
LEMMA StoreKeeps ==
  ASSUME Buffers, NEW s \in LdiscType, Store(s), NEW sent, prism_stream_write(sent)
  PROVE  Buffers'
<1>1. host_csi' \in BOOLEAN
  BY DEF Buffers, prism_stream_write
<1>2. asked' \in BOOLEAN
  BY DEF prism_stream_write
<1>3. /\ canonical_line_buf' \in Seq(Byte) /\ readable_buf' \in Seq(Byte \cup {ReplyByte})
      /\ last_was_cr' \in BOOLEAN /\ in_csi' \in BOOLEAN
  BY DEF Store, LdiscType
<1> QED BY <1>1, <1>2, <1>3 DEF Buffers

\* Concatenation keeps types and adds lengths.
LEMMA ConcatType ==
  ASSUME NEW S
  PROVE  \A a, b \in Seq(S) : a \o b \in Seq(S) /\ Len(a \o b) = Len(a) + Len(b)
  OBVIOUS

\* Reading from the host moves bytes from the host's input to what was fed.
LEMMA FeedKeeps ==
  ASSUME Buffers, termios \in TermiosType, host_in \in Seq(Byte), fed \in FedType,
         NEW input \in prism_stream_read, FeedFromHost(input)
  PROVE  /\ Buffers' /\ host_in' \in Seq(Byte) /\ fed' \in FedType
         /\ Len(fed') + Len(host_in') = Len(fed) + Len(host_in)
<1>1. PICK n \in 1..(IF Len(host_in) < HostChunk THEN Len(host_in) ELSE HostChunk) :
        input = SubSeq(host_in, 1, n)
  BY DEF prism_stream_read
<1>2. n \in 1..Len(host_in)
  BY BoundAssumption
<1>3. input \in Seq(Byte) /\ Len(input) = n
  BY <1>1, <1>2
<1>4. Buffers'
  <2> DEFINE s == feed_input(Ldisc, termios, input)
  <2>1. s \in LdiscType
    BY <1>3, LdiscHasType, FeedInputType
  <2>2. Fed(input) = write(s, termios, s.echo)
    BY DEF Fed
  <2> HIDE DEF s
  <2>3. s.echo \in Seq(OutByte)
    BY <2>1 DEF LdiscType
  <2>4. Fed(input).state \in LdiscType
    BY <2>1, <2>2, <2>3, WriteKeeps
  <2>5. PICK sent : prism_stream_write(sent)
    BY DEF FeedFromHost
  <2>6. Store(Fed(input).state)
    BY DEF FeedFromHost
  <2> QED BY <2>4, <2>5, <2>6, StoreKeeps
<1>5. host_in' = SubSeq(host_in, n + 1, Len(host_in))
  BY <1>3 DEF FeedFromHost
<1>6. host_in' \in Seq(Byte) /\ Len(host_in') = Len(host_in) - n
  BY <1>2, <1>5
<1> DEFINE new == [i \in DOMAIN input |-> [byte |-> input[i], termios |-> termios]]
<1>7. new \in FedType /\ Len(new) = n
  <2>1. DOMAIN input = 1..n /\ n \in Nat /\ \A i \in 1..n : input[i] \in Byte
    BY <1>2, <1>3
  <2>2. \A i \in 1..n :
          [byte |-> input[i], termios |-> termios] \in [byte : Byte, termios : TermiosType]
    BY <2>1
  <2>3. new = [i \in 1..n |-> [byte |-> input[i], termios |-> termios]]
    BY <2>1
  <2>4. new \in Seq([byte : Byte, termios : TermiosType])
    BY <2>1, <2>2, <2>3
  <2>5. Len(new) = n
    BY <2>1, <2>3
  <2> QED BY <2>4, <2>5 DEF FedType
<1>8. fed' = fed \o new
  BY DEF FeedFromHost
<1> HIDE DEF new
<1>9. fed' \in FedType /\ Len(fed') = Len(fed) + n /\ Len(fed) \in Nat
  <2>1. \A a, b \in FedType : a \o b \in FedType /\ Len(a \o b) = Len(a) + Len(b)
    BY ConcatType DEF FedType
  <2>2. Len(fed) \in Nat
    BY DEF FedType
  <2> QED BY <1>7, <1>8, <2>1, <2>2
<1> QED BY <1>2, <1>4, <1>6, <1>9

(***************************************************************************)
(* The steps                                                               *)
(***************************************************************************)
\* The parts of the invariant, as the steps disturb them.
LEMMA InvParts ==
  /\ TtyInv <=> /\ TermiosInv /\ Buffers /\ HostInv /\ CallInv /\ SignalInv
                /\ PollInv /\ promised \in BOOLEAN
  /\ TtyInv' <=> /\ TermiosInv' /\ Buffers' /\ HostInv' /\ CallInv' /\ SignalInv'
                 /\ PollInv' /\ promised' \in BOOLEAN
  BY DEF TtyInv, TypeOK, TermiosInv, Buffers, HostInv, CallInv, SignalInv

\* Every mode in force is a mode.
LEMMA TermiosHasType == TermiosInv => termios \in TermiosType
<1>1. default_termios \in TermiosType
  BY DEF default_termios, TermiosType, Iflag, Oflag, Lflag, Byte, Special
<1> QED BY <1>1, ArgumentAssumption DEF TermiosInv, TermiosType

\* can_read_now looks at the length of what is readable only.
LEMMA CanReadGrows ==
  ASSUME NEW a \in Seq(Byte \cup {ReplyByte}), NEW b \in Seq(Byte \cup {ReplyByte}),
         NEW t \in TermiosType, can_read_now(a, t), Len(b) >= Len(a)
  PROVE  can_read_now(b, t)
<1>1. a # <<>> => Len(a) > 0
  OBVIOUS
<1>2. b # <<>>
  BY <1>1 DEF can_read_now
<1>3. t.vmin \in Nat
  BY DEF TermiosType
<1> QED BY <1>2, <1>3 DEF can_read_now

\* The invariant holds at first.
LEMMA TtyInit == Init => TtyInv
<1> SUFFICES ASSUME Init PROVE TtyInv
  OBVIOUS
<1>1. Len(<<>>) = 0 /\ \A S : <<>> \in Seq(S)
  OBVIOUS
<1>2. TermiosInv /\ Buffers /\ promised \in BOOLEAN
  BY <1>1 DEF Init, TermiosInv, Buffers
<1>3. HostInv
  <2>1. fed = <<>> /\ host_in = <<>>
    BY DEF Init
  <2>2. fed \in FedType /\ host_in \in Seq(Byte)
    BY <1>1, <2>1 DEF FedType
  <2>3. Len(fed) + Len(host_in) <= MaxTyped
    BY <1>1, <2>1, BoundAssumption
  <2> QED BY <2>2, <2>3 DEF HostInv
<1>4. CallInv
  BY <1>1 DEF Init, CallInv
<1>5. SignalInv /\ PollInv
  BY DEF Init, SignalInv, SInv, PollInv, PollThenRead
<1> QED BY <1>2, <1>3, <1>4, <1>5, InvParts

\* A step that leaves the driver, the host and the mode alone.
LEMMA QuietKeeps ==
  ASSUME TtyInv, UNCHANGED <<termios, ldisc, host_in>>
  PROVE  TermiosInv' /\ Buffers' /\ HostInv'
  BY InvParts DEF TermiosInv, Buffers, HostInv, ldisc

\* A step outside of ppoll leaves the masks alone.
LEMMA SignalsKeep ==
  ASSUME TtyInv, UNCHANGED signals, phase' = phase \/ (phase # "poll" /\ phase' # "poll")
  PROVE  SignalInv'
  BY InvParts DEF SignalInv, SInv, signals

\* A key is pressed.
LEMMA TypeStep == TtyInv /\ Type => TtyInv'
<1> SUFFICES ASSUME TtyInv, Type PROVE TtyInv'
  OBVIOUS
<1> USE InvParts
<1> DEFINE n == Len(fed) + Len(host_in) + 1
<1>1. Len(fed) \in Nat /\ Len(host_in) \in Nat
  BY DEF HostInv, FedType
<1>2. n \in 1..Len(Letters) /\ n <= MaxTyped
  BY <1>1, BoundAssumption DEF Type
<1>3. PICK b \in Keys \cup {Letters[n]} : host_in' = Append(host_in, b)
  BY DEF Type
<1>4. b \in Byte
  <2>1. Letters[n] \in Range(Letters)
    BY <1>2, BoundAssumption DEF Range
  <2> QED BY <1>3, <2>1, ArgumentAssumption DEF Byte
<1>5. fed' = fed
  BY DEF Type, ldisc
<1>6. host_in' \in Seq(Byte) /\ Len(host_in') = Len(host_in) + 1
  BY <1>3, <1>4 DEF HostInv
<1>7. HostInv'
  BY <1>1, <1>2, <1>5, <1>6 DEF HostInv
<1>8. TermiosInv' /\ Buffers' /\ CallInv' /\ PollInv' /\ promised' \in BOOLEAN
  BY DEF Type, ldisc, TermiosInv, Buffers, CallInv, PollInv, PollThenRead
<1>9. SignalInv'
  BY SignalsKeep DEF Type
<1> QED BY <1>7, <1>8, <1>9

\* A read is called, and a promise of input with it redeemed.
LEMMA SysReadStep == TtyInv /\ SysRead => TtyInv'
<1> SUFFICES ASSUME TtyInv, SysRead PROVE TtyInv'
  OBVIOUS
<1>1. TermiosInv' /\ Buffers' /\ HostInv'
  BY QuietKeeps DEF SysRead
<1>2. CallInv'
  BY InvParts, ArgumentAssumption DEF SysRead, CallInv
<1>3. SignalInv'
  BY SignalsKeep DEF SysRead
<1>4. PollInv' /\ promised' \in BOOLEAN
  BY DEF SysRead, PollInv, PollThenRead
<1> QED BY <1>1, <1>2, <1>3, <1>4, InvParts

\* A write is called.
LEMMA SysWriteStep == TtyInv /\ SysWrite => TtyInv'
<1> SUFFICES ASSUME TtyInv, SysWrite PROVE TtyInv'
  OBVIOUS
<1>1. TermiosInv' /\ Buffers' /\ HostInv'
  BY QuietKeeps DEF SysWrite
<1>2. CallInv'
  BY InvParts, ArgumentAssumption DEF SysWrite, CallInv
<1>3. SignalInv'
  BY SignalsKeep DEF SysWrite
<1>4. PollInv' /\ promised' \in BOOLEAN
  BY InvParts DEF SysWrite, PollInv, PollThenRead, ldisc
<1> QED BY <1>1, <1>2, <1>3, <1>4, InvParts

\* The mode changes.
LEMMA TcsetsStep == TtyInv /\ Tcsets => TtyInv'
<1> SUFFICES ASSUME TtyInv, Tcsets PROVE TtyInv'
  OBVIOUS
<1>1. TermiosInv'
  BY DEF Tcsets, TermiosInv
<1>2. Buffers' /\ HostInv' /\ CallInv'
  BY InvParts DEF Tcsets, ldisc, Buffers, HostInv, CallInv
<1>3. SignalInv'
  BY SignalsKeep DEF Tcsets
<1>4. PollInv' /\ promised' \in BOOLEAN
  BY DEF Tcsets, PollInv, PollThenRead
<1> QED BY <1>1, <1>2, <1>3, <1>4, InvParts

\* ppoll is called.
LEMMA SysPpollStep == TtyInv /\ SysPpoll => TtyInv'
<1> SUFFICES ASSUME TtyInv, SysPpoll PROVE TtyInv'
  OBVIOUS
<1>1. TermiosInv' /\ Buffers' /\ HostInv'
  BY QuietKeeps DEF SysPpoll
<1>2. CallInv'
  BY InvParts DEF SysPpoll, CallInv
<1>3. SignalInv'
  BY InvParts, ArgumentAssumption DEF SysPpoll, SignalInv, SInv
<1>4. PollInv' /\ promised' \in BOOLEAN
  BY InvParts DEF SysPpoll, PollInv, PollThenRead, ldisc
<1> QED BY <1>1, <1>2, <1>3, <1>4, InvParts

\* The host fails a read.
LEMMA ReadFailsStep == TtyInv /\ ReadFails => TtyInv'
<1> SUFFICES ASSUME TtyInv, ReadFails PROVE TtyInv'
  OBVIOUS
<1>1. TermiosInv' /\ Buffers' /\ HostInv'
  BY QuietKeeps DEF ReadFails
<1>2. CallInv'
  <2>1. <<>> \in Seq(Nat)
    OBVIOUS
  <2> QED BY <2>1, InvParts DEF ReadFails, CallInv
<1>3. SignalInv'
  BY SignalsKeep DEF ReadFails
<1>4. PollInv' /\ promised' \in BOOLEAN
  BY InvParts DEF ReadFails, PollInv, PollThenRead, ldisc
<1> QED BY <1>1, <1>2, <1>3, <1>4, InvParts

\* A chunk is read: what is left to read and to fill is typed.
LEMMA ReadChunkStep == TtyInv /\ ReadChunk => TtyInv'
<1> SUFFICES ASSUME TtyInv, ReadChunk PROVE TtyInv'
  OBVIOUS
<1> DEFINE chunk == IF Head(want) < RwChunk THEN Head(want) ELSE RwChunk
           ready == take_readable(readable_buf, termios, chunk)
           n == Len(ready)
           rest == IF Head(want) = n THEN Tail(want) ELSE <<Head(want) - n>> \o Tail(want)
<1>1. phase = "read" /\ readable_buf' = SubSeq(readable_buf, n + 1, Len(readable_buf))
  BY DEF ReadChunk
<1>2. \/ phase' = "read" /\ want' = rest /\ rest # <<>>
      \/ phase' = "idle" /\ want' = <<>>
  BY DEF ReadChunk
<1>3. UNCHANGED <<termios, canonical_line_buf, last_was_cr, in_csi, host_csi, fed, asked,
                  host_in, out, signals, promised>>
  BY DEF ReadChunk
<1>4. want \in Seq(Nat) /\ want # <<>>
  BY <1>1, InvParts DEF CallInv
<1>5. Head(want) \in Nat /\ Tail(want) \in Seq(Nat)
  BY <1>4
<1>6. chunk \in Nat /\ chunk <= Head(want)
  BY <1>5, BoundAssumption
<1> HIDE DEF chunk
<1>7. readable_buf \in Seq(Byte \cup {ReplyByte}) /\ Len(readable_buf) \in Nat
  BY InvParts DEF Buffers
<1>8. n \in Nat /\ n <= chunk /\ n <= Len(readable_buf)
  <2> DEFINE m == IF Len(readable_buf) < chunk THEN Len(readable_buf) ELSE chunk
  <2>1. m \in Nat /\ m <= chunk /\ m <= Len(readable_buf)
    BY <1>6, <1>7
  <2>2. ready = SubSeq(readable_buf, 1, m) \/ ready = <<>>
    BY DEF take_readable
  <2> HIDE DEF m, ready
  <2>3. Len(SubSeq(readable_buf, 1, m)) = m
    BY <1>7, <2>1
  <2> QED BY <1>6, <1>7, <2>1, <2>2, <2>3
<1> HIDE DEF n
<1>9. Buffers'
  <2>1. readable_buf' \in Seq(Byte \cup {ReplyByte})
    BY <1>1, <1>7, <1>8
  <2> QED BY <1>3, <2>1, InvParts DEF Buffers
<1>10. rest \in Seq(Nat)
  <2>1. Head(want) - n \in Nat
    BY <1>5, <1>6, <1>8
  <2>2. <<Head(want) - n>> \in Seq(Nat)
    BY <2>1
  <2>3. <<Head(want) - n>> \o Tail(want) \in Seq(Nat)
    BY <1>5, <2>2, ConcatType
  <2> QED BY <1>5, <2>3
<1> HIDE DEF rest
<1>11. CallInv'
  <2>1. <<>> \in Seq(Nat)
    OBVIOUS
  <2> QED BY <1>1, <1>2, <1>3, <1>10, <2>1, InvParts DEF CallInv
<1>12. SignalInv'
  BY <1>1, <1>2, <1>3, SignalsKeep
<1>13. PollInv' /\ promised' \in BOOLEAN
  BY <1>1, <1>3, InvParts DEF PollInv, PollThenRead
<1>14. TermiosInv' /\ HostInv'
  BY <1>3, InvParts DEF TermiosInv, HostInv
<1> QED BY <1>9, <1>11, <1>12, <1>13, <1>14, InvParts

\* A read that found nothing reads from the host.
LEMMA ReadFetchesStep == TtyInv /\ ReadFetches => TtyInv'
<1> SUFFICES ASSUME TtyInv, ReadFetches PROVE TtyInv'
  OBVIOUS
<1>1. PICK input \in prism_stream_read : FeedFromHost(input)
  BY DEF ReadFetches
<1>2. Buffers' /\ HostInv'
  BY <1>1, FeedKeeps, TermiosHasType, InvParts DEF HostInv
<1>3. TermiosInv' /\ CallInv'
  BY InvParts DEF ReadFetches, TermiosInv, CallInv
<1>4. SignalInv'
  BY SignalsKeep DEF ReadFetches
<1>5. PollInv' /\ promised' \in BOOLEAN
  BY InvParts DEF ReadFetches, PollInv, PollThenRead
<1> QED BY <1>2, <1>3, <1>4, <1>5, InvParts

\* A chunk is written: a reply may come to what is readable, nothing goes from it.
LEMMA WriteChunkStep == TtyInv /\ WriteChunk => TtyInv'
<1> SUFFICES ASSUME TtyInv, WriteChunk PROVE TtyInv'
  OBVIOUS
<1> DEFINE n == IF Len(Head(out)) < RwChunk THEN Len(Head(out)) ELSE RwChunk
           w == write(Ldisc, termios, SubSeq(Head(out), 1, n))
           rest == IF n = Len(Head(out)) THEN Tail(out)
                   ELSE <<SubSeq(Head(out), n + 1, Len(Head(out)))>> \o Tail(out)
<1>1. phase = "write" /\ UNCHANGED <<termios, host_in, fed, want, signals, promised>>
  BY DEF WriteChunk, ldisc
<1>2. \/ phase' = "write" /\ out' = rest /\ rest # <<>>
      \/ phase' = "idle" /\ out' = <<>>
  BY DEF WriteChunk
<1>3. out \in Seq(Seq(Byte)) /\ out # <<>>
  BY <1>1, InvParts DEF CallInv
<1>4. Head(out) \in Seq(Byte) /\ Tail(out) \in Seq(Seq(Byte))
  BY <1>3
<1>5. n \in Nat /\ n <= Len(Head(out)) /\ Len(Head(out)) \in Nat
  BY <1>4, BoundAssumption
<1> HIDE DEF n
<1>6. SubSeq(Head(out), 1, n) \in Seq(Byte)
  BY <1>4, <1>5
<1>7. rest \in Seq(Seq(Byte))
  <2>1. SubSeq(Head(out), n + 1, Len(Head(out))) \in Seq(Byte)
    BY <1>4, <1>5
  <2>2. <<SubSeq(Head(out), n + 1, Len(Head(out)))>> \in Seq(Seq(Byte))
    BY <2>1
  <2>3. <<SubSeq(Head(out), n + 1, Len(Head(out)))>> \o Tail(out) \in Seq(Seq(Byte))
    BY <1>4, <2>2, ConcatType
  <2> QED BY <1>4, <2>3
<1>8. \/ Store(w.state) /\ \E sent : prism_stream_write(sent)
      \/ UNCHANGED ldisc
  BY DEF WriteChunk, n
<1> HIDE DEF rest
<1>9. w.state \in LdiscType /\ Len(w.state.readable) >= Len(readable_buf)
  <2>1. SubSeq(Head(out), 1, n) \in Seq(OutByte)
    BY <1>6 DEF OutByte
  <2> QED BY <2>1, LdiscHasType, WriteKeeps, InvParts
<1> HIDE DEF w
<1>10. Buffers'
  <2>1. CASE UNCHANGED ldisc
    BY <2>1, InvParts DEF ldisc, Buffers
  <2>2. CASE Store(w.state) /\ \E sent : prism_stream_write(sent)
    BY <1>9, <2>2, StoreKeeps, InvParts
  <2> QED BY <1>8, <2>1, <2>2
<1>11. CallInv'
  <2>1. <<>> \in Seq(Seq(Byte))
    OBVIOUS
  <2> QED BY <1>1, <1>2, <1>7, <2>1, InvParts DEF CallInv
<1>12. SignalInv'
  BY <1>1, <1>2, SignalsKeep
<1>13. PollInv'
  <2>1. Len(readable_buf') >= Len(readable_buf)
    <3>1. Len(readable_buf) \in Nat
      BY InvParts DEF Buffers
    <3> QED BY <1>8, <1>9, <3>1 DEF Store, ldisc
  <2>2. can_read_now(readable_buf, termios) => can_read_now(readable_buf', termios)
    BY <1>10, <2>1, CanReadGrows, TermiosHasType, InvParts DEF Buffers
  <2> QED BY <1>1, <1>2, <2>2, InvParts DEF PollInv, PollThenRead
<1>14. TermiosInv' /\ HostInv' /\ promised' \in BOOLEAN
  BY <1>1, InvParts DEF TermiosInv, HostInv
<1> QED BY <1>10, <1>11, <1>12, <1>13, <1>14, InvParts

\* Both ways a turn of ppoll ends keep the mask and the call.
LEMMA TurnKeeps ==
  ASSUME TtyInv, phase = "poll", EndPoll \/ PollGoesOn, UNCHANGED <<want, out>>
  PROVE  SignalInv' /\ CallInv' /\ phase' # "read"
<1>1. SignalInv'
  <2>1. CASE EndPoll
    BY <2>1, InvParts DEF EndPoll, SignalInv, SInv
  <2>2. CASE PollGoesOn
    <3>1. left' \in Nat \cup {NoTimeout}
      BY <2>2, InvParts DEF PollGoesOn, SignalInv
    <3> QED BY <2>2, <3>1, InvParts DEF PollGoesOn, SignalInv, SInv
  <2> QED BY <2>1, <2>2
<1>2. CallInv' /\ phase' # "read"
  BY InvParts DEF EndPoll, PollGoesOn, CallInv
<1> QED BY <1>1, <1>2

\* A turn of ppoll: it fetches only when nothing can be read, so no promise is broken.
LEMMA PollScanStep == TtyInv /\ PollScan => TtyInv'
<1> SUFFICES ASSUME TtyInv, PollScan PROVE TtyInv'
  OBVIOUS
<1>1. phase = "poll" /\ UNCHANGED <<termios, want, out>>
  BY DEF PollScan
<1>2. EndPoll \/ PollGoesOn
  BY DEF PollScan
<1>3. SignalInv' /\ CallInv' /\ phase' # "read"
  BY <1>1, <1>2, TurnKeeps
<1>4. promised' = (promised \/ PollSeesInput)
  BY DEF PollScan
<1>5. \/ /\ ~can_read_now(readable_buf, termios)
         /\ \E input \in prism_stream_read : FeedFromHost(input)
      \/ UNCHANGED <<ldisc, host_in>>
  BY DEF PollScan, PollFetches
<1>6. Buffers' /\ HostInv' /\ TermiosInv'
  <2>1. CASE UNCHANGED <<ldisc, host_in>>
    BY <1>1, <2>1, QuietKeeps
  <2>2. CASE \E input \in prism_stream_read : FeedFromHost(input)
    BY <1>1, <2>2, FeedKeeps, TermiosHasType, InvParts DEF HostInv, TermiosInv
  <2> QED BY <1>5, <2>1, <2>2
<1>7. promised => can_read_now(readable_buf', termios)
  BY <1>5, InvParts DEF PollInv, PollThenRead, ldisc
<1>8. PollSeesInput => can_read_now(readable_buf', termios)
  BY DEF PollSeesInput
<1>9. PollInv'
  BY <1>1, <1>3, <1>4, <1>7, <1>8 DEF PollInv, PollThenRead
<1>10. promised' \in BOOLEAN
  BY <1>4
<1> QED BY <1>3, <1>6, <1>9, <1>10, InvParts

\* ppoll fails.
LEMMA PollFailsStep == TtyInv /\ PollFails => TtyInv'
<1> SUFFICES ASSUME TtyInv, PollFails PROVE TtyInv'
  OBVIOUS
<1>1. TermiosInv' /\ Buffers' /\ HostInv'
  BY QuietKeeps DEF PollFails
<1>2. SignalInv' /\ CallInv' /\ phase' # "read"
  BY TurnKeeps DEF PollFails
<1>3. PollInv' /\ promised' \in BOOLEAN
  BY <1>2, InvParts DEF PollFails, PollInv, PollThenRead, ldisc
<1> QED BY <1>1, <1>2, <1>3, InvParts

\* A step that changes nothing.
LEMMA TtyStutter == TtyInv /\ UNCHANGED vars => TtyInv'
<1> SUFFICES ASSUME TtyInv, UNCHANGED vars PROVE TtyInv'
  OBVIOUS
<1>1. TermiosInv' /\ Buffers' /\ HostInv'
  BY QuietKeeps DEF vars
<1>2. SignalInv'
  BY SignalsKeep DEF vars
<1>3. CallInv' /\ PollInv' /\ promised' \in BOOLEAN
  BY InvParts DEF vars, ldisc, CallInv, PollInv, PollThenRead
<1> QED BY <1>1, <1>2, <1>3, InvParts

(***************************************************************************)
(* The theorems                                                            *)
(***************************************************************************)
\* TtyInv is an invariant.
LEMMA TtyInvariant == Spec => []TtyInv
<1>1. TtyInv /\ [Next]_vars => TtyInv'
  BY TypeStep, SysReadStep, SysWriteStep, TcsetsStep, SysPpollStep, ReadChunkStep, ReadFetchesStep,
     ReadFailsStep, WriteChunkStep, PollScanStep, PollFailsStep, TtyStutter DEF Next, Dispatcher
<1> QED BY <1>1, TtyInit, PTL DEF Spec

\* The terminal's buffers hold bytes, a call has buffers left exactly while it is
\* under way, and no more keys are fed than were typed (feed_input, TtyDevice::read, do_ppoll).
THEOREM TtyTypeOK == Spec => []TypeOK
<1>1. TtyInv => TypeOK
  BY DEF TtyInv
<1> QED BY <1>1, TtyInvariant, PTL

\* In every run, after ppoll has reported input a read finds it without waiting
\* for the host, whatever is typed or written meanwhile (poll_readable, can_read_now).
THEOREM PollThenReads == Spec => []PollThenRead
<1>1. TtyInv => PollThenRead
  BY DEF TtyInv, PollInv
<1> QED BY <1>1, TtyInvariant, PTL

\* In every run ppoll's mask is in force only during ppoll: whichever way the
\* call ends, the process has its own mask back.
THEOREM MaskComesBack == Spec => []MaskRestored
<1>1. TtyInv => MaskRestored
  BY DEF TtyInv, SInv, MaskRestored
<1> QED BY <1>1, TtyInvariant, PTL

(***************************************************************************)
(* The keys of a history, and one more                                     *)
(***************************************************************************)
\* Least elements.
LEMMA MinOf ==
  ASSUME NEW T, T \subseteq Nat, T # {}
  PROVE  Min(T) \in T /\ \A k \in T : Min(T) <= k
  BY LeastNatural DEF Min

\* D is C, but for n + 1.
Next1(C, D, n) == D \subseteq 1..(n + 1) /\ \A i \in 1..n : i \in C <=> i \in D

\* Its members are those of C and, if it is one, n + 1.
LEMMA NextMember ==
  ASSUME NEW n \in Nat, NEW C \in SUBSET (1..n), NEW D, Next1(C, D, n)
  PROVE  \A j : j \in D <=> j \in C \/ (j = n + 1 /\ n + 1 \in D)
<1> TAKE j
<1>1. j \in 1..(n + 1) <=> j \in 1..n \/ j = n + 1
  OBVIOUS
<1> QED BY <1>1 DEF Next1

\* Counts that do not reach n + 1 are the same, and one that does goes up by n + 1.
LEMMA CountNext ==
  ASSUME NEW n \in Nat, NEW C \in SUBSET (1..n), NEW D, Next1(C, D, n), NEW i \in 1..n
  PROVE  /\ \A k \in i..n : Count(D, i, k) = Count(C, i, k) /\ Count(C, i, k) \in Nat
         /\ n + 1 \in D => Count(D, i, n + 1) = Count(C, i, n) + 1
         /\ n + 1 \notin D => Count(D, i, n + 1) = Count(C, i, n)
<1>0. D \subseteq 1..(n + 1) /\ \A j \in 1..n : j \in C <=> j \in D
  BY DEF Next1
<1>1. ASSUME NEW k \in i..n PROVE Count(D, i, k) = Count(C, i, k) /\ Count(C, i, k) \in Nat
  <2>1. D \cap (i..k) = C \cap (i..k)
    BY <1>0
  <2>2. IsFiniteSet(i..k)
    BY FS_Interval
  <2>3. IsFiniteSet(C \cap (i..k))
    BY <2>2, FS_Intersection
  <2>4. Cardinality(C \cap (i..k)) \in Nat
    BY <2>3, FS_CardinalityType
  <2> QED BY <2>1, <2>4 DEF Count
<1>2. CASE n + 1 \in D
  <2>1. D \cap (i..(n + 1)) = (C \cap (i..n)) \cup {n + 1}
    BY <1>0, <1>2
  <2>2. n + 1 \notin C \cap (i..n)
    OBVIOUS
  <2>3. IsFiniteSet(i..n)
    BY FS_Interval
  <2>4. IsFiniteSet(C \cap (i..n))
    BY <2>3, FS_Intersection
  <2>5. Cardinality((C \cap (i..n)) \cup {n + 1}) = Cardinality(C \cap (i..n)) + 1
    BY <2>2, <2>4, FS_AddElement
  <2> QED BY <1>1, <1>2, <2>1, <2>5 DEF Count
<1>3. CASE n + 1 \notin D
  <2>1. D \cap (i..(n + 1)) = C \cap (i..n)
    BY <1>0, <1>3
  <2> QED BY <1>1, <1>3, <2>1 DEF Count
<1> QED BY <1>1, <1>2, <1>3

\* The count of n + 1 alone.
LEMMA CountLast ==
  ASSUME NEW n \in Nat, NEW D
  PROVE  Count(D, n + 1, n + 1) = IF n + 1 \in D THEN 1 ELSE 0
<1>1. D \cap ((n + 1)..(n + 1)) = IF n + 1 \in D THEN {n + 1} ELSE {}
  OBVIOUS
<1> QED BY <1>1, FS_Singleton, FS_EmptySet DEF Count

\* Whether a later key of the line, up to n, takes a character back does not depend on n + 1.
LEMMA TakesBefore ==
  ASSUME NEW n \in Nat, NEW ch \in SUBSET (1..n), NEW er \in SUBSET (1..n),
         NEW en \in SUBSET (1..n),
         NEW ch2, NEW er2, NEW en2, Next1(ch, ch2, n), Next1(er, er2, n), Next1(en, en2, n),
         NEW i \in 1..n, NEW j \in 1..n
  PROVE  /\ SameLine(en2, i, j) <=> SameLine(en, i, j)
         /\ Takes(ch2, er2, en2, i, j) <=> Takes(ch, er, en, i, j)
<1>1. en2 \cap (i..(j - 1)) = en \cap (i..(j - 1))
  BY DEF Next1
<1>2. SameLine(en2, i, j) <=> SameLine(en, i, j)
  BY <1>1 DEF SameLine
<1>3. \A k \in i..n : Count(ch2, i, k) = Count(ch, i, k) /\ Count(er2, i, k) = Count(er, i, k)
  BY CountNext
<1>4. CASE i < j
  <2>1. j \in i..n /\ \A k \in i..(j - 1) : k \in i..n
    BY <1>4
  <2> QED BY <1>2, <1>3, <2>1 DEF Takes
<1>5. CASE ~(i < j)
  BY <1>5 DEF Takes, SameLine
<1> QED BY <1>2, <1>4, <1>5

\* A character is on the line of n + 1 if no line ended at it or after it.
LEMMA SameLineLast ==
  ASSUME NEW n \in Nat, NEW en \in SUBSET (1..n), NEW en2, Next1(en, en2, n), NEW i \in 1..n
  PROVE  SameLine(en2, i, n + 1) <=> \A e \in en : e < i
<1>1. en2 \cap (i..n) = en \cap (i..n)
  BY DEF Next1
<1>2. en \cap (i..n) = {} <=> \A e \in en : e < i
  OBVIOUS
<1>3. (n + 1) - 1 = n /\ i < n + 1
  OBVIOUS
<1> QED BY <1>1, <1>2, <1>3 DEF SameLine

\* What holds of the classes of keys of f and of those of g, which has one key more.
Longer(f, g, n) ==
  /\ Next1(Live(f), Live(g), n) /\ Next1(Cooked(f), Cooked(g), n) /\ Next1(Raw(f), Raw(g), n)
  /\ Next1(Erases(f), Erases(g), n) /\ Next1(Kills(f), Kills(g), n)
  /\ Next1(Ends(f), Ends(g), n) /\ Next1(Chars(f), Chars(g), n)
Within(f, n) ==
  /\ Live(f) \subseteq 1..n /\ Cooked(f) \subseteq 1..n /\ Raw(f) \subseteq 1..n
  /\ Erases(f) \subseteq 1..n /\ Kills(f) \subseteq 1..n
  /\ Ends(f) \subseteq 1..n /\ Chars(f) \subseteq 1..n

\* The classes are of places in the history, and apart from each other.
LEMMA ClassesWithin ==
  ASSUME NEW f, NEW n \in Nat, DOMAIN f = 1..n
  PROVE  Within(f, n)
<1>1. Live(f) \subseteq 1..n
  BY DEF Live
<1>2. Cooked(f) \subseteq Live(f) /\ Raw(f) \subseteq Live(f)
  BY DEF Cooked, Raw
<1>3. Erases(f) \subseteq Cooked(f) /\ Kills(f) \subseteq Cooked(f) /\ Text(f) \subseteq Cooked(f)
  BY DEF Erases, Kills, Text
<1>4. Ends(f) \subseteq Text(f) /\ Chars(f) \subseteq Text(f)
  BY DEF Ends, Chars
<1> QED BY <1>1, <1>2, <1>3, <1>4 DEF Within

\* The classes of earlier keys stay.
LEMMA ClassesStay ==
  ASSUME NEW f, NEW g, NEW n \in Nat, DOMAIN f = 1..n, DOMAIN g = 1..(n + 1),
         \A i \in 1..n : g[i] = f[i]
  PROVE  Longer(f, g, n) /\ \A i \in 1..n : Key(g, i) = Key(f, i)
<1>0. \A i \in 1..n : i > 1 => i - 1 \in 1..n
  OBVIOUS
<1>1. \A i \in 1..n : Key(g, i) = Key(f, i)
  BY DEF Key
<1>2. \A i \in 1..n : i \in Live(f) <=> i \in Live(g)
  BY <1>0 DEF Live
<1>3. \A i \in 1..n : i \in Cooked(f) <=> i \in Cooked(g)
  BY <1>2 DEF Cooked
<1>4. \A i \in 1..n : i \in Raw(f) <=> i \in Raw(g)
  BY <1>2, <1>3 DEF Raw
<1>5. \A i \in 1..n : i \in Erases(f) <=> i \in Erases(g)
  BY <1>1, <1>3 DEF Erases
<1>6. \A i \in 1..n : i \in Kills(f) <=> i \in Kills(g)
  BY <1>1, <1>3, <1>5 DEF Kills
<1>7. \A i \in 1..n : i \in Text(f) <=> i \in Text(g)
  BY <1>3, <1>5, <1>6 DEF Text
<1>8. \A i \in 1..n : (i \in Ends(f) <=> i \in Ends(g)) /\ (i \in Chars(f) <=> i \in Chars(g))
  BY <1>1, <1>7 DEF Ends, Chars
<1>9. Within(g, n + 1)
  BY ClassesWithin
<1> QED BY <1>1, <1>2, <1>3, <1>4, <1>5, <1>6, <1>8, <1>9 DEF Longer, Next1, Within

\* The characters of the unfinished line, those that can be read.
HeldOf(f) == Held(Kept(f), Ends(f))
ReleasedOf(f) == (Kept(f) \ HeldOf(f)) \cup Raw(f)

\* Kept, without its abbreviations.
LEMMA KeptIs ==
  ASSUME NEW f
  PROVE  Kept(f) = {i \in Chars(f) :
                      /\ ~\E j \in Erases(f) : Takes(Chars(f), Erases(f), Ends(f), i, j)
                      /\ ~\E k \in Kills(f) : SameLine(Ends(f), i, k)}
  BY DEF Kept

\* One more key takes back characters of its own line only, an erase or a kill,
\* and is kept if it is a character.
LEMMA KeptNext ==
  ASSUME NEW f, NEW g, NEW n \in Nat, DOMAIN f = 1..n, DOMAIN g = 1..(n + 1),
         \A i \in 1..n : g[i] = f[i]
  PROVE  /\ Kept(f) \subseteq 1..n /\ Kept(g) \subseteq 1..(n + 1)
         /\ n + 1 \in Kept(g) <=> n + 1 \in Chars(g)
         /\ \A i \in 1..n :
              i \in Kept(g) <=>
                /\ i \in Kept(f)
                /\ ~(n + 1 \in Erases(g) /\ Takes(Chars(g), Erases(g), Ends(g), i, n + 1))
                /\ ~(n + 1 \in Kills(g) /\ i \in HeldOf(f))
<1>1. Longer(f, g, n) /\ Within(f, n) /\ Within(g, n + 1)
  BY ClassesStay, ClassesWithin
<1>2. PICK ch, er, ki, en : ch = Chars(f) /\ er = Erases(f) /\ ki = Kills(f) /\ en = Ends(f)
  OBVIOUS
<1>3. PICK ch2, er2, ki2, en2 :
        ch2 = Chars(g) /\ er2 = Erases(g) /\ ki2 = Kills(g) /\ en2 = Ends(g)
  OBVIOUS
<1>4. /\ ch \in SUBSET (1..n) /\ er \in SUBSET (1..n) /\ en \in SUBSET (1..n) /\ ki \subseteq 1..n
      /\ ch2 \subseteq 1..(n + 1) /\ er2 \subseteq 1..(n + 1) /\ ki2 \subseteq 1..(n + 1)
      /\ Next1(ch, ch2, n) /\ Next1(er, er2, n) /\ Next1(en, en2, n) /\ Next1(ki, ki2, n)
  BY <1>1, <1>2, <1>3 DEF Longer, Within
<1>5. /\ Kept(f) = {i \in ch : /\ ~\E j \in er : Takes(ch, er, en, i, j)
                               /\ ~\E k \in ki : SameLine(en, i, k)}
      /\ Kept(g) = {i \in ch2 : /\ ~\E j \in er2 : Takes(ch2, er2, en2, i, j)
                                /\ ~\E k \in ki2 : SameLine(en2, i, k)}
  BY <1>2, <1>3, KeptIs
<1>6. Kept(f) \subseteq 1..n /\ Kept(g) \subseteq 1..(n + 1)
  BY <1>4, <1>5
<1>7. n + 1 \in Kept(g) <=> n + 1 \in ch2
  <2>1. \A j \in 1..(n + 1) : ~SameLine(en2, n + 1, j)
    BY DEF SameLine
  <2>2. \A j \in 1..(n + 1) : ~Takes(ch2, er2, en2, n + 1, j)
    BY <2>1 DEF Takes
  <2> QED BY <1>4, <1>5, <2>1, <2>2
<1>8. ASSUME NEW i \in 1..n
      PROVE  i \in Kept(g) <=> /\ i \in Kept(f)
                               /\ ~(n + 1 \in er2 /\ Takes(ch2, er2, en2, i, n + 1))
                               /\ ~(n + 1 \in ki2 /\ i \in HeldOf(f))
  <2>1. \A j \in 1..n : /\ SameLine(en2, i, j) <=> SameLine(en, i, j)
                        /\ Takes(ch2, er2, en2, i, j) <=> Takes(ch, er, en, i, j)
    BY <1>4, TakesBefore
  <2>2. SameLine(en2, i, n + 1) <=> \A e \in en : e < i
    BY <1>4, SameLineLast
  <2>3. i \in Kept(f) => (i \in HeldOf(f) <=> SameLine(en2, i, n + 1))
    BY <1>2, <2>2 DEF HeldOf, Held
  <2>4. /\ \A j : j \in er2 <=> j \in er \/ (j = n + 1 /\ n + 1 \in er2)
        /\ \A j : j \in ki2 <=> j \in ki \/ (j = n + 1 /\ n + 1 \in ki2)
    BY <1>4, NextMember
  <2>5. i \in ch2 <=> i \in ch
    BY <1>4 DEF Next1
  <2>6. (\E j \in er2 : Takes(ch2, er2, en2, i, j)) <=>
          \/ \E j \in er : Takes(ch, er, en, i, j)
          \/ n + 1 \in er2 /\ Takes(ch2, er2, en2, i, n + 1)
    BY <1>4, <2>1, <2>4
  <2>7. (\E k \in ki2 : SameLine(en2, i, k)) <=>
          (\E k \in ki : SameLine(en, i, k)) \/ (n + 1 \in ki2 /\ SameLine(en2, i, n + 1))
    BY <1>4, <2>1, <2>4
  <2> QED BY <1>5, <2>3, <2>5, <2>6, <2>7
<1> QED BY <1>3, <1>6, <1>7, <1>8

(***************************************************************************)
(* What one more key does to the characters kept, held and released        *)
(***************************************************************************)
\* g is f and one more key.
OneMore(f, g, n) == DOMAIN f = 1..n /\ DOMAIN g = 1..(n + 1) /\ \A i \in 1..n : g[i] = f[i]

\* What is used below of the classes of f and g.
LEMMA Classes ==
  ASSUME NEW f, NEW g, NEW n \in Nat, OneMore(f, g, n)
  PROVE  /\ Kept(f) \subseteq 1..n /\ HeldOf(f) \subseteq Kept(f) /\ Kept(f) \cap Raw(f) = {}
         /\ Raw(f) \subseteq 1..n /\ Ends(f) \subseteq 1..n /\ ReleasedOf(f) \subseteq 1..n
         /\ Kept(g) \subseteq 1..(n + 1) /\ Kept(g) \cap Raw(g) = {}
         /\ Ends(g) \subseteq 1..(n + 1) /\ Raw(g) \subseteq 1..(n + 1)
         /\ \A i \in 1..n : (i \in Ends(f) <=> i \in Ends(g)) /\ (i \in Raw(f) <=> i \in Raw(g))
         /\ n + 1 \in Raw(g) => n + 1 \notin Chars(g) \cup Ends(g) \cup Erases(g) \cup Kills(g)
         /\ n + 1 \in Ends(g) => n + 1 \notin Erases(g) \cup Kills(g)
         /\ n + 1 \in Chars(g) => n + 1 \notin Erases(g) \cup Kills(g)
         /\ n + 1 \in Erases(g) => n + 1 \notin Kills(g)
<1>1. Longer(f, g, n) /\ Within(f, n) /\ Within(g, n + 1)
  BY ClassesStay, ClassesWithin DEF OneMore
<1>2. Kept(f) \subseteq 1..n /\ Kept(g) \subseteq 1..(n + 1)
  BY KeptNext DEF OneMore
<1>3. \A h : Kept(h) \subseteq Chars(h) /\ Chars(h) \subseteq Text(h) /\ Ends(h) \subseteq Text(h)
  BY KeptIs DEF Chars, Ends
<1>4. \A h : /\ Text(h) \subseteq Cooked(h) /\ Text(h) \cap (Erases(h) \cup Kills(h)) = {}
             /\ Erases(h) \subseteq Cooked(h) /\ Kills(h) \subseteq Cooked(h) \ Erases(h)
  BY DEF Text, Erases, Kills
<1>5. \A h : Raw(h) \cap Cooked(h) = {}
  BY DEF Raw
<1>6. HeldOf(f) \subseteq Kept(f)
  BY DEF HeldOf, Held
<1>7. Kept(f) \cap Raw(f) = {} /\ Kept(g) \cap Raw(g) = {}
  BY <1>3, <1>4, <1>5
<1>8. /\ Raw(f) \subseteq 1..n /\ Ends(f) \subseteq 1..n
      /\ Ends(g) \subseteq 1..(n + 1) /\ Raw(g) \subseteq 1..(n + 1)
      /\ \A i \in 1..n : (i \in Ends(f) <=> i \in Ends(g)) /\ (i \in Raw(f) <=> i \in Raw(g))
  BY <1>1 DEF Within, Longer, Next1
<1>9. ReleasedOf(f) \subseteq 1..n
  BY <1>2, <1>8 DEF ReleasedOf
<1>10. /\ n + 1 \in Raw(g) => n + 1 \notin Chars(g) \cup Ends(g) \cup Erases(g) \cup Kills(g)
       /\ n + 1 \in Ends(g) => n + 1 \notin Erases(g) \cup Kills(g)
       /\ n + 1 \in Chars(g) => n + 1 \notin Erases(g) \cup Kills(g)
       /\ n + 1 \in Erases(g) => n + 1 \notin Kills(g)
  BY <1>3, <1>4, <1>5
<1> QED BY <1>2, <1>6, <1>7, <1>8, <1>9, <1>10

\* A class without n + 1 is the same.
LEMMA NextSame ==
  ASSUME NEW n \in Nat, NEW C, C \subseteq 1..n, NEW D, D \subseteq 1..(n + 1), n + 1 \notin D,
         \A i \in 1..n : i \in C <=> i \in D
  PROVE  D = C
<1>1. \A i : i \in 1..(n + 1) <=> i \in 1..n \/ i = n + 1
  OBVIOUS
<1> QED BY <1>1

\* A key that neither edits nor ends the line: a character of the line, a byte
\* in raw mode, or a key that does not count.
LEMMA PlainKey ==
  ASSUME NEW f, NEW g, NEW n \in Nat, OneMore(f, g, n),
         n + 1 \notin Ends(g), n + 1 \notin Erases(g), n + 1 \notin Kills(g)
  PROVE  /\ n + 1 \in Chars(g) => HeldOf(g) = HeldOf(f) \cup {n + 1}
         /\ n + 1 \notin Chars(g) => HeldOf(g) = HeldOf(f)
         /\ n + 1 \in Raw(g) => ReleasedOf(g) = ReleasedOf(f) \cup {n + 1}
         /\ n + 1 \notin Raw(g) => ReleasedOf(g) = ReleasedOf(f)
<1>1. \A i \in 1..n : i \in Kept(g) <=> i \in Kept(f)
  BY KeptNext DEF OneMore
<1>2. n + 1 \in Kept(g) <=> n + 1 \in Chars(g)
  BY KeptNext DEF OneMore
<1>3. Ends(g) = Ends(f)
  <2>1. /\ Ends(f) \subseteq 1..n /\ Ends(g) \subseteq 1..(n + 1)
        /\ \A i \in 1..n : i \in Ends(f) <=> i \in Ends(g)
    BY Classes
  <2> QED BY <2>1, NextSame
<1>4. /\ Kept(f) \subseteq 1..n /\ Kept(g) \subseteq 1..(n + 1) /\ Raw(f) \subseteq 1..n
      /\ Raw(g) \subseteq 1..(n + 1) /\ \A i \in 1..n : i \in Raw(f) <=> i \in Raw(g)
      /\ Ends(f) \subseteq 1..n
  BY Classes
<1>5. HeldOf(f) = {i \in Kept(f) : \A e \in Ends(f) : e < i}
      /\ HeldOf(g) = {i \in Kept(g) : \A e \in Ends(f) : e < i}
  BY <1>3 DEF HeldOf, Held
<1>6. \A e \in Ends(f) : e < n + 1
  BY <1>4
<1>7. \A i \in 1..n : i \in HeldOf(g) <=> i \in HeldOf(f)
  BY <1>1, <1>5
<1>8. n + 1 \in HeldOf(g) <=> n + 1 \in Chars(g)
  BY <1>2, <1>5, <1>6
<1>9. HeldOf(f) \subseteq 1..n /\ HeldOf(g) \subseteq 1..(n + 1)
  BY <1>4, <1>5
<1>10. \A i : i \in 1..(n + 1) <=> i \in 1..n \/ i = n + 1
  OBVIOUS
<1>11. /\ n + 1 \in Chars(g) => HeldOf(g) = HeldOf(f) \cup {n + 1}
       /\ n + 1 \notin Chars(g) => HeldOf(g) = HeldOf(f)
  BY <1>7, <1>8, <1>9, <1>10
<1>12. \A i \in 1..n : i \in ReleasedOf(g) <=> i \in ReleasedOf(f)
  BY <1>1, <1>4, <1>7 DEF ReleasedOf
<1>13. n + 1 \in ReleasedOf(g) <=> n + 1 \in Raw(g)
  BY <1>2, <1>8 DEF ReleasedOf
<1>14. ReleasedOf(f) \subseteq 1..n /\ ReleasedOf(g) \subseteq 1..(n + 1)
  BY <1>4 DEF ReleasedOf
<1>15. /\ n + 1 \in Raw(g) => ReleasedOf(g) = ReleasedOf(f) \cup {n + 1}
       /\ n + 1 \notin Raw(g) => ReleasedOf(g) = ReleasedOf(f)
  BY <1>10, <1>12, <1>13, <1>14
<1> QED BY <1>11, <1>15

\* The end of a line releases it.
LEMMA EndKey ==
  ASSUME NEW f, NEW g, NEW n \in Nat, OneMore(f, g, n), n + 1 \in Ends(g)
  PROVE  /\ HeldOf(g) = {}
         /\ ReleasedOf(g) = ReleasedOf(f) \cup HeldOf(f)
                              \cup (IF n + 1 \in Chars(g) THEN {n + 1} ELSE {})
<1>0. n + 1 \notin Raw(g) /\ n + 1 \notin Erases(g) /\ n + 1 \notin Kills(g)
  BY Classes
<1>1. \A i \in 1..n : i \in Kept(g) <=> i \in Kept(f)
  BY <1>0, KeptNext DEF OneMore
<1>2. n + 1 \in Kept(g) <=> n + 1 \in Chars(g)
  BY KeptNext DEF OneMore
<1>3. /\ Kept(f) \subseteq 1..n /\ Kept(g) \subseteq 1..(n + 1) /\ Raw(f) \subseteq 1..n
      /\ Raw(g) \subseteq 1..(n + 1) /\ \A i \in 1..n : i \in Raw(f) <=> i \in Raw(g)
      /\ HeldOf(f) \subseteq Kept(f)
  BY Classes
<1>4. HeldOf(g) = {}
  <2>1. \A i \in 1..(n + 1) : ~(n + 1 < i)
    OBVIOUS
  <2> QED BY <1>3, <2>1 DEF HeldOf, Held
<1>5. \A i : i \in 1..(n + 1) <=> i \in 1..n \/ i = n + 1
  OBVIOUS
<1>6. \A i \in 1..n : i \in ReleasedOf(g) <=> i \in ReleasedOf(f) \cup HeldOf(f)
  BY <1>1, <1>3, <1>4 DEF ReleasedOf
<1>7. n + 1 \in ReleasedOf(g) <=> n + 1 \in Chars(g)
  BY <1>0, <1>2, <1>4 DEF ReleasedOf
<1>8. ReleasedOf(f) \cup HeldOf(f) \subseteq 1..n /\ ReleasedOf(g) \subseteq 1..(n + 1)
  BY <1>3 DEF ReleasedOf
<1> QED BY <1>4, <1>5, <1>6, <1>7, <1>8

\* A kill or an erase takes characters of the unfinished line and releases none.
LEMMA EditKey ==
  ASSUME NEW f, NEW g, NEW n \in Nat, OneMore(f, g, n), n + 1 \in Erases(g) \cup Kills(g)
  PROVE  /\ n + 1 \in Kills(g) => HeldOf(g) = {}
         /\ n + 1 \in Erases(g) =>
              HeldOf(g) = {i \in HeldOf(f) : ~Takes(Chars(g), Erases(g), Ends(g), i, n + 1)}
         /\ ReleasedOf(g) = ReleasedOf(f)
<1>0. /\ n + 1 \notin Raw(g) /\ n + 1 \notin Ends(g) /\ n + 1 \notin Chars(g)
      /\ n + 1 \in Erases(g) => n + 1 \notin Kills(g)
  BY Classes
<1>1. Ends(g) = Ends(f) /\ Raw(g) = Raw(f)
  <2>1. /\ Ends(f) \subseteq 1..n /\ Ends(g) \subseteq 1..(n + 1)
        /\ Raw(f) \subseteq 1..n /\ Raw(g) \subseteq 1..(n + 1)
        /\ \A i \in 1..n : (i \in Ends(f) <=> i \in Ends(g)) /\ (i \in Raw(f) <=> i \in Raw(g))
    BY Classes
  <2>2. Ends(g) = Ends(f)
    BY <1>0, <2>1, NextSame
  <2>3. Raw(g) = Raw(f)
    BY <1>0, <2>1, NextSame
  <2> QED BY <2>2, <2>3
<1>2. /\ Kept(f) \subseteq 1..n /\ Kept(g) \subseteq 1..(n + 1) /\ HeldOf(f) \subseteq Kept(f)
      /\ Ends(f) \subseteq 1..n
  BY Classes
<1>3. n + 1 \notin Kept(g)
  BY <1>0, KeptNext DEF OneMore
<1>4. Kept(g) \subseteq 1..n
  BY <1>2, <1>3
<1>5. HeldOf(f) = {i \in Kept(f) : \A e \in Ends(f) : e < i}
      /\ HeldOf(g) = {i \in Kept(g) : \A e \in Ends(f) : e < i}
  BY <1>1 DEF HeldOf, Held
<1>6. ASSUME NEW i \in Kept(f), Takes(Chars(g), Erases(g), Ends(g), i, n + 1)
      PROVE  i \in HeldOf(f)
  <2>1. SameLine(Ends(g), i, n + 1) /\ i \in 1..n
    BY <1>2, <1>6 DEF Takes
  <2>2. Next1(Ends(f), Ends(g), n)
    BY <1>1, <1>2 DEF Next1
  <2>3. \A e \in Ends(f) : e < i
    BY <1>2, <2>1, <2>2, SameLineLast
  <2> QED BY <1>5, <2>3
<1>7. \A i \in 1..n :
        i \in Kept(g) <=>
          /\ i \in Kept(f)
          /\ ~(n + 1 \in Erases(g) /\ Takes(Chars(g), Erases(g), Ends(g), i, n + 1))
          /\ ~(n + 1 \in Kills(g) /\ i \in HeldOf(f))
  BY KeptNext DEF OneMore
<1>8. Kept(g) \ HeldOf(g) = Kept(f) \ HeldOf(f)
  <2>1. \A i \in 1..n : i \in Kept(g) /\ i \notin HeldOf(g) <=> i \in Kept(f) /\ i \notin HeldOf(f)
    BY <1>5, <1>6, <1>7
  <2> QED BY <1>2, <1>4, <2>1
<1>9. ReleasedOf(g) = ReleasedOf(f)
  BY <1>1, <1>8 DEF ReleasedOf
<1>10. CASE n + 1 \in Kills(g)
  <2>1. HeldOf(g) = {}
    BY <1>2, <1>4, <1>5, <1>7, <1>10
  <2> QED BY <1>0, <1>9, <1>10, <2>1
<1>11. CASE n + 1 \in Erases(g)
  <2>1. \A i \in 1..n : i \in HeldOf(g) <=>
                          i \in HeldOf(f) /\ ~Takes(Chars(g), Erases(g), Ends(g), i, n + 1)
    BY <1>0, <1>5, <1>7, <1>11
  <2>2. HeldOf(g) \subseteq 1..n /\ HeldOf(f) \subseteq 1..n
    BY <1>2, <1>4, <1>5
  <2> QED BY <1>0, <1>9, <1>11, <2>1, <2>2
<1> QED BY <1>10, <1>11

\* When a byte can be read does not change, and what the end of a line releases
\* can be read from then on.
LEMMA ReleaseNext ==
  ASSUME NEW f, NEW g, NEW n \in Nat, OneMore(f, g, n)
  PROVE  /\ \A i \in ReleasedOf(f) :
              /\ Release(Raw(g), Ends(g), i) = Release(Raw(f), Ends(f), i)
              /\ Release(Raw(f), Ends(f), i) \in 1..n
         /\ n + 1 \in Ends(g) =>
              \A i \in HeldOf(f) \cup {n + 1} : Release(Raw(g), Ends(g), i) = n + 1
         /\ n + 1 \in Raw(g) => Release(Raw(g), Ends(g), n + 1) = n + 1
<1>0. /\ Kept(f) \subseteq 1..n /\ HeldOf(f) \subseteq Kept(f) /\ Kept(f) \cap Raw(f) = {}
      /\ Raw(f) \subseteq 1..n /\ Ends(f) \subseteq 1..n /\ Ends(g) \subseteq 1..(n + 1)
      /\ \A i \in 1..n : (i \in Ends(f) <=> i \in Ends(g)) /\ (i \in Raw(f) <=> i \in Raw(g))
      /\ n + 1 \in Ends(g) => n + 1 \notin Raw(g)
  BY Classes
<1>1. ASSUME NEW i \in ReleasedOf(f)
      PROVE  /\ Release(Raw(g), Ends(g), i) = Release(Raw(f), Ends(f), i)
             /\ Release(Raw(f), Ends(f), i) \in 1..n
  <2>1. CASE i \in Raw(f)
    BY <1>0, <2>1 DEF Release
  <2>2. CASE i \notin Raw(f)
    <3>1. i \in Kept(f) /\ i \notin HeldOf(f) /\ i \in 1..n /\ i \notin Raw(g)
      BY <1>0, <2>2 DEF ReleasedOf
    <3>2. PICK e \in Ends(f) : ~(e < i)
      BY <3>1 DEF HeldOf, Held
    <3>3. PICK S, T : S = {d \in Ends(f) : d >= i} /\ T = {d \in Ends(g) : d >= i}
      OBVIOUS
    <3>4. S \subseteq Nat /\ S # {} /\ T \subseteq Nat /\ T # {} /\ S \subseteq T
          /\ S \subseteq 1..n /\ \A d \in T : d \in S \/ d = n + 1
      <4>1. e \in S /\ S \subseteq 1..n
        BY <1>0, <3>1, <3>2, <3>3
      <4>2. S \subseteq T
        BY <1>0, <3>3
      <4>3. \A d \in T : d \in S \/ d = n + 1
        BY <1>0, <3>3
      <4> QED BY <4>1, <4>2, <4>3
    <3>5. Min(S) \in S /\ \A d \in S : Min(S) <= d
      BY <3>4, MinOf
    <3>6. Min(T) \in T /\ \A d \in T : Min(T) <= d
      BY <3>4, MinOf
    <3>7. Min(S) = Min(T)
      <4>1. PICK s, t : s = Min(S) /\ t = Min(T)
        OBVIOUS
      <4>2. s \in 1..n /\ t \in Nat /\ t <= s /\ (t \in S => s <= t) /\ (t \in S \/ t = n + 1)
        BY <3>4, <3>5, <3>6, <4>1
      <4> QED BY <4>1, <4>2
    <3> QED BY <2>2, <3>1, <3>3, <3>4, <3>5, <3>7 DEF Release
  <2> QED BY <2>1, <2>2
<1>2. ASSUME n + 1 \in Ends(g), NEW i \in HeldOf(f) \cup {n + 1}
      PROVE  Release(Raw(g), Ends(g), i) = n + 1
  <2>1. i \notin Raw(g) /\ i \in 1..(n + 1)
    BY <1>0, <1>2
  <2>2. \A e \in Ends(f) : ~(e >= i)
    <3>1. CASE i \in HeldOf(f)
      <4>1. \A e \in Ends(f) : e < i
        BY <3>1 DEF HeldOf, Held
      <4> QED BY <1>0, <2>1, <4>1
    <3>2. CASE i = n + 1
      BY <1>0, <3>2
    <3> QED BY <3>1, <3>2
  <2>3. {e \in Ends(g) : e >= i} = {n + 1}
    BY <1>0, <1>2, <2>1, <2>2
  <2>4. Min({n + 1}) = n + 1
    BY MinOf
  <2> QED BY <2>1, <2>3, <2>4 DEF Release
<1>3. n + 1 \in Raw(g) => Release(Raw(g), Ends(g), n + 1) = n + 1
  BY DEF Release
<1> QED BY <1>1, <1>2, <1>3

(***************************************************************************)
(* Bytes spelled by keys                                                   *)
(***************************************************************************)
\* The bytes are the keys of S in order: p says which byte is which key.
Spelt(f, bytes, S, p) ==
  /\ p \in [DOMAIN bytes -> S]
  /\ Spells(f, bytes, DOMAIN bytes, S, p) /\ InLine(DOMAIN bytes, p)

\* q and p agree on the first L bytes.
Agree(q, p, L) == \A m \in 1..L : q[m] = p[m]
Pushed(q, p, L, i) == Agree(q, p, L) /\ q[L + 1] = i

\* No bytes spell no keys.
LEMMA SpeltNone ==
  ASSUME NEW f
  PROVE  \E p : Spelt(f, <<>>, {}, p)
<1> DEFINE p == [a \in {} |-> a]
<1>1. DOMAIN <<>> = {}
  OBVIOUS
<1>2. Spelt(f, <<>>, {}, p)
  BY <1>1 DEF Spelt, Spells, InLine
<1> QED BY <1>2

\* One more key changes nothing about the earlier ones.
LEMMA SpeltStays ==
  ASSUME NEW f, NEW g, NEW n \in Nat, OneMore(f, g, n), NEW S, S \subseteq 1..n,
         NEW bytes, NEW p, Spelt(f, bytes, S, p)
  PROVE  Spelt(g, bytes, S, p)
<1>1. \A i \in 1..n : Key(g, i) = Key(f, i)
  BY ClassesStay DEF OneMore
<1>2. \A a \in DOMAIN bytes : p[a] \in 1..n /\ bytes[a] = Key(f, p[a])
  BY DEF Spelt, Spells
<1>3. \A a \in DOMAIN bytes : bytes[a] = Key(g, p[a])
  BY <1>1, <1>2
<1> QED BY <1>3 DEF Spelt, Spells

\* It can be added at the end.
LEMMA SpeltPush ==
  ASSUME NEW f, NEW g, NEW n \in Nat, OneMore(f, g, n), NEW S, S \subseteq 1..n,
         NEW bytes \in Seq(Byte), NEW p, Spelt(f, bytes, S, p)
  PROVE  \E q : /\ Spelt(g, Append(bytes, Key(g, n + 1)), S \cup {n + 1}, q)
                /\ Pushed(q, p, Len(bytes), n + 1)
<1> DEFINE L == Len(bytes)
           more == Append(bytes, Key(g, n + 1))
           q == [m \in 1..(L + 1) |-> IF m = L + 1 THEN n + 1 ELSE p[m]]
<1>1. /\ L \in Nat /\ DOMAIN bytes = 1..L /\ DOMAIN more = 1..(L + 1)
      /\ \A m \in 1..L : more[m] = bytes[m]
      /\ more[L + 1] = Key(g, n + 1)
  OBVIOUS
<1>2. Spelt(g, bytes, S, p)
  BY SpeltStays
<1> HIDE DEF L, more
<1>3. \A m \in 1..L : p[m] \in S /\ p[m] \in 1..n /\ bytes[m] = Key(g, p[m])
  BY <1>1, <1>2 DEF Spelt, Spells
<1>4. \A i \in S : \E m \in 1..L : p[m] = i
  BY <1>1, <1>2 DEF Spelt, Spells
<1>5. \A a, b \in 1..L : a < b => p[a] < p[b]
  BY <1>1, <1>2 DEF Spelt, InLine
<1>6. \A m : m \in 1..(L + 1) <=> m \in 1..L \/ m = L + 1
  BY <1>1
<1>7. (\A m \in 1..L : q[m] = p[m]) /\ q[L + 1] = n + 1
  BY <1>1
<1>8. q \in [1..(L + 1) -> S \cup {n + 1}]
  BY <1>3, <1>6
<1> HIDE DEF q
<1>9. \A a \in 1..(L + 1) : more[a] = Key(g, q[a])
  BY <1>1, <1>3, <1>6, <1>7
<1>10. \A i \in S \cup {n + 1} : \E a \in 1..(L + 1) : q[a] = i
  BY <1>4, <1>6, <1>7
<1>11. ASSUME NEW a \in 1..(L + 1), NEW b \in 1..(L + 1), a < b PROVE q[a] < q[b]
  <2>1. a \in 1..L
    BY <1>1, <1>11
  <2>2. CASE b \in 1..L
    BY <1>5, <1>7, <1>11, <2>1, <2>2
  <2>3. CASE b = L + 1
    BY <1>3, <1>7, <2>1, <2>3
  <2> QED BY <1>6, <2>2, <2>3
<1>12. Spelt(g, more, S \cup {n + 1}, q)
  BY <1>1, <1>8, <1>9, <1>10, <1>11 DEF Spelt, Spells, InLine
<1> QED BY <1>7, <1>12 DEF Pushed, Agree, L, more

\* The last one can be dropped.
LEMMA SpeltPop ==
  ASSUME NEW f, NEW g, NEW n \in Nat, OneMore(f, g, n), NEW S, S \subseteq 1..n,
         NEW bytes \in Seq(Byte), bytes # <<>>, NEW p, Spelt(f, bytes, S, p)
  PROVE  \E q : /\ Spelt(g, Front(bytes), S \ {p[Len(bytes)]}, q)
                /\ Agree(q, p, Len(bytes) - 1)
<1> DEFINE L == Len(bytes)
           less == Front(bytes)
           q == [m \in 1..(L - 1) |-> p[m]]
<1>1. /\ L \in Nat /\ L > 0 /\ DOMAIN bytes = 1..L /\ DOMAIN less = 1..(L - 1)
      /\ \A m \in 1..(L - 1) : less[m] = bytes[m]
  BY DEF Front
<1>2. Spelt(g, bytes, S, p)
  BY SpeltStays
<1> HIDE DEF L, less
<1>3. \A m \in 1..L : p[m] \in S /\ p[m] \in 1..n /\ bytes[m] = Key(g, p[m])
  BY <1>1, <1>2 DEF Spelt, Spells
<1>4. \A i \in S : \E m \in 1..L : p[m] = i
  BY <1>1, <1>2 DEF Spelt, Spells
<1>5. \A a, b \in 1..L : a < b => p[a] < p[b]
  BY <1>1, <1>2 DEF Spelt, InLine
<1>6. \A m : m \in 1..L <=> m \in 1..(L - 1) \/ m = L
  BY <1>1
<1>7. \A m \in 1..(L - 1) : p[m] # p[L] /\ m \in 1..L
  <2>1. ASSUME NEW m \in 1..(L - 1) PROVE p[m] # p[L] /\ m \in 1..L
    <3>1. m \in 1..L /\ L \in 1..L /\ m < L
      BY <1>1
    <3>2. p[m] < p[L] /\ p[m] \in 1..n /\ p[L] \in 1..n
      BY <1>3, <1>5, <3>1
    <3> QED BY <3>1, <3>2
  <2> QED BY <2>1
<1>8. q \in [1..(L - 1) -> S \ {p[L]}]
  BY <1>3, <1>7
<1>9. \A m \in 1..(L - 1) : q[m] = p[m]
  OBVIOUS
<1> HIDE DEF q
<1>10. \A a \in 1..(L - 1) : less[a] = Key(g, q[a])
  BY <1>1, <1>3, <1>7, <1>9
<1>11. \A i \in S \ {p[L]} : \E a \in 1..(L - 1) : q[a] = i
  BY <1>4, <1>6, <1>9
<1>12. \A a, b \in 1..(L - 1) : a < b => q[a] < q[b]
  BY <1>5, <1>7, <1>9
<1>13. Spelt(g, less, S \ {p[L]}, q)
  BY <1>1, <1>8, <1>10, <1>11, <1>12 DEF Spelt, Spells, InLine
<1> QED BY <1>9, <1>13 DEF Agree, L, less

(***************************************************************************)
(* What was given out, and the line                                        *)
(***************************************************************************)
\* What the typed bytes given out have to be: o says which byte is which key.
GivenOK(f, given, o) ==
  /\ o \in [TypedAt(given) -> ReleasedOf(f)]
  /\ Spells(f, given, TypedAt(given), ReleasedOf(f), o)
  /\ InTime(Raw(f), Ends(f), TypedAt(given), o)

\* No typed byte is a reply.
LEMMA NoReply == ReplyByte \notin Byte
  BY BoundAssumption DEF Byte, Special, ReplyByte

\* The bytes that one more key releases come after the ones given out before.
LEMMA GivenGrows ==
  ASSUME NEW f, NEW g, NEW n \in Nat, OneMore(f, g, n),
         NEW given \in Seq(Byte \cup {ReplyByte}), NEW o, GivenOK(f, given, o),
         NEW add \in Seq(Byte), NEW S, NEW q, Spelt(g, add, S, q),
         ReleasedOf(g) = ReleasedOf(f) \cup S,
         \A i \in S : Release(Raw(g), Ends(g), i) = n + 1
  PROVE  \E w : GivenOK(g, given \o add, w)
<1> DEFINE G == Len(given)
           A == Len(add)
           all == given \o add
           w == [a \in TypedAt(all) |-> IF a <= G THEN o[a] ELSE q[a - G]]
           Rel(i) == Release(Raw(g), Ends(g), i)
<1>1. /\ G \in Nat /\ A \in Nat /\ DOMAIN given = 1..G /\ DOMAIN add = 1..A
      /\ DOMAIN all = 1..(G + A)
  OBVIOUS
<1>2. \A a \in 1..G : all[a] = given[a]
  OBVIOUS
<1>3. \A a \in (G + 1)..(G + A) : a - G \in 1..A /\ all[a] = add[a - G]
  BY <1>1
<1>4. \A m \in 1..A : add[m] \in Byte
  OBVIOUS
<1> HIDE DEF G, A, all
<1>5. \A a : a \in 1..(G + A) <=> a \in 1..G \/ a \in (G + 1)..(G + A)
  BY <1>1
<1>6. \A a : a \in TypedAt(all) <=> a \in TypedAt(given) \/ a \in (G + 1)..(G + A)
  <2>1. \A a \in (G + 1)..(G + A) : all[a] # ReplyByte
    BY <1>3, <1>4, NoReply
  <2> QED BY <1>1, <1>2, <1>5, <2>1 DEF TypedAt
<1>7. TypedAt(given) \subseteq 1..G
  BY <1>1 DEF TypedAt
<1>8. /\ \A a \in TypedAt(given) : w[a] = o[a]
      /\ \A a \in (G + 1)..(G + A) : w[a] = q[a - G]
  BY <1>1, <1>6, <1>7
<1>9. DOMAIN w = TypedAt(all) /\ w = [a \in TypedAt(all) |-> w[a]]
  OBVIOUS
<1> HIDE DEF w
<1>10. \A i \in 1..n : Key(g, i) = Key(f, i)
  BY ClassesStay DEF OneMore
<1>11. ReleasedOf(f) \subseteq 1..n
  BY Classes
<1>12. \A i \in ReleasedOf(f) : Rel(i) = Release(Raw(f), Ends(f), i) /\ Rel(i) \in 1..n
  BY ReleaseNext
<1>13. \A i \in S : Rel(i) = n + 1
  OBVIOUS
<1> HIDE DEF Rel
<1>14. /\ \A a \in TypedAt(given) : o[a] \in ReleasedOf(f) /\ given[a] = Key(f, o[a])
       /\ \A i \in ReleasedOf(f) : \E a \in TypedAt(given) : o[a] = i
  BY DEF GivenOK, Spells
<1>15. /\ \A m \in 1..A : q[m] \in S /\ add[m] = Key(g, q[m])
       /\ \A i \in S : \E m \in 1..A : q[m] = i
       /\ \A a, b \in 1..A : a < b => q[a] < q[b]
  BY <1>1 DEF Spelt, Spells, InLine
<1>16. w \in [TypedAt(all) -> ReleasedOf(g)]
  <2>1. \A a \in TypedAt(all) : w[a] \in ReleasedOf(g)
    BY <1>3, <1>6, <1>8, <1>14, <1>15
  <2> QED BY <1>9, <2>1
<1>17. \A a \in TypedAt(all) : all[a] = Key(g, w[a])
  <2>1. ASSUME NEW a \in TypedAt(given) PROVE all[a] = Key(g, w[a])
    BY <1>2, <1>7, <1>8, <1>10, <1>11, <1>14
  <2>2. ASSUME NEW a \in (G + 1)..(G + A) PROVE all[a] = Key(g, w[a])
    BY <1>3, <1>8, <1>15
  <2> QED BY <1>6, <2>1, <2>2
<1>18. \A i \in ReleasedOf(g) : \E a \in TypedAt(all) : w[a] = i
  <2>1. ASSUME NEW i \in ReleasedOf(f) PROVE \E a \in TypedAt(all) : w[a] = i
    BY <1>6, <1>8, <1>14
  <2>2. ASSUME NEW i \in S PROVE \E a \in TypedAt(all) : w[a] = i
    <3>1. PICK m \in 1..A : q[m] = i
      BY <1>15
    <3>2. m + G \in (G + 1)..(G + A) /\ (m + G) - G = m
      BY <1>1
    <3>3. w[m + G] = i
      BY <1>8, <3>1, <3>2
    <3> QED BY <1>6, <3>2, <3>3
  <2> QED BY <2>1, <2>2
<1>19. ASSUME NEW a \in TypedAt(all), NEW b \in TypedAt(all), a < b
       PROVE  Rel(w[a]) < Rel(w[b]) \/ (Rel(w[a]) = Rel(w[b]) /\ w[a] < w[b])
  <2>1. CASE a \in TypedAt(given) /\ b \in TypedAt(given)
    <3>1. \/ Release(Raw(f), Ends(f), o[a]) < Release(Raw(f), Ends(f), o[b])
          \/ /\ Release(Raw(f), Ends(f), o[a]) = Release(Raw(f), Ends(f), o[b])
             /\ o[a] < o[b]
      BY <1>19, <2>1 DEF GivenOK, InTime
    <3> QED BY <1>8, <1>12, <1>14, <2>1, <3>1
  <2>2. CASE a \in TypedAt(given) /\ b \in (G + 1)..(G + A)
    <3>1. w[a] \in ReleasedOf(f) /\ w[b] \in S
      BY <1>3, <1>8, <1>14, <1>15, <2>2
    <3>2. Rel(w[a]) \in 1..n /\ Rel(w[b]) = n + 1
      BY <1>12, <1>13, <3>1
    <3> QED BY <3>2
  <2>3. CASE a \in (G + 1)..(G + A) /\ b \in (G + 1)..(G + A)
    <3>1. a - G \in 1..A /\ b - G \in 1..A /\ a - G < b - G
      BY <1>1, <1>3, <1>19, <2>3
    <3>2. w[a] \in S /\ w[b] \in S /\ w[a] < w[b]
      BY <1>8, <1>15, <2>3, <3>1
    <3> QED BY <1>13, <3>2
  <2>4. CASE a \in (G + 1)..(G + A) /\ b \in TypedAt(given)
    BY <1>1, <1>7, <1>19, <2>4
  <2> QED BY <1>6, <2>1, <2>2, <2>3, <2>4
<1>20. GivenOK(g, all, w)
  BY <1>16, <1>17, <1>18, <1>19 DEF GivenOK, Spells, InTime, Rel
<1> QED BY <1>20 DEF all

\* Replies given out between the typed bytes change nothing.
LEMMA RepliesApart ==
  ASSUME NEW f, NEW given \in Seq(Byte \cup {ReplyByte}), NEW o, GivenOK(f, given, o),
         NEW add \in Seq({ReplyByte})
  PROVE  GivenOK(f, given \o add, o)
<1> DEFINE G == Len(given)
           A == Len(add)
           all == given \o add
<1>1. /\ G \in Nat /\ A \in Nat /\ DOMAIN given = 1..G /\ DOMAIN all = 1..(G + A)
  OBVIOUS
<1>2. \A a \in 1..G : all[a] = given[a]
  OBVIOUS
<1>3. \A m \in 1..A : add[m] = ReplyByte
  OBVIOUS
<1>4. \A a \in (G + 1)..(G + A) : a - G \in 1..A /\ all[a] = add[a - G]
  BY <1>1
<1> HIDE DEF G, A, all
<1>5. \A a : a \in 1..(G + A) <=> a \in 1..G \/ a \in (G + 1)..(G + A)
  BY <1>1
<1>6. \A a : a \in TypedAt(all) <=> a \in TypedAt(given)
  BY <1>1, <1>2, <1>3, <1>4, <1>5 DEF TypedAt
<1>7. TypedAt(all) = TypedAt(given)
  BY <1>6
<1>8. \A a \in TypedAt(given) : all[a] = given[a]
  BY <1>1, <1>2 DEF TypedAt
<1> QED BY <1>7, <1>8 DEF GivenOK, Spells, all

\* Erases go to the end of the line: between the m-th byte of the line and the
\* n-th key, characters outnumber erases throughout, and in the end by as many
\* as are left from the m-th on.
Balanced(f, n, line, p) ==
  \A m \in DOMAIN line :
    /\ Count(Chars(f), p[m], n) + m = Count(Erases(f), p[m], n) + Len(line) + 1
    /\ \A k \in p[m]..n : Count(Chars(f), p[m], k) > Count(Erases(f), p[m], k)

\* What the line has to be.
LineOK(f, n, line, p) == Spelt(f, line, HeldOf(f), p) /\ Balanced(f, n, line, p)

\* What is used below of the counts: those that do not reach n + 1.
LEMMA CountsStay ==
  ASSUME NEW f, NEW g, NEW n \in Nat, OneMore(f, g, n), NEW i \in 1..n
  PROVE  \A k \in i..n : /\ Count(Chars(g), i, k) = Count(Chars(f), i, k)
                         /\ Count(Erases(g), i, k) = Count(Erases(f), i, k)
                         /\ Count(Chars(f), i, k) \in Nat /\ Count(Erases(f), i, k) \in Nat
<1>1. /\ Chars(f) \in SUBSET (1..n) /\ Erases(f) \in SUBSET (1..n)
      /\ Next1(Chars(f), Chars(g), n) /\ Next1(Erases(f), Erases(g), n)
  BY ClassesStay, ClassesWithin DEF OneMore, Longer, Within
<1> QED BY <1>1, CountNext

\* Those that do.
LEMMA CountsGrow ==
  ASSUME NEW f, NEW g, NEW n \in Nat, OneMore(f, g, n), NEW i \in 1..n
  PROVE  /\ Count(Chars(f), i, n) \in Nat /\ Count(Erases(f), i, n) \in Nat
         /\ n + 1 \in Chars(g) => Count(Chars(g), i, n + 1) = Count(Chars(f), i, n) + 1
         /\ n + 1 \notin Chars(g) => Count(Chars(g), i, n + 1) = Count(Chars(f), i, n)
         /\ n + 1 \in Erases(g) => Count(Erases(g), i, n + 1) = Count(Erases(f), i, n) + 1
         /\ n + 1 \notin Erases(g) => Count(Erases(g), i, n + 1) = Count(Erases(f), i, n)
<1>1. /\ Chars(f) \in SUBSET (1..n) /\ Erases(f) \in SUBSET (1..n)
      /\ Next1(Chars(f), Chars(g), n) /\ Next1(Erases(f), Erases(g), n)
  BY ClassesStay, ClassesWithin DEF OneMore, Longer, Within
<1>2. n \in i..n
  OBVIOUS
<1>3. Count(Chars(f), i, n) \in Nat /\ Count(Erases(f), i, n) \in Nat
  BY <1>2, CountsStay
<1>4. /\ n + 1 \in Chars(g) => Count(Chars(g), i, n + 1) = Count(Chars(f), i, n) + 1
      /\ n + 1 \notin Chars(g) => Count(Chars(g), i, n + 1) = Count(Chars(f), i, n)
  BY <1>1, CountNext
<1>5. /\ n + 1 \in Erases(g) => Count(Erases(g), i, n + 1) = Count(Erases(f), i, n) + 1
      /\ n + 1 \notin Erases(g) => Count(Erases(g), i, n + 1) = Count(Erases(f), i, n)
  BY <1>1, CountNext
<1> QED BY <1>3, <1>4, <1>5

\* The empty line.
LEMMA LineEmpty ==
  ASSUME NEW g, NEW n, HeldOf(g) = {}
  PROVE  \E q : LineOK(g, n, <<>>, q)
<1>1. PICK q : Spelt(g, <<>>, {}, q)
  BY SpeltNone
<1>2. DOMAIN <<>> = {}
  OBVIOUS
<1> QED BY <1>1, <1>2 DEF LineOK, Balanced

\* A line that is well is one of keys.
LEMMA LineKeys ==
  ASSUME NEW f, NEW g, NEW n \in Nat, OneMore(f, g, n), NEW line \in Seq(Byte), NEW p,
         LineOK(f, n, line, p)
  PROVE  /\ Len(line) \in Nat /\ DOMAIN line = 1..Len(line)
         /\ HeldOf(f) \subseteq 1..n
         /\ Spelt(f, line, HeldOf(f), p)
         /\ \A m \in 1..Len(line) : p[m] \in HeldOf(f) /\ p[m] \in 1..n
         /\ \A m \in 1..Len(line) :
              /\ Count(Chars(f), p[m], n) + m = Count(Erases(f), p[m], n) + Len(line) + 1
              /\ \A k \in p[m]..n : Count(Chars(f), p[m], k) > Count(Erases(f), p[m], k)
<1>1. Len(line) \in Nat /\ DOMAIN line = 1..Len(line)
  OBVIOUS
<1>2. HeldOf(f) \subseteq 1..n
  BY Classes
<1>3. Spelt(f, line, HeldOf(f), p)
  BY DEF LineOK
<1>4. \A m \in 1..Len(line) : p[m] \in HeldOf(f) /\ p[m] \in 1..n
  BY <1>1, <1>2, <1>3 DEF Spelt
<1> QED BY <1>1, <1>2, <1>3, <1>4 DEF LineOK, Balanced

\* A key that leaves the line alone.
LEMMA LineQuiet ==
  ASSUME NEW f, NEW g, NEW n \in Nat, OneMore(f, g, n), NEW line \in Seq(Byte), NEW p,
         LineOK(f, n, line, p), n + 1 \notin Chars(g), n + 1 \notin Erases(g)
  PROVE  Spelt(g, line, HeldOf(f), p) /\ Balanced(g, n + 1, line, p)
<1> DEFINE L == Len(line)
<1>1. /\ L \in Nat /\ DOMAIN line = 1..L /\ HeldOf(f) \subseteq 1..n
      /\ Spelt(f, line, HeldOf(f), p) /\ \A m \in 1..L : p[m] \in 1..n
      /\ \A m \in 1..L :
           /\ Count(Chars(f), p[m], n) + m = Count(Erases(f), p[m], n) + L + 1
           /\ \A k \in p[m]..n : Count(Chars(f), p[m], k) > Count(Erases(f), p[m], k)
  BY LineKeys
<1> HIDE DEF L
<1>2. Spelt(g, line, HeldOf(f), p)
  BY <1>1, SpeltStays
<1>3. ASSUME NEW m \in 1..L
      PROVE  /\ Count(Chars(g), p[m], n + 1) + m = Count(Erases(g), p[m], n + 1) + L + 1
             /\ \A k \in p[m]..(n + 1) : Count(Chars(g), p[m], k) > Count(Erases(g), p[m], k)
  <2>1. PICK i \in 1..n : i = p[m]
    BY <1>1
  <2>2. \A k \in i..n : /\ Count(Chars(g), i, k) = Count(Chars(f), i, k)
                        /\ Count(Erases(g), i, k) = Count(Erases(f), i, k)
                        /\ Count(Chars(f), i, k) \in Nat /\ Count(Erases(f), i, k) \in Nat
    BY CountsStay
  <2>3. n \in i..n /\ \A k \in i..(n + 1) : k \in i..n \/ k = n + 1
    BY <2>1
  <2>4. /\ Count(Chars(f), i, n) + m = Count(Erases(f), i, n) + L + 1
        /\ \A k \in i..n : Count(Chars(f), i, k) > Count(Erases(f), i, k)
    BY <1>1, <2>1
  <2>5. Count(Chars(f), i, n) \in Nat /\ Count(Erases(f), i, n) \in Nat
    BY <2>2, <2>3
  <2>6. /\ Count(Chars(g), i, n + 1) = Count(Chars(f), i, n)
        /\ Count(Erases(g), i, n + 1) = Count(Erases(f), i, n)
    BY <2>1, CountsGrow
  <2> QED BY <2>1, <2>2, <2>3, <2>4, <2>6
<1> QED BY <1>1, <1>2, <1>3 DEF Balanced, L

\* A character goes to the end of the line.
LEMMA LinePush ==
  ASSUME NEW f, NEW g, NEW n \in Nat, OneMore(f, g, n), NEW line \in Seq(Byte), NEW p,
         LineOK(f, n, line, p), n + 1 \in Chars(g), n + 1 \notin Erases(g)
  PROVE  \E q : /\ Spelt(g, Append(line, Key(g, n + 1)), HeldOf(f) \cup {n + 1}, q)
                /\ Balanced(g, n + 1, Append(line, Key(g, n + 1)), q)
<1> DEFINE L == Len(line)
           more == Append(line, Key(g, n + 1))
<1>1. /\ L \in Nat /\ DOMAIN line = 1..L /\ HeldOf(f) \subseteq 1..n
      /\ Spelt(f, line, HeldOf(f), p) /\ \A m \in 1..L : p[m] \in 1..n
      /\ \A m \in 1..L :
           /\ Count(Chars(f), p[m], n) + m = Count(Erases(f), p[m], n) + L + 1
           /\ \A k \in p[m]..n : Count(Chars(f), p[m], k) > Count(Erases(f), p[m], k)
  BY LineKeys
<1>2. DOMAIN more = 1..(L + 1) /\ Len(more) = L + 1
  OBVIOUS
<1>3. PICK q : /\ Spelt(g, more, HeldOf(f) \cup {n + 1}, q)
               /\ Pushed(q, p, L, n + 1)
  <2>1. HeldOf(f) \subseteq 1..n /\ Spelt(f, line, HeldOf(f), p)
    BY <1>1
  <2> QED BY <2>1, SpeltPush
<1> HIDE DEF L, more
<1>4. ASSUME NEW m \in 1..L
      PROVE  /\ Count(Chars(g), q[m], n + 1) + m = Count(Erases(g), q[m], n + 1) + (L + 1) + 1
             /\ \A k \in q[m]..(n + 1) : Count(Chars(g), q[m], k) > Count(Erases(g), q[m], k)
  <2>1. PICK i : i = q[m] /\ i = p[m] /\ i \in 1..n
    BY <1>1, <1>3 DEF Pushed, Agree
  <2>2. \A k \in i..n : /\ Count(Chars(g), i, k) = Count(Chars(f), i, k)
                        /\ Count(Erases(g), i, k) = Count(Erases(f), i, k)
                        /\ Count(Chars(f), i, k) \in Nat /\ Count(Erases(f), i, k) \in Nat
    BY <2>1, CountsStay
  <2>3. n \in i..n /\ \A k \in i..(n + 1) : k \in i..n \/ k = n + 1
    BY <2>1
  <2>4. /\ Count(Chars(f), i, n) + m = Count(Erases(f), i, n) + L + 1
        /\ \A k \in i..n : Count(Chars(f), i, k) > Count(Erases(f), i, k)
    BY <1>1, <2>1
  <2>5. Count(Chars(f), i, n) \in Nat /\ Count(Erases(f), i, n) \in Nat
        /\ Count(Chars(f), i, n) > Count(Erases(f), i, n)
    BY <2>2, <2>3, <2>4
  <2>6. /\ Count(Chars(g), i, n + 1) = Count(Chars(f), i, n) + 1
        /\ Count(Erases(g), i, n + 1) = Count(Erases(f), i, n)
    BY <2>1, CountsGrow, SMTT(60)
  <2>7. /\ Count(Chars(g), i, n + 1) + m = Count(Erases(g), i, n + 1) + (L + 1) + 1
        /\ Count(Chars(g), i, n + 1) > Count(Erases(g), i, n + 1)
    BY <1>1, <2>4, <2>5, <2>6
  <2> QED BY <2>1, <2>2, <2>3, <2>4, <2>7
<1>5. ASSUME NEW m, m = L + 1
      PROVE  /\ Count(Chars(g), q[m], n + 1) + m = Count(Erases(g), q[m], n + 1) + (L + 1) + 1
             /\ \A k \in q[m]..(n + 1) : Count(Chars(g), q[m], k) > Count(Erases(g), q[m], k)
  <2>1. q[m] = n + 1
    BY <1>3, <1>5 DEF Pushed
  <2>2. Count(Chars(g), n + 1, n + 1) = 1 /\ Count(Erases(g), n + 1, n + 1) = 0
    BY CountLast
  <2>3. \A k \in (n + 1)..(n + 1) : k = n + 1
    OBVIOUS
  <2> QED BY <1>1, <1>5, <2>1, <2>2, <2>3
<1>6. \A m \in 1..(L + 1) : m \in 1..L \/ m = L + 1
  BY <1>1
<1>7. Balanced(g, n + 1, more, q)
  BY <1>2, <1>4, <1>5, <1>6 DEF Balanced
<1> QED BY <1>3, <1>7 DEF more

\* A sequence without its last element.
LEMMA FrontIs ==
  ASSUME NEW S, NEW line \in Seq(S), line # <<>>
  PROVE  /\ Len(line) > 0 /\ Len(Front(line)) = Len(line) - 1
         /\ DOMAIN Front(line) = 1..(Len(line) - 1)
<1>1. Len(line) \in Nat /\ Len(line) > 0
  OBVIOUS
<1>2. \A m \in 0..Len(line) : SubSeq(line, 1, m) \in Seq(S)
  OBVIOUS
<1>3. \A m \in 0..Len(line) : Len(SubSeq(line, 1, m)) = m
  OBVIOUS
<1>4. PICK m : m = Len(line) - 1 /\ m \in 0..Len(line)
  BY <1>1
<1>5. Front(line) = SubSeq(line, 1, m)
  BY <1>4 DEF Front
<1>6. Front(line) \in Seq(S) /\ Len(Front(line)) = m
  BY <1>2, <1>3, <1>4, <1>5
<1> QED BY <1>1, <1>4, <1>6

\* Of the keys of S, the last one of g takes back i and no other.
TakesOnly(g, n, S, i) ==
  \A j \in S : Takes(Chars(g), Erases(g), Ends(g), j, n + 1) <=> j = i

\* An erase takes the last character of the line, and no other.
LEMMA LinePop ==
  ASSUME NEW f, NEW g, NEW n \in Nat, OneMore(f, g, n), NEW line \in Seq(Byte), line # <<>>,
         NEW p, LineOK(f, n, line, p), n + 1 \notin Chars(g), n + 1 \in Erases(g)
  PROVE  \E q : /\ Spelt(g, Front(line), HeldOf(f) \ {p[Len(line)]}, q)
                /\ Balanced(g, n + 1, Front(line), q)
                /\ TakesOnly(g, n, HeldOf(f), p[Len(line)])
<1> DEFINE L == Len(line)
           less == Front(line)
<1>1. /\ L \in Nat /\ DOMAIN line = 1..L /\ HeldOf(f) \subseteq 1..n
      /\ Spelt(f, line, HeldOf(f), p) /\ \A m \in 1..L : p[m] \in HeldOf(f) /\ p[m] \in 1..n
      /\ \A m \in 1..L :
           /\ Count(Chars(f), p[m], n) + m = Count(Erases(f), p[m], n) + L + 1
           /\ \A k \in p[m]..n : Count(Chars(f), p[m], k) > Count(Erases(f), p[m], k)
  BY LineKeys
<1>2. DOMAIN less = 1..(L - 1) /\ Len(less) = L - 1 /\ L > 0
  BY FrontIs
<1>3. PICK q : /\ Spelt(g, less, HeldOf(f) \ {p[L]}, q)
               /\ Agree(q, p, L - 1)
  <2>1. HeldOf(f) \subseteq 1..n /\ Spelt(f, line, HeldOf(f), p)
    BY <1>1
  <2> QED BY <2>1, SpeltPop
<1> HIDE DEF L, less
<1>4. ASSUME NEW m \in 1..L
      PROVE  /\ Count(Chars(g), p[m], n + 1) + m = Count(Erases(g), p[m], n + 1) + L
             /\ \A k \in p[m]..n : Count(Chars(g), p[m], k) > Count(Erases(g), p[m], k)
             /\ Count(Erases(g), p[m], n + 1) \in Nat /\ Count(Chars(g), p[m], n + 1) \in Nat
  <2>1. PICK i \in 1..n : i = p[m]
    BY <1>1
  <2>2. \A k \in i..n : /\ Count(Chars(g), i, k) = Count(Chars(f), i, k)
                        /\ Count(Erases(g), i, k) = Count(Erases(f), i, k)
                        /\ Count(Chars(f), i, k) \in Nat /\ Count(Erases(f), i, k) \in Nat
    BY CountsStay
  <2>3. n \in i..n
    BY <2>1
  <2>4. /\ Count(Chars(f), i, n) + m = Count(Erases(f), i, n) + L + 1
        /\ \A k \in i..n : Count(Chars(f), i, k) > Count(Erases(f), i, k)
    BY <1>1, <2>1
  <2>5. Count(Chars(f), i, n) \in Nat /\ Count(Erases(f), i, n) \in Nat
    BY <2>2, <2>3
  <2>6. /\ Count(Chars(g), i, n + 1) + m = Count(Erases(g), i, n + 1) + L
        /\ Count(Chars(g), i, n + 1) \in Nat /\ Count(Erases(g), i, n + 1) \in Nat
    <3>1. /\ Count(Chars(g), i, n + 1) = Count(Chars(f), i, n)
          /\ Count(Erases(g), i, n + 1) = Count(Erases(f), i, n) + 1
      BY <2>1, CountsGrow, SMTT(60)
    <3> QED BY <1>1, <2>4, <2>5, <3>1
  <2> QED BY <2>1, <2>2, <2>4, <2>6
<1>5. ASSUME NEW m \in 1..(L - 1)
      PROVE  /\ m \in 1..L
             /\ Count(Chars(g), p[m], n + 1) > Count(Erases(g), p[m], n + 1)
             /\ ~Takes(Chars(g), Erases(g), Ends(g), p[m], n + 1)
  <2>1. m \in 1..L /\ m < L
    BY <1>1
  <2>2. Count(Chars(g), p[m], n + 1) > Count(Erases(g), p[m], n + 1)
    BY <1>1, <1>4, <2>1
  <2>3. Count(Chars(g), p[m], n + 1) # Count(Erases(g), p[m], n + 1)
    BY <1>4, <2>1, <2>2
  <2> QED BY <2>1, <2>2, <2>3 DEF Takes
<1>6. Takes(Chars(g), Erases(g), Ends(g), p[L], n + 1)
  <2>1. L \in 1..L
    BY <1>1, <1>2
  <2>2. Count(Chars(g), p[L], n + 1) = Count(Erases(g), p[L], n + 1)
    BY <1>1, <1>4, <2>1
  <2>3. \A k \in p[L]..((n + 1) - 1) : Count(Chars(g), p[L], k) > Count(Erases(g), p[L], k)
    <3>1. (n + 1) - 1 = n
      OBVIOUS
    <3> QED BY <1>4, <2>1, <3>1
  <2>4. SameLine(Ends(g), p[L], n + 1)
    <3>1. p[L] \in HeldOf(f) /\ p[L] \in 1..n
      BY <1>1, <2>1
    <3>2. \A e \in Ends(f) : e < p[L]
      BY <3>1 DEF HeldOf, Held
    <3>3. Ends(f) \in SUBSET (1..n) /\ Next1(Ends(f), Ends(g), n)
      BY ClassesStay, ClassesWithin DEF OneMore, Longer, Within
    <3> QED BY <3>1, <3>2, <3>3, SameLineLast
  <2> QED BY <2>2, <2>3, <2>4 DEF Takes
<1>7. \A i \in HeldOf(f) : Takes(Chars(g), Erases(g), Ends(g), i, n + 1) <=> i = p[L]
  <2>1. \A i \in HeldOf(f) : \E m \in 1..L : p[m] = i
    BY <1>1 DEF Spelt, Spells
  <2>2. \A m \in 1..L : m \in 1..(L - 1) \/ m = L
    BY <1>1
  <2>3. \A i \in HeldOf(f) : i # p[L] => ~Takes(Chars(g), Erases(g), Ends(g), i, n + 1)
    BY <1>5, <2>1, <2>2
  <2> QED BY <1>6, <2>3
<1>8. ASSUME NEW m \in 1..(L - 1)
      PROVE  /\ Count(Chars(g), q[m], n + 1) + m = Count(Erases(g), q[m], n + 1) + (L - 1) + 1
             /\ \A k \in q[m]..(n + 1) : Count(Chars(g), q[m], k) > Count(Erases(g), q[m], k)
  <2>1. PICK i : i = q[m] /\ i = p[m] /\ i \in 1..n /\ m \in 1..L
    BY <1>1, <1>3, <1>5 DEF Agree
  <2>2. Count(Chars(g), i, n + 1) + m = Count(Erases(g), i, n + 1) + (L - 1) + 1
    BY <1>1, <1>4, <2>1
  <2>3. \A k \in i..(n + 1) : k \in i..n \/ k = n + 1
    BY <2>1
  <2> QED BY <1>4, <1>5, <2>1, <2>2, <2>3
<1>9. Balanced(g, n + 1, less, q)
  BY <1>2, <1>8 DEF Balanced
<1> QED BY <1>3, <1>7, <1>9 DEF TakesOnly, L, less

(***************************************************************************)
(* One key                                                                 *)
(***************************************************************************)
\* What a key stands for, in the mode t.
KeyIn(t, raw) == CASE raw = "cr" /\ Has(t, "ICRNL") -> "nl"
                   [] raw = "nl" /\ Has(t, "INLCR") -> "cr"
                   [] OTHER -> raw

\* r has the line and the readable bytes given, and the last key was a carriage return or not.
Shows(r, line, readable, cr) == r.line = line /\ r.readable = readable /\ r.cr = cr

\* An echo goes to the host only.
LEMMA EchoShows ==
  ASSUME NEW s \in LdiscType, NEW t, NEW bytes
  PROVE  Shows(Echo(s, t, bytes), s.line, s.readable, s.cr)
  BY DEF Echo, LdiscType, Shows

\* What a key makes of the line and the readable bytes in canonical mode.
CanonicalIs(r, t, b, line, readable, cr) ==
  /\ b = t.verase => Shows(r, IF line = <<>> THEN <<>> ELSE Front(line), readable, cr)
  /\ b # t.verase /\ b = t.vkill => Shows(r, <<>>, readable, cr)
  /\ b \notin {t.verase, t.vkill} /\ b = t.veof => Shows(r, <<>>, readable \o line, cr)
  /\ b \notin {t.verase, t.vkill, t.veof} /\ b = "nl" =>
       Shows(r, <<>>, readable \o Append(line, b), cr)
  /\ b \notin {t.verase, t.vkill, t.veof} /\ b # "nl" => Shows(r, Append(line, b), readable, cr)

\* canonical_input in its cases.
LEMMA CanonicalInputIs ==
  ASSUME NEW s \in LdiscType, NEW t, NEW b \in Byte
  PROVE  CanonicalIs(canonical_input(s, t, b), t, b, s.line, s.readable, s.cr)
<1> DEFINE r == canonical_input(s, t, b)
           pushed == Echo([s EXCEPT !.line = Append(@, b)], t, <<b>>)
<1>1. ASSUME b = t.verase
      PROVE  Shows(r, IF s.line = <<>> THEN <<>> ELSE Front(s.line), s.readable, s.cr)
  <2>1. r = canonical_erase(s, t)
    BY <1>1 DEF canonical_input
  <2>2. CASE s.line = <<>>
    BY <2>1, <2>2 DEF canonical_erase, Shows
  <2>3. CASE s.line # <<>>
    <3>1. r = Echo([s EXCEPT !.line = Front(@)], t, <<Rub>>)
      BY <2>1, <2>3 DEF canonical_erase
    <3>2. Front(s.line) \in Seq(Byte)
      BY <2>3 DEF LdiscType, Front
    <3>3. PICK x : x = [s EXCEPT !.line = Front(@)]
      OBVIOUS
    <3>4. x \in LdiscType /\ Shows(x, Front(s.line), s.readable, s.cr)
      BY <3>2, <3>3 DEF LdiscType, Shows
    <3>5. r = Echo(x, t, <<Rub>>)
      BY <3>1, <3>3
    <3> HIDE DEF r
    <3>6. Shows(r, x.line, x.readable, x.cr)
      BY <3>4, <3>5, EchoShows
    <3> QED BY <2>3, <3>4, <3>6 DEF Shows
  <2> QED BY <2>2, <2>3
<1>2. ASSUME b # t.verase, b = t.vkill
      PROVE  Shows(r, <<>>, s.readable, s.cr)
  <2>1. r = Echo([s EXCEPT !.line = <<>>], t, [i \in 1..Len(s.line) |-> Rub])
    BY <1>2 DEF canonical_input, canonical_kill
  <2>2. <<>> \in Seq(Byte)
    OBVIOUS
  <2>3. PICK x, bytes : x = [s EXCEPT !.line = <<>>] /\ bytes = [i \in 1..Len(s.line) |-> Rub]
    OBVIOUS
  <2>4. x \in LdiscType /\ Shows(x, <<>>, s.readable, s.cr)
    BY <2>2, <2>3 DEF LdiscType, Shows
  <2>5. r = Echo(x, t, bytes)
    BY <2>1, <2>3
  <2> HIDE DEF r
  <2>6. Shows(r, x.line, x.readable, x.cr)
    BY <2>4, <2>5, EchoShows
  <2> QED BY <2>4, <2>6 DEF Shows
<1>3. \A x \in LdiscType : Shows(Flush(x), <<>>, x.readable \o x.line, x.cr)
  BY DEF Flush, LdiscType, Shows
<1>4. ASSUME b \notin {t.verase, t.vkill}, b = t.veof
      PROVE  Shows(r, <<>>, s.readable \o s.line, s.cr)
  <2>1. r = Flush(s)
    BY <1>4 DEF canonical_input
  <2> HIDE DEF r
  <2> QED BY <1>3, <2>1
<1>5. pushed \in LdiscType /\ Shows(pushed, Append(s.line, b), s.readable, s.cr)
  <2>1. Append(s.line, b) \in Seq(Byte) /\ <<b>> \in Seq(OutByte)
    BY DEF LdiscType, OutByte
  <2>2. PICK x : x = [s EXCEPT !.line = Append(@, b)]
    OBVIOUS
  <2>3. x \in LdiscType /\ Shows(x, Append(s.line, b), s.readable, s.cr)
    BY <2>1, <2>2 DEF LdiscType, Shows
  <2>4. pushed = Echo(x, t, <<b>>)
    BY <2>2
  <2> HIDE DEF pushed
  <2>5. pushed \in LdiscType
    BY <2>1, <2>3, <2>4, EchoType
  <2>6. Shows(pushed, x.line, x.readable, x.cr)
    BY <2>3, <2>4, EchoShows
  <2> QED BY <2>3, <2>5, <2>6 DEF Shows
<1>6. b \notin {t.verase, t.vkill, t.veof} => r = IF b = "nl" THEN Flush(pushed) ELSE pushed
  BY DEF canonical_input
<1> HIDE DEF pushed, r
<1>7. ASSUME b \notin {t.verase, t.vkill, t.veof}, b = "nl"
      PROVE  Shows(r, <<>>, s.readable \o Append(s.line, b), s.cr)
  <2>1. r = Flush(pushed)
    BY <1>6, <1>7
  <2>2. Shows(Flush(pushed), <<>>, pushed.readable \o pushed.line, pushed.cr)
    BY <1>3, <1>5
  <2> QED BY <1>5, <2>1, <2>2 DEF Shows
<1>8. ASSUME b \notin {t.verase, t.vkill, t.veof}, b # "nl"
      PROVE  Shows(r, Append(s.line, b), s.readable, s.cr)
  BY <1>5, <1>6, <1>8
<1>9. r = canonical_input(s, t, b)
  BY DEF r
<1> QED BY <1>1, <1>2, <1>4, <1>7, <1>8, <1>9 DEF CanonicalIs

\* What a key does: whether it counts, and in which mode.
Drops(cr, t, raw) == (raw = "nl" /\ cr) \/ (raw = "cr" /\ Has(t, "IGNCR"))

\* feed_byte in its cases.
LEMMA FeedByteIs ==
  ASSUME NEW s \in LdiscType, NEW t, NEW raw \in Byte
  PROVE  LET r == feed_byte(s, t, raw)
             b == KeyIn(t, raw)
             cr == (raw = "cr")
         IN /\ b \in Byte
            /\ Drops(s.cr, t, raw) => Shows(r, s.line, s.readable, cr)
            /\ ~Drops(s.cr, t, raw) /\ ~Has(t, "ICANON") =>
                 Shows(r, s.line, s.readable \o <<b>>, cr)
            /\ ~Drops(s.cr, t, raw) /\ Has(t, "ICANON") =>
                 CanonicalIs(r, t, b, s.line, s.readable, cr)
<1> DEFINE r == feed_byte(s, t, raw)
           b == KeyIn(t, raw)
           cr == (raw = "cr")
           next == [s EXCEPT !.cr = cr]
<1>1. b \in Byte
  BY DEF KeyIn, Byte, Special
<1>2. next \in LdiscType /\ next.line = s.line /\ next.readable = s.readable /\ next.cr = cr
  BY DEF LdiscType
<1>3. /\ Drops(s.cr, t, raw) => r = next
      /\ ~Drops(s.cr, t, raw) /\ ~Has(t, "ICANON") =>
           r = Echo([next EXCEPT !.readable = Append(@, b)], t, <<b>>)
      /\ ~Drops(s.cr, t, raw) /\ Has(t, "ICANON") => r = canonical_input(next, t, b)
  BY DEF feed_byte, Drops, KeyIn
<1> HIDE DEF r, b, cr, next
<1>4. ASSUME Drops(s.cr, t, raw) PROVE Shows(r, s.line, s.readable, cr)
  BY <1>2, <1>3, <1>4 DEF Shows
<1>5. ASSUME ~Drops(s.cr, t, raw), ~Has(t, "ICANON")
      PROVE  Shows(r, s.line, s.readable \o <<b>>, cr)
  <2>1. /\ Append(next.readable, b) = next.readable \o <<b>>
        /\ Append(next.readable, b) \in Seq(Byte \cup {ReplyByte})
    BY <1>1, <1>2 DEF LdiscType
  <2>2. PICK x : x = [next EXCEPT !.readable = Append(@, b)]
    OBVIOUS
  <2>3. x \in LdiscType /\ Shows(x, next.line, next.readable \o <<b>>, next.cr)
    BY <1>2, <2>1, <2>2 DEF LdiscType, Shows
  <2>4. r = Echo(x, t, <<b>>)
    BY <1>3, <1>5, <2>2
  <2>5. Shows(r, x.line, x.readable, x.cr)
    BY <2>3, <2>4, EchoShows
  <2> QED BY <1>2, <2>3, <2>5 DEF Shows
<1>6. ASSUME ~Drops(s.cr, t, raw), Has(t, "ICANON") PROVE r = canonical_input(next, t, b)
  BY <1>3, <1>6
<1>7. /\ r = feed_byte(s, t, raw) /\ b = KeyIn(t, raw) /\ cr = (raw = "cr")
  BY DEF r, b, cr
<1>8. ASSUME ~Drops(s.cr, t, raw), Has(t, "ICANON")
      PROVE  CanonicalIs(r, t, b, s.line, s.readable, cr)
  <2>1. r = canonical_input(next, t, b)
    BY <1>6, <1>8
  <2>2. CanonicalIs(r, t, b, next.line, next.readable, next.cr)
    BY <1>1, <1>2, <2>1, CanonicalInputIs
  <2> QED BY <1>2, <2>2
<1> QED BY <1>1, <1>4, <1>5, <1>7, <1>8

\* The class of the last key, from the key and its mode.
LEMMA LastKey ==
  ASSUME NEW g, NEW n \in Nat, DOMAIN g = 1..(n + 1), NEW raw, NEW t,
         g[n + 1] = [byte |-> raw, termios |-> t],
         NEW cr, cr = (n > 0 /\ g[n].byte = "cr")
  PROVE  LET b == KeyIn(t, raw)
             cooked == ~Drops(cr, t, raw) /\ Has(t, "ICANON")
         IN /\ Key(g, n + 1) = b
            /\ n + 1 \in Raw(g) <=> ~Drops(cr, t, raw) /\ ~Has(t, "ICANON")
            /\ n + 1 \in Erases(g) <=> cooked /\ b = t.verase
            /\ n + 1 \in Kills(g) <=> cooked /\ b # t.verase /\ b = t.vkill
            /\ n + 1 \in Ends(g) <=> cooked /\ b \notin {t.verase, t.vkill} /\ b \in {"nl", t.veof}
            /\ n + 1 \in Chars(g) <=> cooked /\ b \notin {t.verase, t.vkill} /\ b # t.veof
<1> DEFINE b == KeyIn(t, raw)
           last == n + 1
<1>1. /\ last \in DOMAIN g /\ last - 1 = n /\ (last > 1 <=> n > 0)
      /\ g[last].byte = raw /\ g[last].termios = t
  OBVIOUS
<1>2. Key(g, last) = b
  BY <1>1 DEF Key, KeyIn
<1>3. last \in Live(g) <=> ~Drops(cr, t, raw)
  BY <1>1 DEF Live, Drops
<1> HIDE DEF b, last
<1>4. last \in Cooked(g) <=> ~Drops(cr, t, raw) /\ Has(t, "ICANON")
  BY <1>1, <1>3 DEF Cooked
<1>5. last \in Raw(g) <=> ~Drops(cr, t, raw) /\ ~Has(t, "ICANON")
  BY <1>3, <1>4 DEF Raw
<1>6. last \in Erases(g) <=> last \in Cooked(g) /\ b = t.verase
  BY <1>1, <1>2 DEF Erases
<1>7. last \in Kills(g) <=> last \in Cooked(g) /\ b # t.verase /\ b = t.vkill
  BY <1>1, <1>2, <1>6 DEF Kills
<1>8. last \in Text(g) <=> last \in Cooked(g) /\ b \notin {t.verase, t.vkill}
  BY <1>6, <1>7 DEF Text
<1>9. last \in Ends(g) <=> last \in Text(g) /\ b \in {"nl", t.veof}
  BY <1>1, <1>2 DEF Ends
<1>10. last \in Chars(g) <=> last \in Text(g) /\ b # t.veof
  BY <1>1, <1>2 DEF Chars
<1>11. last = n + 1 /\ b = KeyIn(t, raw)
  BY DEF last, b
<1> QED BY <1>2, <1>4, <1>5, <1>6, <1>7, <1>8, <1>9, <1>10, <1>11

\* What the bytes given out and the line have to be after the keys f.
Faithful(f, n, given, line) ==
  (\E o : GivenOK(f, given, o)) /\ (\E p : LineOK(f, n, line, p))

\* A key that releases nothing leaves what was given out as it was.
LEMMA GivenSame ==
  ASSUME NEW f, NEW g, NEW n \in Nat, OneMore(f, g, n),
         NEW given \in Seq(Byte \cup {ReplyByte}), NEW o, GivenOK(f, given, o),
         ReleasedOf(g) = ReleasedOf(f)
  PROVE  \E w : GivenOK(g, given, w)
<1>1. PICK q : Spelt(g, <<>>, {}, q)
  BY SpeltNone
<1>2. <<>> \in Seq(Byte) /\ given \o <<>> = given
  OBVIOUS
<1>3. ReleasedOf(g) = ReleasedOf(f) \cup {} /\ \A i \in {} : Release(Raw(g), Ends(g), i) = n + 1
  OBVIOUS
<1>4. \E w : GivenOK(g, given \o <<>>, w)
  BY <1>1, <1>2, <1>3, GivenGrows, ZenonT(60)
<1> QED BY <1>2, <1>4

\* A key that does not count.
LEMMA QuietFaithful ==
  ASSUME NEW f, NEW g, NEW n \in Nat, OneMore(f, g, n),
         NEW given \in Seq(Byte \cup {ReplyByte}), NEW line \in Seq(Byte),
         Faithful(f, n, given, line), n + 1 \notin Raw(g), n + 1 \notin Ends(g),
         n + 1 \notin Erases(g), n + 1 \notin Kills(g), n + 1 \notin Chars(g)
  PROVE  Faithful(g, n + 1, given, line)
<1>1. PICK o : GivenOK(f, given, o)
  BY DEF Faithful
<1>2. PICK p : LineOK(f, n, line, p)
  BY DEF Faithful
<1>3. HeldOf(g) = HeldOf(f) /\ ReleasedOf(g) = ReleasedOf(f)
  BY PlainKey
<1>4. \E w : GivenOK(g, given, w)
  BY <1>1, <1>3, GivenSame
<1>5. Spelt(g, line, HeldOf(f), p) /\ Balanced(g, n + 1, line, p)
  BY <1>2, LineQuiet
<1>6. LineOK(g, n + 1, line, p)
  BY <1>3, <1>5 DEF LineOK
<1> QED BY <1>4, <1>6 DEF Faithful

\* A byte in raw mode.
LEMMA RawFaithful ==
  ASSUME NEW f, NEW g, NEW n \in Nat, OneMore(f, g, n),
         NEW given \in Seq(Byte \cup {ReplyByte}), NEW line \in Seq(Byte),
         Faithful(f, n, given, line), n + 1 \in Raw(g), Key(g, n + 1) \in Byte
  PROVE  Faithful(g, n + 1, given \o <<Key(g, n + 1)>>, line)
<1>0. /\ n + 1 \notin Ends(g) /\ n + 1 \notin Erases(g) /\ n + 1 \notin Kills(g)
      /\ n + 1 \notin Chars(g)
  BY Classes
<1>1. PICK o : GivenOK(f, given, o)
  BY DEF Faithful
<1>2. PICK p : LineOK(f, n, line, p)
  BY DEF Faithful
<1>3. HeldOf(g) = HeldOf(f) /\ ReleasedOf(g) = ReleasedOf(f) \cup {n + 1}
  BY <1>0, PlainKey
<1>4. \A i \in {n + 1} : Release(Raw(g), Ends(g), i) = n + 1
  BY ReleaseNext
<1>5. PICK q : Spelt(g, <<Key(g, n + 1)>>, {n + 1}, q)
  <2>1. PICK r : Spelt(f, <<>>, {}, r)
    BY SpeltNone
  <2>2. <<>> \in Seq(Byte) /\ {} \subseteq 1..n
    OBVIOUS
  <2>3. \E q : Spelt(g, Append(<<>>, Key(g, n + 1)), {} \cup {n + 1}, q)
    BY <2>1, <2>2, SpeltPush
  <2>4. Append(<<>>, Key(g, n + 1)) = <<Key(g, n + 1)>> /\ {} \cup {n + 1} = {n + 1}
    OBVIOUS
  <2> QED BY <2>3, <2>4
<1>6. <<Key(g, n + 1)>> \in Seq(Byte)
  OBVIOUS
<1>7. \E w : GivenOK(g, given \o <<Key(g, n + 1)>>, w)
  BY <1>1, <1>3, <1>4, <1>5, <1>6, GivenGrows
<1>8. Spelt(g, line, HeldOf(f), p) /\ Balanced(g, n + 1, line, p)
  BY <1>0, <1>2, LineQuiet
<1>9. LineOK(g, n + 1, line, p)
  BY <1>3, <1>8 DEF LineOK
<1> QED BY <1>7, <1>9 DEF Faithful

\* A character of the line.
LEMMA CharFaithful ==
  ASSUME NEW f, NEW g, NEW n \in Nat, OneMore(f, g, n),
         NEW given \in Seq(Byte \cup {ReplyByte}), NEW line \in Seq(Byte),
         Faithful(f, n, given, line), n + 1 \in Chars(g), n + 1 \notin Ends(g)
  PROVE  Faithful(g, n + 1, given, Append(line, Key(g, n + 1)))
<1>0. n + 1 \notin Raw(g) /\ n + 1 \notin Erases(g) /\ n + 1 \notin Kills(g)
  BY Classes
<1>1. PICK o : GivenOK(f, given, o)
  BY DEF Faithful
<1>2. PICK p : LineOK(f, n, line, p)
  BY DEF Faithful
<1>3. HeldOf(g) = HeldOf(f) \cup {n + 1} /\ ReleasedOf(g) = ReleasedOf(f)
  BY <1>0, PlainKey
<1>4. \E w : GivenOK(g, given, w)
  BY <1>1, <1>3, GivenSame
<1>5. PICK q : /\ Spelt(g, Append(line, Key(g, n + 1)), HeldOf(f) \cup {n + 1}, q)
               /\ Balanced(g, n + 1, Append(line, Key(g, n + 1)), q)
  BY <1>0, <1>2, LinePush
<1>6. LineOK(g, n + 1, Append(line, Key(g, n + 1)), q)
  BY <1>3, <1>5 DEF LineOK
<1> QED BY <1>4, <1>6 DEF Faithful

\* A kill.
LEMMA KillFaithful ==
  ASSUME NEW f, NEW g, NEW n \in Nat, OneMore(f, g, n),
         NEW given \in Seq(Byte \cup {ReplyByte}), NEW line \in Seq(Byte),
         Faithful(f, n, given, line), n + 1 \in Kills(g)
  PROVE  Faithful(g, n + 1, given, <<>>)
<1>1. PICK o : GivenOK(f, given, o)
  BY DEF Faithful
<1>2. HeldOf(g) = {} /\ ReleasedOf(g) = ReleasedOf(f)
  BY EditKey
<1>3. \E w : GivenOK(g, given, w)
  BY <1>1, <1>2, GivenSame
<1>4. \E q : LineOK(g, n + 1, <<>>, q)
  BY <1>2, LineEmpty
<1> QED BY <1>3, <1>4 DEF Faithful

\* An erase.
LEMMA EraseFaithful ==
  ASSUME NEW f, NEW g, NEW n \in Nat, OneMore(f, g, n),
         NEW given \in Seq(Byte \cup {ReplyByte}), NEW line \in Seq(Byte),
         Faithful(f, n, given, line), n + 1 \in Erases(g)
  PROVE  Faithful(g, n + 1, given, IF line = <<>> THEN <<>> ELSE Front(line))
<1>0. n + 1 \notin Chars(g)
  BY Classes
<1>1. PICK o : GivenOK(f, given, o)
  BY DEF Faithful
<1>2. PICK p : LineOK(f, n, line, p)
  BY DEF Faithful
<1>3. /\ ReleasedOf(g) = ReleasedOf(f)
      /\ HeldOf(g) = {i \in HeldOf(f) : ~Takes(Chars(g), Erases(g), Ends(g), i, n + 1)}
  BY EditKey
<1>4. \E w : GivenOK(g, given, w)
  BY <1>1, <1>3, GivenSame
<1>5. CASE line = <<>>
  <2>1. DOMAIN line = {}
    BY <1>5
  <2>2. HeldOf(f) = {}
    BY <1>2, <2>1 DEF LineOK, Spelt, Spells
  <2>3. HeldOf(g) = {}
    BY <1>3, <2>2
  <2>4. \E q : LineOK(g, n + 1, <<>>, q)
    BY <2>3, LineEmpty
  <2> QED BY <1>4, <1>5, <2>4 DEF Faithful
<1>6. CASE line # <<>>
  <2>1. PICK q : /\ Spelt(g, Front(line), HeldOf(f) \ {p[Len(line)]}, q)
                 /\ Balanced(g, n + 1, Front(line), q)
                 /\ TakesOnly(g, n, HeldOf(f), p[Len(line)])
    BY <1>0, <1>2, <1>6, LinePop
  <2>2. HeldOf(g) = HeldOf(f) \ {p[Len(line)]}
    BY <1>3, <2>1 DEF TakesOnly
  <2>3. LineOK(g, n + 1, Front(line), q)
    BY <2>1, <2>2 DEF LineOK
  <2> QED BY <1>4, <1>6, <2>3 DEF Faithful
<1> QED BY <1>5, <1>6

\* The end of a line, by a key that is not of the line.
LEMMA EofFaithful ==
  ASSUME NEW f, NEW g, NEW n \in Nat, OneMore(f, g, n),
         NEW given \in Seq(Byte \cup {ReplyByte}), NEW line \in Seq(Byte),
         Faithful(f, n, given, line), n + 1 \in Ends(g), n + 1 \notin Chars(g)
  PROVE  Faithful(g, n + 1, given \o line, <<>>)
<1>1. PICK o : GivenOK(f, given, o)
  BY DEF Faithful
<1>2. PICK p : LineOK(f, n, line, p)
  BY DEF Faithful
<1>3. HeldOf(g) = {} /\ ReleasedOf(g) = ReleasedOf(f) \cup HeldOf(f)
  BY EndKey
<1>4. \A i \in HeldOf(f) : Release(Raw(g), Ends(g), i) = n + 1
  BY ReleaseNext
<1>5. Spelt(g, line, HeldOf(f), p)
  <2>1. HeldOf(f) \subseteq 1..n /\ Spelt(f, line, HeldOf(f), p)
    BY <1>2, LineKeys
  <2> QED BY <2>1, SpeltStays
<1>6. \E w : GivenOK(g, given \o line, w)
  BY <1>1, <1>3, <1>4, <1>5, GivenGrows
<1>7. \E q : LineOK(g, n + 1, <<>>, q)
  BY <1>3, LineEmpty
<1> QED BY <1>6, <1>7 DEF Faithful

\* The end of a line, by its last character.
LEMMA NlFaithful ==
  ASSUME NEW f, NEW g, NEW n \in Nat, OneMore(f, g, n),
         NEW given \in Seq(Byte \cup {ReplyByte}), NEW line \in Seq(Byte),
         Faithful(f, n, given, line), n + 1 \in Ends(g), n + 1 \in Chars(g), Key(g, n + 1) \in Byte
  PROVE  Faithful(g, n + 1, given \o Append(line, Key(g, n + 1)), <<>>)
<1>1. PICK o : GivenOK(f, given, o)
  BY DEF Faithful
<1>2. PICK p : LineOK(f, n, line, p)
  BY DEF Faithful
<1>3. HeldOf(g) = {} /\ ReleasedOf(g) = ReleasedOf(f) \cup (HeldOf(f) \cup {n + 1})
  BY EndKey
<1>4. \A i \in HeldOf(f) \cup {n + 1} : Release(Raw(g), Ends(g), i) = n + 1
  BY ReleaseNext
<1>5. PICK q : Spelt(g, Append(line, Key(g, n + 1)), HeldOf(f) \cup {n + 1}, q)
  <2>1. HeldOf(f) \subseteq 1..n /\ Spelt(f, line, HeldOf(f), p)
    BY <1>2, LineKeys
  <2> QED BY <2>1, SpeltPush
<1>6. Append(line, Key(g, n + 1)) \in Seq(Byte)
  OBVIOUS
<1>7. \E w : GivenOK(g, given \o Append(line, Key(g, n + 1)), w)
  BY <1>1, <1>3, <1>4, <1>5, <1>6, GivenGrows
<1>8. \E q2 : LineOK(g, n + 1, <<>>, q2)
  BY <1>3, LineEmpty
<1> QED BY <1>7, <1>8 DEF Faithful

(***************************************************************************)
(* A chunk of keys, and the output                                         *)
(***************************************************************************)
\* last_was_cr is what it says, after the first n keys of f.
CrOK(f, n, cr) == cr = (n > 0 /\ f[n].byte = "cr")

\* All that a call of the driver has to keep: tk is what was read before.
StateOK(f, n, tk, s) ==
  s \in LdiscType /\ Faithful(f, n, tk \o s.readable, s.line) /\ CrOK(f, n, s.cr)

\* Concatenation is associative.
LEMMA ConcatAssoc ==
  ASSUME NEW S
  PROVE  \A a, b, c \in Seq(S) : a \o (b \o c) = (a \o b) \o c
  OBVIOUS

\* One key keeps it.
LEMMA FeedByteFaithful ==
  ASSUME NEW f, NEW g, NEW n \in Nat, OneMore(f, g, n), NEW t, NEW raw \in Byte,
         g[n + 1] = [byte |-> raw, termios |-> t],
         NEW tk \in Seq(Byte \cup {ReplyByte}), NEW s, StateOK(f, n, tk, s)
  PROVE  StateOK(g, n + 1, tk, feed_byte(s, t, raw))
<1> DEFINE r == feed_byte(s, t, raw)
           b == KeyIn(t, raw)
           given == tk \o s.readable
<1>1. s \in LdiscType /\ Faithful(f, n, given, s.line) /\ CrOK(f, n, s.cr)
  BY DEF StateOK
<1>2. /\ s.line \in Seq(Byte) /\ s.line \in Seq(Byte \cup {ReplyByte})
      /\ s.readable \in Seq(Byte \cup {ReplyByte})
  BY <1>1 DEF LdiscType
<1>3. given \in Seq(Byte \cup {ReplyByte})
  BY <1>2
<1>4. r \in LdiscType
  BY <1>1, FeedByteType
<1>5. CrOK(g, n, s.cr)
  <2>1. n > 0 => g[n] = f[n]
    BY DEF OneMore
  <2> QED BY <1>1, <2>1 DEF CrOK
<1>6. DOMAIN g = 1..(n + 1)
  BY DEF OneMore
<1>7. s.cr = (n > 0 /\ g[n].byte = "cr")
  BY <1>5 DEF CrOK
<1> HIDE DEF r, b
<1>8. /\ Key(g, n + 1) = b
      /\ n + 1 \in Raw(g) <=> ~Drops(s.cr, t, raw) /\ ~Has(t, "ICANON")
      /\ n + 1 \in Erases(g) <=> ~Drops(s.cr, t, raw) /\ Has(t, "ICANON") /\ b = t.verase
      /\ n + 1 \in Kills(g) <=>
           ~Drops(s.cr, t, raw) /\ Has(t, "ICANON") /\ b # t.verase /\ b = t.vkill
      /\ n + 1 \in Ends(g) <=> /\ ~Drops(s.cr, t, raw) /\ Has(t, "ICANON")
                               /\ b \notin {t.verase, t.vkill} /\ b \in {"nl", t.veof}
      /\ n + 1 \in Chars(g) <=> /\ ~Drops(s.cr, t, raw) /\ Has(t, "ICANON")
                                /\ b \notin {t.verase, t.vkill} /\ b # t.veof
  BY <1>6, <1>7, LastKey DEF b
<1>9. /\ b \in Byte
      /\ Drops(s.cr, t, raw) => Shows(r, s.line, s.readable, raw = "cr")
      /\ ~Drops(s.cr, t, raw) /\ ~Has(t, "ICANON") =>
           Shows(r, s.line, s.readable \o <<b>>, raw = "cr")
      /\ ~Drops(s.cr, t, raw) /\ Has(t, "ICANON") =>
           CanonicalIs(r, t, b, s.line, s.readable, raw = "cr")
  BY <1>1, FeedByteIs DEF r, b
<1>10. /\ \A x \in Seq(Byte \cup {ReplyByte}) : tk \o (s.readable \o x) = given \o x
       /\ tk \o s.readable = given
  <2>1. PICK u \in Seq(Byte \cup {ReplyByte}) : u = s.readable
    BY <1>2
  <2>2. \A x \in Seq(Byte \cup {ReplyByte}) : tk \o (u \o x) = (tk \o u) \o x
    BY ConcatAssoc, SMTT(60)
  <2> QED BY <2>1, <2>2
<1> HIDE DEF given
<1>11. SUFFICES r.cr = (raw = "cr") /\ Faithful(g, n + 1, tk \o r.readable, r.line)
  <2>1. n + 1 > 0 /\ g[n + 1].byte = raw
    OBVIOUS
  <2> QED BY <1>4, <2>1 DEF StateOK, CrOK, r
<1>12. CASE Drops(s.cr, t, raw)
  <2>1. Shows(r, s.line, s.readable, raw = "cr")
    BY <1>9, <1>12
  <2>2. Faithful(g, n + 1, given, s.line)
    BY <1>1, <1>2, <1>3, <1>8, <1>12, QuietFaithful
  <2> QED BY <1>10, <2>1, <2>2 DEF Shows
<1>13. CASE ~Drops(s.cr, t, raw) /\ ~Has(t, "ICANON")
  <2>1. Shows(r, s.line, s.readable \o <<b>>, raw = "cr")
    BY <1>9, <1>13
  <2>2. Faithful(g, n + 1, given \o <<b>>, s.line)
    BY <1>1, <1>2, <1>3, <1>8, <1>9, <1>13, RawFaithful
  <2>3. <<b>> \in Seq(Byte \cup {ReplyByte})
    BY <1>9
  <2> QED BY <1>10, <2>1, <2>2, <2>3 DEF Shows
<1>14. CASE ~Drops(s.cr, t, raw) /\ Has(t, "ICANON")
  <2>0. CanonicalIs(r, t, b, s.line, s.readable, raw = "cr")
    BY <1>9, <1>14
  <2>1. CASE b = t.verase
    <3>1. Shows(r, IF s.line = <<>> THEN <<>> ELSE Front(s.line), s.readable, raw = "cr")
      BY <2>0, <2>1 DEF CanonicalIs
    <3>2. n + 1 \in Erases(g)
      BY <1>8, <1>14, <2>1
    <3>3. Faithful(g, n + 1, given, IF s.line = <<>> THEN <<>> ELSE Front(s.line))
      BY <1>1, <1>2, <1>3, <3>2, EraseFaithful
    <3> QED BY <1>10, <3>1, <3>3 DEF Shows
  <2>2. CASE b # t.verase /\ b = t.vkill
    <3>1. Shows(r, <<>>, s.readable, raw = "cr")
      BY <2>0, <2>2 DEF CanonicalIs
    <3>2. n + 1 \in Kills(g)
      BY <1>8, <1>14, <2>2
    <3>3. Faithful(g, n + 1, given, <<>>)
      BY <1>1, <1>2, <1>3, <3>2, KillFaithful
    <3> QED BY <1>10, <3>1, <3>3 DEF Shows
  <2>3. CASE b \notin {t.verase, t.vkill} /\ b = t.veof
    <3>1. Shows(r, <<>>, s.readable \o s.line, raw = "cr")
      BY <2>0, <2>3 DEF CanonicalIs
    <3>2. n + 1 \in Ends(g) /\ n + 1 \notin Chars(g)
      BY <1>8, <1>14, <2>3
    <3>3. Faithful(g, n + 1, given \o s.line, <<>>)
      BY <1>1, <1>2, <1>3, <3>2, EofFaithful
    <3> QED BY <1>2, <1>10, <3>1, <3>3 DEF Shows
  <2>4. CASE b \notin {t.verase, t.vkill, t.veof} /\ b = "nl"
    <3>1. Shows(r, <<>>, s.readable \o Append(s.line, b), raw = "cr")
      BY <2>0, <2>4 DEF CanonicalIs
    <3>2. n + 1 \in Ends(g) /\ n + 1 \in Chars(g)
      BY <1>8, <1>14, <2>4
    <3>3. Faithful(g, n + 1, given \o Append(s.line, b), <<>>)
      BY <1>1, <1>2, <1>3, <1>8, <1>9, <3>2, NlFaithful
    <3>4. Append(s.line, b) \in Seq(Byte \cup {ReplyByte})
      BY <1>2, <1>9
    <3> QED BY <1>10, <3>1, <3>3, <3>4 DEF Shows
  <2>5. CASE b \notin {t.verase, t.vkill, t.veof} /\ b # "nl"
    <3>1. Shows(r, Append(s.line, b), s.readable, raw = "cr")
      BY <2>0, <2>5 DEF CanonicalIs
    <3>2. n + 1 \in Chars(g) /\ n + 1 \notin Ends(g)
      BY <1>8, <1>14, <2>5
    <3>3. Faithful(g, n + 1, given, Append(s.line, b))
      BY <1>1, <1>2, <1>3, <1>8, <3>2, CharFaithful
    <3> QED BY <1>10, <3>1, <3>3 DEF Shows
  <2> QED BY <2>1, <2>2, <2>3, <2>4, <2>5
<1> QED BY <1>12, <1>13, <1>14

\* A chunk of keys keeps it: all is what was fed before and the chunk.
LEMMA FeedInputFaithful ==
  ASSUME NEW f \in FedType, NEW t \in TermiosType, NEW input \in Seq(Byte),
         NEW tk \in Seq(Byte \cup {ReplyByte}), NEW s, StateOK(f, Len(f), tk, s)
  PROVE  LET all == f \o [i \in DOMAIN input |-> [byte |-> input[i], termios |-> t]]
         IN StateOK(all, Len(all), tk, feed_input(s, t, input))
<1> DEFINE n == Len(f)
           m == Len(input)
           new == [i \in DOMAIN input |-> [byte |-> input[i], termios |-> t]]
           all == f \o new
           F(i) == [j \in 1..(n + i) |-> all[j]]
<1>1. /\ n \in Nat /\ m \in Nat /\ DOMAIN input = 1..m /\ DOMAIN f = 1..n
      /\ \A i \in 1..m : input[i] \in Byte
  BY DEF FedType
<1>2. new \in Seq([byte : Byte, termios : TermiosType]) /\ Len(new) = m
  <2>1. new = [i \in 1..m |-> [byte |-> input[i], termios |-> t]]
    BY <1>1
  <2>2. \A i \in 1..m :
          [byte |-> input[i], termios |-> t] \in [byte : Byte, termios : TermiosType]
    BY <1>1
  <2> HIDE DEF m
  <2> QED BY <1>1, <2>1, <2>2
<1>3. /\ \A i \in 1..m : new[i] = [byte |-> input[i], termios |-> t]
  BY <1>1
<1> HIDE DEF new
<1>4. all \in FedType /\ Len(all) = n + m /\ DOMAIN all = 1..(n + m)
  <2>1. \A a, b \in FedType : a \o b \in FedType /\ Len(a \o b) = Len(a) + Len(b)
    BY ConcatType DEF FedType
  <2>2. new \in FedType
    BY <1>2 DEF FedType
  <2>3. all \in FedType /\ Len(all) = n + m
    BY <1>2, <2>1, <2>2
  <2> HIDE DEF all
  <2> QED BY <2>3 DEF FedType
<1>5. /\ \A j \in 1..n : all[j] = f[j]
      /\ \A i \in 1..m : all[n + i] = [byte |-> input[i], termios |-> t]
  <2>1. \A j \in 1..n : all[j] = f[j]
    BY <1>1, <1>2 DEF FedType
  <2>2. \A i \in 1..m : all[n + i] = new[i]
    BY <1>1, <1>2 DEF FedType
  <2> QED BY <1>3, <2>1, <2>2
<1>6. f = [j \in 1..n |-> f[j]] /\ all = [j \in 1..(n + m) |-> all[j]]
  <2>1. \A x \in FedType : x = [j \in DOMAIN x |-> x[j]]
    BY DEF FedType
  <2> HIDE DEF all
  <2>2. f = [j \in DOMAIN f |-> f[j]] /\ all = [j \in DOMAIN all |-> all[j]]
    BY <1>4, <2>1
  <2> QED BY <1>1, <1>4, <2>2
<1> HIDE DEF n, m, all
<1>7. F(0) = f /\ F(m) = all
  <2>1. n + 0 = n
    BY <1>1
  <2> QED BY <1>5, <1>6, <2>1
<1>8. PICK h : FeedRun(h, s, t, input, m) /\ feed_input(s, t, input) = h[m]
  BY <1>1, FeedSteps
<1> DEFINE T == {i \in 0..m : StateOK(F(i), n + i, tk, h[i])}
<1>9. 0 \in T
  <2>1. n + 0 = n /\ h[0] = s
    BY <1>1, <1>8 DEF FeedRun
  <2>2. StateOK(F(0), n + 0, tk, h[0])
    <3> HIDE DEF F
    <3> QED BY <1>7, <2>1 DEF n
  <2> QED BY <1>1, <2>2
<1>10. ASSUME NEW i \in 1..m, i - 1 \in T PROVE i \in T
  <2>1. PICK k \in Nat : k = n + (i - 1) /\ k + 1 = n + i
    BY <1>1
  <2>2. StateOK(F(i - 1), k, tk, h[i - 1])
    BY <1>10, <2>1
  <2>3. OneMore(F(i - 1), F(i), k)
    BY <1>1, <2>1 DEF OneMore
  <2>4. F(i)[k + 1] = [byte |-> input[i], termios |-> t]
    BY <1>1, <1>5, <2>1
  <2>5. h[i] = feed_byte(h[i - 1], t, input[i]) /\ input[i] \in Byte
    BY <1>1, <1>8 DEF FeedRun
  <2> HIDE DEF F
  <2>6. StateOK(F(i), k + 1, tk, feed_byte(h[i - 1], t, input[i]))
    BY <2>2, <2>3, <2>4, <2>5, FeedByteFaithful
  <2> QED BY <1>10, <2>1, <2>5, <2>6
<1>11. \A i \in 0..m : i \in T
  <2> HIDE DEF T
  <2> QED BY <1>1, <1>9, <1>10, UpTo
<1>12. StateOK(F(m), n + m, tk, h[m])
  BY <1>1, <1>11
<1>13. StateOK(all, n + m, tk, h[m])
  <2> HIDE DEF F
  <2> QED BY <1>7, <1>12
<1>14. StateOK(all, Len(all), tk, feed_input(s, t, input))
  BY <1>4, <1>8, <1>13
<1> QED BY <1>14 DEF all, new

\* What an output may do to the line discipline: put replies behind what is readable.
Replied(s, r) ==
  /\ r \in LdiscType /\ r.line = s.line /\ r.cr = s.cr
  /\ \E add \in Seq({ReplyByte}) : r.readable = s.readable \o add

\* The parser on one byte does no more.
LEMMA AdvanceReplies ==
  ASSUME NEW s \in LdiscType, NEW r, Replied(s, r), NEW b
  PROVE  Replied(s, Advance(r, b))
<1>1. r \in LdiscType /\ r.line = s.line /\ r.cr = s.cr
  BY DEF Replied
<1>2. PICK add \in Seq({ReplyByte}) : r.readable = s.readable \o add
  BY DEF Replied
<1> DEFINE two == <<ReplyByte, ReplyByte>>
           more == r.readable \o two
<1>3. respond([r EXCEPT !.csi = FALSE]) = [r EXCEPT !.csi = FALSE, !.readable = more]
  BY <1>1 DEF respond, LdiscType
<1>4. two \in Seq({ReplyByte})
  OBVIOUS
<1> HIDE DEF two
<1>5. more = s.readable \o (add \o two) /\ add \o two \in Seq({ReplyByte})
  <2>1. /\ s.readable \in Seq(Byte \cup {ReplyByte}) /\ add \in Seq(Byte \cup {ReplyByte})
        /\ two \in Seq(Byte \cup {ReplyByte})
    BY <1>2, <1>4 DEF LdiscType
  <2>2. s.readable \o (add \o two) = (s.readable \o add) \o two
    <3>1. PICK u \in Seq(Byte \cup {ReplyByte}) : u = s.readable
      BY <2>1
    <3>2. u \o (add \o two) = (u \o add) \o two
      BY <2>1, ConcatAssoc
    <3> QED BY <3>1, <3>2
  <2>3. add \o two \in Seq({ReplyByte})
    BY <1>2, <1>4, ConcatType
  <2> QED BY <1>2, <2>2, <2>3
<1> HIDE DEF more
<1>6. Advance(r, b) \in {r, [r EXCEPT !.csi = TRUE], [r EXCEPT !.csi = FALSE],
                        [r EXCEPT !.csi = FALSE, !.readable = more]}
  BY <1>3 DEF Advance
<1>7. \A x \in {r, [r EXCEPT !.csi = TRUE], [r EXCEPT !.csi = FALSE],
               [r EXCEPT !.csi = FALSE, !.readable = more]} :
        x.line = r.line /\ x.cr = r.cr /\ (x.readable = r.readable \/ x.readable = more)
  BY <1>1 DEF LdiscType
<1>8. PICK x : x = Advance(r, b)
  OBVIOUS
<1>9. x.line = s.line /\ x.cr = s.cr /\ (x.readable = r.readable \/ x.readable = more)
  BY <1>1, <1>6, <1>7, <1>8
<1>10. x \in LdiscType
  BY <1>1, <1>8, AdvanceKeeps
<1>11. \E new \in Seq({ReplyByte}) : x.readable = s.readable \o new
  BY <1>2, <1>5, <1>9
<1> QED BY <1>8, <1>9, <1>10, <1>11 DEF Replied

\* Nor does a whole output.
LEMMA OutputReplies ==
  ASSUME NEW s \in LdiscType, NEW S, NEW tx \in Seq(S)
  PROVE  Replied(s, process_output(s, tx))
<1> DEFINE n == Len(tx)
<1>1. n \in Nat /\ DOMAIN tx = 1..n
  OBVIOUS
<1> HIDE DEF n
<1>2. PICK h : OutRun(h, s, tx, n) /\ process_output(s, tx) = h[n]
  BY <1>1, OutputSteps
<1> DEFINE T == {i \in 0..n : Replied(s, h[i])}
<1>3. 0 \in T
  <2>1. h[0] = s
    BY <1>2 DEF OutRun
  <2>2. <<>> \in Seq({ReplyByte}) /\ s.readable = s.readable \o <<>>
    BY DEF LdiscType
  <2>3. Replied(s, s)
    BY <2>2 DEF Replied
  <2> QED BY <1>1, <2>1, <2>3
<1>4. ASSUME NEW i \in 1..n, i - 1 \in T PROVE i \in T
  <2>1. Replied(s, h[i - 1]) /\ h[i] = Advance(h[i - 1], tx[i])
    BY <1>2, <1>4 DEF OutRun
  <2>2. Replied(s, h[i])
    BY <2>1, AdvanceReplies
  <2> QED BY <1>4, <2>2
<1>5. \A i \in 0..n : i \in T
  <2> HIDE DEF T
  <2> QED BY <1>1, <1>3, <1>4, UpTo
<1> QED BY <1>1, <1>2, <1>5

\* TtyDevice::write keeps what was given out and the line.
LEMMA WriteFaithful ==
  ASSUME NEW f, NEW n, NEW t, NEW bytes \in Seq(OutByte),
         NEW tk \in Seq(Byte \cup {ReplyByte}), NEW s, StateOK(f, n, tk, s)
  PROVE  StateOK(f, n, tk, write(s, t, bytes).state)
<1> DEFINE tx == tty_output_transform(t, bytes)
           r == write(s, t, bytes).state
<1>1. tx \in Seq(OutByte)
  BY TransformType
<1>2. r = process_output(s, tx)
  BY DEF write
<1>3. s \in LdiscType /\ Faithful(f, n, tk \o s.readable, s.line) /\ CrOK(f, n, s.cr)
  BY DEF StateOK
<1> HIDE DEF tx
<1>4. Replied(s, r)
  BY <1>1, <1>2, <1>3, OutputReplies
<1> HIDE DEF r
<1>5. r \in LdiscType /\ r.line = s.line /\ r.cr = s.cr
  BY <1>4 DEF Replied
<1>6. PICK add \in Seq({ReplyByte}) : r.readable = s.readable \o add
  BY <1>4 DEF Replied
<1>7. /\ s.readable \in Seq(Byte \cup {ReplyByte}) /\ add \in Seq(Byte \cup {ReplyByte})
      /\ tk \o s.readable \in Seq(Byte \cup {ReplyByte})
  BY <1>3, <1>6 DEF LdiscType
<1>8. tk \o r.readable = (tk \o s.readable) \o add
  <2>1. PICK u \in Seq(Byte \cup {ReplyByte}) : u = s.readable
    BY <1>7
  <2>2. tk \o (u \o add) = (tk \o u) \o add
    BY <1>7, ConcatAssoc, SMTT(60)
  <2> QED BY <1>6, <2>1, <2>2
<1>9. PICK o : GivenOK(f, tk \o s.readable, o)
  BY <1>3 DEF Faithful
<1>10. GivenOK(f, (tk \o s.readable) \o add, o)
  BY <1>6, <1>7, <1>9, RepliesApart
<1>11. Faithful(f, n, tk \o r.readable, r.line)
  BY <1>3, <1>5, <1>8, <1>10 DEF Faithful
<1> QED BY <1>3, <1>5, <1>11 DEF StateOK, r

(***************************************************************************)
(* The steps                                                               *)
(***************************************************************************)
\* What InputFaithful needs to be inductive: the counts of Balanced, and the flag.
FaithInv ==
  /\ taken \in Seq(Byte \cup {ReplyByte})
  /\ Faithful(fed, Len(fed), taken \o readable_buf, canonical_line_buf)
  /\ CrOK(fed, Len(fed), last_was_cr)

\* Nothing typed, nothing given out.
LEMMA FaithInit == Init => FaithInv
<1> SUFFICES ASSUME Init PROVE FaithInv
  OBVIOUS
<1>1. /\ fed = <<>> /\ taken = <<>> /\ readable_buf = <<>> /\ canonical_line_buf = <<>>
      /\ last_was_cr = FALSE
  BY DEF Init
<1>2. /\ Len(<<>>) = 0 /\ DOMAIN <<>> = {} /\ <<>> \o <<>> = <<>> /\ 1..0 = {}
      /\ <<>> \in Seq(Byte \cup {ReplyByte}) /\ DOMAIN <<>> = 1..0
  OBVIOUS
<1>3. Within(<<>>, 0)
  BY <1>2, ClassesWithin
<1>4. Raw(<<>>) = {} /\ Kept(<<>>) = {}
  BY <1>2, <1>3, KeptIs DEF Within
<1>5. HeldOf(<<>>) = {} /\ ReleasedOf(<<>>) = {}
  BY <1>4 DEF HeldOf, Held, ReleasedOf
<1>6. TypedAt(<<>>) = {}
  BY <1>2 DEF TypedAt
<1>7. GivenOK(<<>>, <<>>, [a \in {} |-> a])
  BY <1>5, <1>6 DEF GivenOK, Spells, InTime
<1>8. \E p : LineOK(<<>>, 0, <<>>, p)
  BY <1>5, LineEmpty
<1>9. CrOK(<<>>, 0, FALSE)
  BY DEF CrOK
<1> QED BY <1>1, <1>2, <1>7, <1>8, <1>9 DEF FaithInv, Faithful

\* What a call of the driver starts from.
LEMMA FaithState == Buffers /\ FaithInv => StateOK(fed, Len(fed), taken, Ldisc)
<1> SUFFICES ASSUME Buffers, FaithInv PROVE StateOK(fed, Len(fed), taken, Ldisc)
  OBVIOUS
<1>1. /\ Ldisc.readable = readable_buf /\ Ldisc.line = canonical_line_buf
      /\ Ldisc.cr = last_was_cr
  BY DEF Ldisc
<1>2. Ldisc \in LdiscType
  BY LdiscHasType
<1> HIDE DEF Ldisc
<1> QED BY <1>1, <1>2 DEF StateOK, FaithInv

\* What it stores.
LEMMA FaithStored ==
  ASSUME FaithInv, NEW s, StateOK(fed', Len(fed'), taken, s), Store(s), taken' = taken
  PROVE  FaithInv'
<1>1. readable_buf' = s.readable /\ canonical_line_buf' = s.line /\ last_was_cr' = s.cr
  BY DEF Store
<1>2. Faithful(fed', Len(fed'), taken \o s.readable, s.line) /\ CrOK(fed', Len(fed'), s.cr)
  BY DEF StateOK
<1> QED BY <1>1, <1>2 DEF FaithInv

\* A step that leaves the driver alone.
LEMMA FaithQuiet ==
  ASSUME FaithInv, UNCHANGED <<ldisc, taken>>
  PROVE  FaithInv'
  BY DEF FaithInv, ldisc

\* A chunk of what was typed is fed, and its echo written.
LEMMA FaithFed ==
  ASSUME TtyInv, FaithInv, NEW input \in prism_stream_read, FeedFromHost(input), taken' = taken
  PROVE  FaithInv'
<1>0. Buffers /\ termios \in TermiosType /\ fed \in FedType /\ host_in \in Seq(Byte)
  BY InvParts, TermiosHasType DEF HostInv
<1>1. input \in Seq(Byte)
  <2>1. PICK n \in 1..(IF Len(host_in) < HostChunk THEN Len(host_in) ELSE HostChunk) :
          input = SubSeq(host_in, 1, n)
    BY DEF prism_stream_read
  <2>2. n \in 1..Len(host_in)
    BY <1>0, BoundAssumption
  <2> QED BY <1>0, <2>1, <2>2
<1> DEFINE s == feed_input(Ldisc, termios, input)
           new == [i \in DOMAIN input |-> [byte |-> input[i], termios |-> termios]]
<1>2. fed' = fed \o new
  BY DEF FeedFromHost
<1>3. taken \in Seq(Byte \cup {ReplyByte})
  BY DEF FaithInv
<1>4. StateOK(fed, Len(fed), taken, Ldisc)
  BY <1>0, FaithState
<1>5. StateOK(fed', Len(fed'), taken, s)
  BY <1>0, <1>1, <1>2, <1>3, <1>4, FeedInputFaithful
<1>6. Fed(input) = write(s, termios, s.echo)
  BY DEF Fed
<1> HIDE DEF s
<1>7. s.echo \in Seq(OutByte)
  BY <1>5 DEF StateOK, LdiscType
<1>8. StateOK(fed', Len(fed'), taken, Fed(input).state)
  BY <1>3, <1>5, <1>6, <1>7, WriteFaithful
<1>9. Store(Fed(input).state)
  BY DEF FeedFromHost
<1> QED BY <1>8, <1>9, FaithStored

\* A sequence is its first n elements and the rest.
LEMMA SplitSeq ==
  ASSUME NEW S, NEW u \in Seq(S), NEW n \in 0..Len(u)
  PROVE  u = SubSeq(u, 1, n) \o SubSeq(u, n + 1, Len(u))
<1>1. PICK a, b : a = SubSeq(u, 1, n) /\ b = SubSeq(u, n + 1, Len(u))
  OBVIOUS
<1>2. /\ a \in Seq(S) /\ Len(a) = n /\ \A k \in 1..n : a[k] = u[k]
  BY <1>1
<1>3. b \in Seq(S) /\ Len(b) = Len(u) - n /\ \A k \in 1..(Len(u) - n) : b[k] = u[n + k]
  BY <1>1
<1>4. a \o b \in Seq(S) /\ Len(a \o b) = Len(u)
  BY <1>2, <1>3
<1>5. ASSUME NEW k \in 1..Len(u) PROVE (a \o b)[k] = u[k]
  <2>1. CASE k <= n
    BY <1>2, <1>3, <2>1
  <2>2. CASE k > n
    <3>1. k - n \in 1..(Len(u) - n) /\ n + (k - n) = k
      BY <2>2
    <3>2. (a \o b)[k] = b[k - n]
      BY <1>2, <1>3, <2>2
    <3>3. PICK j \in 1..(Len(u) - n) : j = k - n /\ n + j = k
      BY <3>1
    <3>4. b[j] = u[n + j]
      BY <1>3
    <3> QED BY <3>2, <3>3, <3>4
  <2>3. k <= n \/ k > n
    OBVIOUS
  <2> QED BY <2>1, <2>2, <2>3, Zenon
<1>6. PICK c : c = a \o b
  OBVIOUS
<1>7. c \in Seq(S) /\ Len(c) = Len(u) /\ \A k \in 1..Len(u) : c[k] = u[k]
  BY <1>4, <1>5, <1>6
<1>8. c = u
  BY <1>7
<1> QED BY <1>1, <1>6, <1>8

\* A chunk is read: what goes from what is readable has been given out.
LEMMA FaithReadChunk == TtyInv /\ FaithInv /\ ReadChunk => FaithInv'
<1> SUFFICES ASSUME TtyInv, FaithInv, ReadChunk PROVE FaithInv'
  OBVIOUS
<1> DEFINE chunk == IF Head(want) < RwChunk THEN Head(want) ELSE RwChunk
           ready == take_readable(readable_buf, termios, chunk)
           n == Len(ready)
<1>1. /\ phase = "read" /\ taken' = taken \o ready
      /\ readable_buf' = SubSeq(readable_buf, n + 1, Len(readable_buf))
  BY DEF ReadChunk
<1>2. UNCHANGED <<canonical_line_buf, last_was_cr, fed>>
  BY DEF ReadChunk
<1>3. chunk \in Nat
  <2>1. want \in Seq(Nat) /\ want # <<>>
    BY <1>1, InvParts DEF CallInv
  <2> QED BY <2>1, BoundAssumption
<1> HIDE DEF chunk
<1>4. readable_buf \in Seq(Byte \cup {ReplyByte}) /\ Len(readable_buf) \in Nat
  BY InvParts DEF Buffers
<1>5. n \in Nat /\ n <= Len(readable_buf) /\ ready = SubSeq(readable_buf, 1, n)
  <2> DEFINE m == IF Len(readable_buf) < chunk THEN Len(readable_buf) ELSE chunk
  <2>1. m \in Nat /\ m <= Len(readable_buf)
    BY <1>3, <1>4
  <2>2. ready = SubSeq(readable_buf, 1, m) \/ ready = <<>>
    BY DEF take_readable
  <2> HIDE DEF m, ready
  <2>3. /\ \A k \in Nat : k <= Len(readable_buf) => Len(SubSeq(readable_buf, 1, k)) = k
        /\ SubSeq(readable_buf, 1, 0) = <<>> /\ Len(<<>>) = 0
    BY <1>4
  <2>4. CASE ready = SubSeq(readable_buf, 1, m)
    BY <2>1, <2>3, <2>4
  <2>5. CASE ready = <<>>
    BY <1>4, <2>3, <2>5
  <2> QED BY <2>2, <2>4, <2>5
<1> HIDE DEF n, ready
<1>6. taken \in Seq(Byte \cup {ReplyByte})
  BY DEF FaithInv
<1>7. PICK left2 : left2 = SubSeq(readable_buf, n + 1, Len(readable_buf))
  OBVIOUS
<1>8. ready \in Seq(Byte \cup {ReplyByte}) /\ left2 \in Seq(Byte \cup {ReplyByte})
  BY <1>4, <1>5, <1>7
<1>9. readable_buf = ready \o left2
  <2>1. PICK u \in Seq(Byte \cup {ReplyByte}) : u = readable_buf
    BY <1>4
  <2>2. n \in 0..Len(u)
    BY <1>5, <2>1
  <2>3. u = SubSeq(u, 1, n) \o SubSeq(u, n + 1, Len(u))
    BY <2>2, SplitSeq
  <2> QED BY <1>5, <1>7, <2>1, <2>3
<1>10. taken \o readable_buf = (taken \o ready) \o left2
  <2>1. taken \o (ready \o left2) = (taken \o ready) \o left2
    BY <1>6, <1>8, ConcatAssoc
  <2> QED BY <1>9, <2>1
<1>11. taken' \o readable_buf' = taken \o readable_buf
  BY <1>1, <1>7, <1>10
<1>12. taken' \in Seq(Byte \cup {ReplyByte})
  BY <1>1, <1>6, <1>8
<1> QED BY <1>2, <1>11, <1>12 DEF FaithInv

\* A chunk is written.
LEMMA FaithWriteChunk == TtyInv /\ FaithInv /\ WriteChunk => FaithInv'
<1> SUFFICES ASSUME TtyInv, FaithInv, WriteChunk PROVE FaithInv'
  OBVIOUS
<1> DEFINE n == IF Len(Head(out)) < RwChunk THEN Len(Head(out)) ELSE RwChunk
           bytes == SubSeq(Head(out), 1, n)
           w == write(Ldisc, termios, bytes)
<1>1. phase = "write" /\ fed' = fed /\ taken' = taken
  BY DEF WriteChunk, ldisc
<1>2. Store(w.state) \/ UNCHANGED ldisc
  BY DEF WriteChunk
<1>3. bytes \in Seq(OutByte)
  <2>1. out \in Seq(Seq(Byte)) /\ out # <<>>
    BY <1>1, InvParts DEF CallInv
  <2>2. Head(out) \in Seq(Byte)
    BY <2>1
  <2>3. n \in Nat /\ n <= Len(Head(out))
    BY <2>2, BoundAssumption
  <2> HIDE DEF n
  <2>4. bytes \in Seq(Byte)
    BY <2>2, <2>3
  <2> QED BY <2>4 DEF OutByte
<1>4. StateOK(fed, Len(fed), taken, Ldisc) /\ taken \in Seq(Byte \cup {ReplyByte})
  BY InvParts, FaithState DEF FaithInv
<1> HIDE DEF bytes
<1>5. StateOK(fed, Len(fed), taken, w.state)
  BY <1>3, <1>4, WriteFaithful
<1> HIDE DEF w
<1>6. CASE Store(w.state)
  BY <1>1, <1>5, <1>6, FaithStored
<1>7. CASE UNCHANGED ldisc
  BY <1>1, <1>7, FaithQuiet
<1> QED BY <1>2, <1>6, <1>7

\* Every step.
LEMMA FaithStep == TtyInv /\ FaithInv /\ [Next]_vars => FaithInv'
<1> SUFFICES ASSUME TtyInv, FaithInv, [Next]_vars PROVE FaithInv'
  OBVIOUS
<1>1. CASE \/ Type \/ SysRead \/ SysWrite \/ Tcsets \/ SysPpoll
           \/ ReadFails \/ PollFails \/ UNCHANGED vars
  <2>1. UNCHANGED <<ldisc, taken>>
    BY <1>1 DEF Type, SysRead, SysWrite, Tcsets, SysPpoll, ReadFails, PollFails, vars
  <2> QED BY <2>1, FaithQuiet
<1>2. CASE ReadChunk
  BY <1>2, FaithReadChunk
<1>3. CASE ReadFetches
  <2>1. taken' = taken /\ \E input \in prism_stream_read : FeedFromHost(input)
    BY <1>3 DEF ReadFetches
  <2> QED BY <2>1, FaithFed
<1>4. CASE WriteChunk
  BY <1>4, FaithWriteChunk
<1>5. CASE PollScan
  <2>1. taken' = taken
    BY <1>5 DEF PollScan
  <2>2. \/ \E input \in prism_stream_read : FeedFromHost(input)
        \/ UNCHANGED <<ldisc, host_in>>
    BY <1>5 DEF PollScan, PollFetches
  <2>3. CASE UNCHANGED <<ldisc, host_in>>
    BY <2>1, <2>3, FaithQuiet
  <2>4. CASE \E input \in prism_stream_read : FeedFromHost(input)
    BY <2>1, <2>4, FaithFed
  <2> QED BY <2>2, <2>3, <2>4
<1> QED BY <1>1, <1>2, <1>3, <1>4, <1>5 DEF Next, Dispatcher

\* In every run, whatever the keyboard sends, however it is cut into chunks, in
\* whatever modes and whichever keys these give for editing: the typed bytes given
\* out and ready are the characters not taken back, in order, each from the moment
\* its line ends or at once, and the line holds the others (feed_input, take_readable).
THEOREM InputIsFaithful == Spec => []InputFaithful
<1>1. FaithInv => InputFaithful
  <2> SUFFICES ASSUME FaithInv PROVE InputFaithful
    OBVIOUS
  <2>1. PICK o : GivenOK(fed, taken \o readable_buf, o)
    BY DEF FaithInv, Faithful
  <2>2. PICK p : LineOK(fed, Len(fed), canonical_line_buf, p)
    BY DEF FaithInv, Faithful
  <2>3. Spelt(fed, canonical_line_buf, HeldOf(fed), p)
    BY <2>2 DEF LineOK
  <2> QED BY <2>1, <2>3 DEF InputFaithful, GivenOK, Spelt, HeldOf, ReleasedOf
<1> QED BY <1>1, FaithInit, FaithStep, TtyInvariant, PTL DEF Spec
=============================================================================
