----------------------------- MODULE OpenFiles -----------------------------
(***************************************************************************)
(* What descriptors promise, with no endpoint slots, counters, recorded    *)
(* paths or regions: a descriptor refers to a file from the call of its    *)
(* process that made it until a call of its process closes or replaces it, *)
(* whatever other processes close; a pipe keeps its bytes as long as some  *)
(* process has a descriptor for one of its ends and not longer; and it can *)
(* be written as long as somebody can read it.                             *)
(*                                                                         *)
(* Once the last number has been taken (exhausted), an open may replace a  *)
(* descriptor, and a pipe nobody has a descriptor for may live on.         *)
(***************************************************************************)
EXTENDS Naturals

CONSTANTS MaxPid, Last, Name, Nothing, MaxPipe, Capacity

Process == 1..MaxPid
Number == 0..Last
Pipe == 1..MaxPipe

VARIABLES
  live,        \* the processes
  refers,      \* Process -> Number -> the file, or Nothing
  bytes,       \* Pipe -> how much is in it
  exhausted    \* somebody's numbers went out

vars == <<live, refers, bytes, exhausted>>

ReadEnd(i) == <<i, "r">>
WriteEnd(i) == <<i, "w">>

Held(file) == \E p \in Process, f \in Number : refers[p][f] = file
InUse(i) == Held(ReadEnd(i)) \/ Held(WriteEnd(i))

Init ==
  /\ live = {1}
  /\ \E std \in SUBSET Number, tty \in Name :
       refers = [p \in Process |-> [f \in Number |->
                   IF p = 1 /\ f \in std THEN tty ELSE Nothing]]
  /\ bytes = [i \in Pipe |-> 0]
  /\ exhausted = FALSE

\* The number f has been taken.
Take(f) == exhausted' = (exhausted \/ f = Last)

\* A pipe goes with the last descriptor for it.
Drop ==
  \E kept \in SUBSET Pipe :
    /\ \A i \in Pipe : InUse(i)' => i \in kept
    /\ exhausted' \/ \A i \in kept : InUse(i)'
    /\ bytes' = [i \in Pipe |-> IF i \in kept THEN bytes[i] ELSE 0]

\* The table of p after its descriptors F are gone.
Without(p, F) ==
  [refers EXCEPT ![p] = [f \in Number |-> IF f \in F THEN Nothing ELSE refers[p][f]]]

Close(p) ==
  /\ \E F \in SUBSET Number : refers' = Without(p, F)
  /\ Drop
  /\ UNCHANGED <<live, exhausted>>

Exit(p) ==
  /\ p # 1
  /\ live' = live \ {p}
  /\ refers' = Without(p, Number)
  /\ Drop
  /\ UNCHANGED exhausted

Open(p, f, file) ==
  /\ refers[p][f] = Nothing \/ exhausted
  /\ refers' = [refers EXCEPT ![p][f] = file]
  /\ Take(f)
  /\ UNCHANGED <<live, bytes>>

\* dup and dup3: g refers to the file of f, and no longer to its own.
Copy(p, f, g) ==
  /\ refers[p][f] # Nothing
  /\ refers' = [refers EXCEPT ![p][g] = refers[p][f]]
  /\ Take(g)
  /\ Drop
  /\ UNCHANGED live

\* A new pipe has never been used.
MakePipe(p, i, f, g) ==
  /\ ~InUse(i) /\ bytes[i] = 0
  /\ f # g /\ refers[p][f] = Nothing /\ refers[p][g] = Nothing
  /\ refers' = [refers EXCEPT ![p][f] = ReadEnd(i), ![p][g] = WriteEnd(i)]
  /\ Take(g)
  /\ UNCHANGED <<live, bytes>>

\* A call finds that there are no numbers left, or fails with the last one.
Exhaust ==
  /\ exhausted' = TRUE
  /\ UNCHANGED <<live, refers, bytes>>

Fork(p, c) ==
  /\ c \notin live
  /\ live' = live \cup {c}
  /\ refers' = refers \/ refers' = [refers EXCEPT ![c] = refers[p]]
  /\ UNCHANGED <<bytes, exhausted>>

Read(p, i) ==
  /\ \E f \in Number : refers[p][f] = ReadEnd(i)
  /\ \E n \in 1..bytes[i] : bytes' = [bytes EXCEPT ![i] = @ - n]
  /\ UNCHANGED <<live, refers, exhausted>>

Write(p, i) ==
  /\ \E f \in Number : refers[p][f] = WriteEnd(i)
  /\ Held(ReadEnd(i)) \/ exhausted
  /\ \E n \in 1..(Capacity - bytes[i]) : bytes' = [bytes EXCEPT ![i] = @ + n]
  /\ UNCHANGED <<live, refers, exhausted>>

Next == \E p \in live :
  \/ Close(p) \/ Exit(p) \/ Exhaust
  \/ \E c \in Process : Fork(p, c)
  \/ \E f \in Number :
       \/ \E file \in Name : Open(p, f, file)
       \/ \E g \in Number : Copy(p, f, g) \/ \E i \in Pipe : MakePipe(p, i, f, g)
  \/ \E i \in Pipe : Read(p, i) \/ Write(p, i)

Spec == Init /\ [][Next]_vars
=============================================================================
