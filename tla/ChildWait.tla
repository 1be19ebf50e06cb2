----------------------------- MODULE ChildWait -----------------------------
(***************************************************************************)
(* What wait4 promises about exits, with no queue, request, signal or      *)
(* reply slot: every process is born once, exits at most once, and its     *)
(* exit is reported at most once, to its parent.  A process that sleeps in *)
(* wait4 always has a living child, and is woken only by a child's exit.   *)
(***************************************************************************)
EXTENDS Naturals

CONSTANT MaxPid

Process == 1..MaxPid
Life == {"unborn", "alive", "zombie", "reported"}

VARIABLES
  life,      \* Process -> Life
  parent,    \* Process -> Process, or 0
  asleep     \* processes blocked in wait4

vars == <<life, parent, asleep>>

LivingChild(p) == \E c \in Process : life[c] = "alive" /\ parent[c] = p

Init ==
  /\ life = [p \in Process |-> IF p = 1 THEN "alive" ELSE "unborn"]
  /\ parent = [p \in Process |-> 0]
  /\ asleep = {}

Birth(p, c) ==
  /\ life[p] = "alive" /\ p \notin asleep /\ life[c] = "unborn"
  /\ life' = [life EXCEPT ![c] = "alive"]
  /\ parent' = [parent EXCEPT ![c] = p]
  /\ UNCHANGED asleep

\* A parent that sleeps may be told of the exit at once, and must be woken by it
\* if no child of its is left alive.
Exit(c) ==
  /\ life[c] = "alive"
  /\ \/ /\ life' = [life EXCEPT ![c] = "zombie"]
        /\ \/ asleep' = asleep \ {c}
           \/ asleep' = asleep \ {c, parent[c]}
     \/ /\ parent[c] \in asleep
        /\ life' = [life EXCEPT ![c] = "reported"]
        /\ asleep' = asleep \ {c, parent[c]}
  /\ parent[c] \in asleep' => LivingChild(parent[c])'
  /\ UNCHANGED parent

\* wait4 finds an exited child.
Report(p, c) ==
  /\ life[p] = "alive" /\ p \notin asleep
  /\ life[c] = "zombie" /\ parent[c] = p
  /\ life' = [life EXCEPT ![c] = "reported"]
  /\ UNCHANGED <<parent, asleep>>

Sleep(p) ==
  /\ life[p] = "alive" /\ p \notin asleep /\ LivingChild(p)
  /\ asleep' = asleep \cup {p}
  /\ UNCHANGED <<life, parent>>

Next == \E p \in Process :
  Exit(p) \/ Sleep(p) \/ \E c \in Process : Birth(p, c) \/ Report(p, c)

Spec == Init /\ [][Next]_vars
=============================================================================
