---------------------------- MODULE ChildEvents ----------------------------
(***************************************************************************)
(* The queue of child state changes that wait4 consumes (ape/state.rs).    *)
(* An event is [child, pgid, kind]; a wait request is                      *)
(* [target, options, pgid], pgid being the caller's process group when it  *)
(* made the call.  The wait status a queue entry carries is left out: it   *)
(* is handed to the caller and no decision reads it.                       *)
(***************************************************************************)
EXTENDS Integers, Sequences

Kinds == {"Exited", "Stopped", "Continued"}

\* Selection of children by the pid argument of wait4.
matches_wait_target(child, pgid, req) ==
  \/ req.target = -1
  \/ req.target > 0 /\ child = req.target
  \/ req.target = 0 /\ pgid = req.pgid
  \/ req.target < -1 /\ pgid = -req.target

\* Exits are always waitable, stops and continues only on request.
event_kind_enabled(kind, options) ==
  \/ kind = "Exited"
  \/ kind = "Stopped" /\ "WUNTRACED" \in options
  \/ kind = "Continued" /\ "WCONTINUED" \in options

EventMatches(e, req) ==
  /\ event_kind_enabled(e.kind, req.options)
  /\ matches_wait_target(e.child, e.pgid, req)

has_child_event_matching(queue, req) ==
  \E i \in DOMAIN queue : EventMatches(queue[i], req)

\* The position pop_child_event_matching takes: the oldest matching event.
IsOldestMatch(queue, req, i) ==
  /\ i \in DOMAIN queue
  /\ EventMatches(queue[i], req)
  /\ \A j \in 1..(i - 1) : ~EventMatches(queue[j], req)

OldestMatch(queue, req) == CHOOSE i \in DOMAIN queue : IsOldestMatch(queue, req, i)

\* Mutant of RemoveEvent: off by one, keeps the event and loses the next.
RemoveEventAfter(queue, i) ==
  [j \in 1..(Len(queue) - 1) |-> IF j <= i THEN queue[j] ELSE queue[j + 1]]

\* VecDeque::remove: the other events keep their order.
RemoveEvent(queue, i) ==
  [j \in 1..(Len(queue) - 1) |-> IF j < i THEN queue[j] ELSE queue[j + 1]]

\* The queue pop_child_event_matching leaves when some event matches.
pop_child_event_matching(queue, req) == RemoveEvent(queue, OldestMatch(queue, req))
=============================================================================
