---------------------------- MODULE MCApeProcess ----------------------------
(* Argument sets of the ApeProcess instances, for the .cfg files.          *)
EXTENDS ApeProcess, TLC

SlotSymmetry == Permutations(Slot)

\* Exits, process groups and wait4.
WaitTargetsOfWait == {-1, 0, 3}
WaitOptionsOfWait == {{}, {"WNOHANG"}}
KillTargetsOfWait == {-1, 3}

\* Job control: stops, continues and the waits that ask for them.
WaitTargetsOfJobs == {-1, 3}
WaitOptionsOfJobs == {{}, {"WUNTRACED", "WCONTINUED"}}
KillTargetsOfJobs == {-1, 0, 2}

\* Masks that block the caught signal, a stop and its continue, or nothing.
MasksOfSignals == {{10, 18, 20}, {}}
KillTargetsOfSignals == {1, 2}
ActionsOfSignals == {<<10, "CATCH">>}

\* nanosleep against signals and deaths.
MasksOfSleep == {{10}}
KillTargetsOfSleep == {1, 2}
ActionsOfSleep == {<<10, "IGN">>, <<17, "CATCH">>}
=============================================================================
