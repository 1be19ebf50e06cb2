SPECIFICATION Spec
CONSTANTS
  MaxPid = 3
  Slot = {s1, s2}
  NoSlot = NoSlot
  Signal = {9, 17, 18, 19}
  WaitTargets <- WaitTargetsOfJobs
  WaitOptions <- WaitOptionsOfJobs
  KillTargets <- KillTargetsOfJobs
  KillSignals = {9, 18, 19}
  Masks = {}
  Groups = {}
  Actions = {}
  Calls = {"fault", "poweroff"}
  ForkOutcomes = {"started", "unmapped", "unstarted"}
  MaxReq = 0
  MaxEvents = 1
  QueueCapacity = 1
  ChanCapacity = 1
SYMMETRY SlotSymmetry
INVARIANTS
  ExitQueueSound
CHECK_DEADLOCK FALSE
