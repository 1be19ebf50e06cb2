SPECIFICATION Spec
CONSTANTS
  MaxPid = 2
  Slot = {s1, s2}
  NoSlot = NoSlot
  Signal = {10, 17, 18, 20}
  WaitTargets = {}
  WaitOptions = {}
  KillTargets <- KillTargetsOfSignals
  KillSignals = {10, 18, 20}
  Masks <- MasksOfSignals
  Groups = {}
  Actions <- ActionsOfSignals
  Calls = {"sigreturn"}
  ForkOutcomes = {"started"}
  MaxReq = 0
  MaxEvents = 1
  QueueCapacity = 1
  ChanCapacity = 1
SYMMETRY SlotSymmetry
INVARIANTS
  NoDeliverableWhileBlocked
CHECK_DEADLOCK FALSE
