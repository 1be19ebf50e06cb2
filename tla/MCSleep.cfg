SPECIFICATION Spec
CONSTANTS
  MaxPid = 2
  Slot = {s1, s2}
  NoSlot = NoSlot
  Signal = {9, 10, 17, 18}
  WaitTargets = {}
  WaitOptions = {}
  KillTargets <- KillTargetsOfSleep
  KillSignals = {9, 10}
  Masks <- MasksOfSleep
  Groups = {}
  Actions <- ActionsOfSleep
  Calls = {}
  ForkOutcomes = {"started"}
  MaxReq = 3
  MaxEvents = 1
  QueueCapacity = 1
  ChanCapacity = 1
SYMMETRY SlotSymmetry
INVARIANTS
  RepliesOwed
  NoDeliverableWhileBlocked
  SleepJobInFlight
  CompletionNotified
PROPERTIES
  SleepEndsForCause
CHECK_DEADLOCK FALSE
