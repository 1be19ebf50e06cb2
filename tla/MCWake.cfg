SPECIFICATION FairSpec
CONSTANTS
  MaxPid = 2
  Slot = {s1, s2}
  NoSlot = NoSlot
  Signal = {9, 17, 18}
  WaitTargets = {}
  WaitOptions = {}
  KillTargets <- KillTargetsOfSleep
  KillSignals = {17}
  Masks = {}
  Groups = {}
  Actions = {}
  Calls = {}
  ForkOutcomes = {"started"}
  MaxReq = 3
  MaxEvents = 1
  QueueCapacity = 1
  ChanCapacity = 1
PROPERTIES
  SleepersWake
CHECK_DEADLOCK FALSE
