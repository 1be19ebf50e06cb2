SPECIFICATION Spec
CONSTANTS
  MaxPid = 4
  Slot = {s1, s2, s3}
  NoSlot = NoSlot
  Signal = {9, 17, 18}
  WaitTargets <- WaitTargetsOfWait
  WaitOptions <- WaitOptionsOfWait
  KillTargets <- KillTargetsOfWait
  KillSignals = {9}
  Masks = {}
  Groups = {0, 1}
  Actions = {}
  Calls = {"setsid", "reboot"}
  ForkOutcomes = {"started"}
  MaxReq = 0
  MaxEvents = 1
  QueueCapacity = 1
  ChanCapacity = 1
SYMMETRY SlotSymmetry
INVARIANTS
  TypeOK
  RepliesOwed
  WaitersSound
PROPERTIES
  ImplementsChildWait
CHECK_DEADLOCK FALSE
