SPECIFICATION Spec
CONSTANTS
  MaxPid = 2
  MaxFd = 2
  StdFds = {0}
  FirstUserFd = 1
  Slot = {s1, s2}
  NoSlot = NoSlot
  Path = {tty}
  NoPath = NoPath
  TtyPath = tty
  MaxPipe = 1
  PipeCapacity = 1
  MaxRegions = 1
  MinFds = {0, 2}
  Targets = {0, 2}
  CloexecFlags = {TRUE}
SYMMETRY SlotSymmetry
INVARIANTS
  TypeOK
  NoDanglingSlot
  PipeEndsMatch
  PathMatchesFile
  CloexecIsOpen
  SlotsConserved
  NextFdFresh
  RegionsConserved
CHECK_DEADLOCK FALSE
