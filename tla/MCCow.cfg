SPECIFICATION Spec
CONSTANTS
  MaxPid = 2
  MaxPage = 7
  HeapStart = 1
  MmapBase = 2
  MmapLimit = 4
  StackLow = 5
  StackBottom = 6
  TlsStart = 6
  TlsPages = 2
  Image <- MCImage
  Frame = {f1, f2, f3, f4, f5}
  NoFrame = NoFrame
  Candidates <- AnyFree
  MaxSpan = 2
  Ranges <- MCProtRanges
  NewSizes = {1}
  Prots <- MCProtChoices
  Calls = {"fork", "fault", "mprotect", "munmap", "mremap"}
  MaxFailures = 1
SYMMETRY Symmetry
CHECK_DEADLOCK FALSE
INVARIANTS
  FramesSound
  CowSound
  PteMatchesMap
