SPECIFICATION Spec
CONSTANTS
  MaxPid = 3
  MaxPage = 6
  HeapStart = 1
  MmapBase = 2
  MmapLimit = 4
  StackLow = 4
  StackBottom = 6
  TlsStart = 6
  TlsPages = 1
  Image <- MCDataImage
  Frame = {f1, f2, f3, f4, f5, f6}
  NoFrame = NoFrame
  Candidates <- AnyFree
  MaxSpan = 2
  Ranges <- MCNoRanges
  NewSizes = {1, 2}
  Prots <- MCProts
  Calls = {"fork", "fault", "exec"}
  MaxFailures = 0
SYMMETRY Symmetry
CHECK_DEADLOCK FALSE
INVARIANTS
  FramesSound
  CowSound
  StackContiguous
