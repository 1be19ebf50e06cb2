SPECIFICATION Spec
CONSTANTS
  MaxPid = 1
  MaxPage = 6
  HeapStart = 1
  MmapBase = 2
  MmapLimit = 4
  StackLow = 4
  StackBottom = 6
  TlsStart = 6
  TlsPages = 1
  Image <- MCImage
  Frame = {1, 2, 3, 4, 5, 6}
  NoFrame = NoFrame
  Candidates <- LowestFree
  MaxSpan = 2
  Ranges <- MCRanges
  NewSizes = {1, 2}
  Prots <- MCProts
  Calls = {"mmap", "munmap", "mremap", "brk", "fault", "exec", "copy"}
  MaxFailures = 1
CHECK_DEADLOCK FALSE
INVARIANTS
  TypeOK
  MapsDisjoint
  FramesSound
  PteMatchesMap
  StackContiguous
