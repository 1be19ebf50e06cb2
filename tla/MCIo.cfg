SPECIFICATION Spec
CONSTANTS
  Fd = {3, 4, 5, 6}
  UserMap <- MCUserMap
  Frame = {1, 2, 3, 4, 5}
  Byte <- MCByte
  Zero = "0"
  InitMem <- MCMem
  InitFds <- MCFds
  InitContent <- MCContent
  Closed = Closed
  MaxSize = 5
  PipeCapacity = 3
  RwChunk = 3
  Slots = 2
  NoEntry = NoEntry
  Vectors <- MCVectors
  ExecInputs <- MCExecInputs
  Deltas <- MCDeltas
  MaxCalls = 4
  MaxFailures = 1
CHECK_DEADLOCK FALSE
INVARIANTS
  TypeOK
  TransferExact
  OffsetMatchesCount
  PoolSound
  ScratchReleased
