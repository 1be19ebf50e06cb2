SPECIFICATION Spec
CONSTANTS
  Letters <- MCLetters
  Keys = {}
  MaxTyped = 0
  MaxAhead = 0
  HostChunk = 2
  RwChunk = 2
  Termios <- MCTermios
  MaxSets = 0
  ReadVectors = {}
  WriteVectors <- MCQueryWrites
  MaxWrites = 2
  OwnMask = {}
  Pending = {}
  Masks = {}
  PollEvents = {}
  Timeouts = {}
  NoTimeout = NoTimeout
INVARIANTS
  HostSeesNoQuery
CHECK_DEADLOCK FALSE
