SPECIFICATION Spec
CONSTANTS
  Letters <- MCLetters
  Keys = {"cr", "nl", "erase", "kill", "eof"}
  MaxTyped = 3
  HostChunk = 2
  MaxAhead = 2
  RwChunk = 2
  Termios <- MCTermios
  MaxSets = 2
  ReadVectors <- MCReads
  WriteVectors <- MCWrites
  MaxWrites = 1
  OwnMask = {USR1}
  Pending = {{USR1}}
  Masks = {{}}
  PollEvents <- MCEvents
  Timeouts = {1, NoTimeout}
  NoTimeout = NoTimeout
INVARIANTS
  TypeOK
  InputFaithful
  PollThenRead
  MaskRestored
CHECK_DEADLOCK FALSE
