SPECIFICATION MCSpec
CONSTANTS
  NoStatus = NoStatus
  ExitCodes = {3}
  MaxChunks = 1
  EventCap = 1
  MaxInputs = 1
  MaxResizes = 1
  MaxPending = 1
  OtherFrames <- MCOtherFrames
  FaultSets <- MCFaultSets
INVARIANTS NothingLeftBehind
PROPERTIES KeepsContract SessionEnds
CHECK_DEADLOCK FALSE
