SPECIFICATION ClientsSpec
CONSTANTS
  Width = 4
  MinBits = 0
  MaxBits = 1
  DefaultPage = 1
  MaxPage = 2
  IDs = {1, 2, 3}
  Names = {2, 12, 13}
  Asked <- MCAsked
  WalkLimit = 1
  Attempts = 3
  Batch = 2
  MaxEvents = 5
INVARIANTS
  ReferenceFound
  WaitTellsTruth
  CreatesOnce
PROPERTIES
  EveryCommandEnds
  DeliveryPromise
  EventuallyReceived
CHECK_DEADLOCK FALSE
