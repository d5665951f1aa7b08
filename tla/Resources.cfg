SPECIFICATION MCSpec
CONSTANTS
  Width = 5
  MinBits = 1
  MaxBits = 2
  Clients = {1, 2}
  Requests <- MCRequests
  VPCIDs = {1, 2}
  SubnetIDs = {11, 12}
  InstanceIDs = {21, 22, 23}
  Attempts = 2
  TTL = 1
  MaxClock = 1
  MaxFailures = 1
INVARIANTS
  OncePerKey
  AnswerIsOriginal
  EventsTellTheRows
  TablesConsistent
  RangesDisjoint
  LeasesAssignable
