SPECIFICATION Safety
CONSTANTS
  VPCs = {1}
  Subnets = {11}
  Blocks = {"a", "b"}
  VPCOf <- SingleVPCOf
  Block <- SingleBlock
  Strays = {}
  PageSize = 1
  QueueLimit = 1
INVARIANTS StartupFailuresRecorded
