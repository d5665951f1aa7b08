SPECIFICATION Spec
CONSTANTS
  VPCs = {1}
  Subnets = {11, 12}
  Blocks = {"a"}
  VPCOf <- OneVPCOf
  Block <- OneBlock
  Strays = {99}
  PageSize = 1
  QueueLimit = 1
INVARIANTS KernelBackedByRows ConvergedIsApplied NeverFatalOnChildren
PROPERTIES EventuallySettled
