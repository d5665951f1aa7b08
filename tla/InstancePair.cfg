SPECIFICATION Safety
CONSTANTS
  Instances = {1, 2}
  Addresses = {4}
  PageSize = 1
  QueueLimit = 1
  MaxContainers = 2
  ByHand = TRUE
INVARIANTS LeaseOutlivesInterface AddressExclusive TerminationIsFinal
