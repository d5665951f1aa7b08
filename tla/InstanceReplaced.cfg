SPECIFICATION Safety
CONSTANTS
  Instances = {1}
  Addresses = {4}
  PageSize = 1
  QueueLimit = 1
  MaxContainers = 2
  ByHand = TRUE
PROPERTIES RequeuedOnlyWhenChanged
