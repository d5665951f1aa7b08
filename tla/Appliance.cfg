SPECIFICATION MCSpec
CONSTANTS
  p1 = p1
  p2 = p2
  t1 = t1
  t2 = t2
  Tokens = {t1, t2}
  SchemaVersion = 4
  Schemas = {0}
  AllSchemas = {0, 1, 3, 4, 5}
  GuestFaults = {"kill"}
  AllFaults = {"preflight", "podman", "part", "sweep", "disk", "kill", "power"}
  Procs = {p1, p2}
  Jobs <- MCJobs
  MinLimit = 1
  HostLimit = 2
  MaxRemovals = 2
INVARIANTS ReadyIsSound
PROPERTIES
  TokenKeptByGuest
  GuestFailsClosed
  UpDelivers
  OthersUntouched
  CommandsEnd
CHECK_DEADLOCK FALSE
