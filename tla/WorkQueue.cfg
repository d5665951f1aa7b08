\* A queue smaller than the number of keys: hints and retries are dropped.
SPECIFICATION Spec
CONSTANTS
  Keys = {k1, k2}
  Hinters = {h1, h2}
  QueueLimit = 1
  MaxCommits = 3
INVARIANTS NoLostWakeup
PROPERTIES CommittedChangeIsRead FailedKeyIsRetried
