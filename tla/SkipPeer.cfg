\* A pglogical peer and a standby, either of which may be skipped.
SPECIFICATION Spec
CONSTANTS
  Peer = {1, 2}
  Word = 3
  MaxLsn = 4
  MaxCommits = 1
  Lag = {0, 2}
  Deployment <- MCSkipped
  MaxChunks = 1
  ThrottleThreshold = 1
INVARIANT SkippedPeersDoNotFailTheRun
CHECK_DEADLOCK FALSE
