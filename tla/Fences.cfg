\* Two peers of every backend, with and without barriers in their subscription;
\* one chunk after the initial fence, with or without a re-fence before it.
SPECIFICATION FairSpec
CONSTANTS
  Peer = {1, 2}
  Word = 3
  MaxLsn = 4
  MaxCommits = 1
  Lag = {0, 2}
  Deployment <- MCDeployment
  MaxChunks = 1
  ThrottleThreshold = 1
INVARIANTS TypeOK ConvergedCovers DegradedCovers StampedHonestly
PROPERTY Ends
CHECK_DEADLOCK FALSE
