\* One writer and two peers that do not replicate back; three changes of one key.
SPECIFICATION FairSpec
CONSTANTS
  n1 = n1  n2 = n2  n3 = n3
  absent = absent  a = a  b = b  c = c
  Node = {n1, n2, n3}
  Local = n1
  Peer = {n2, n3}
  Reverse = {}
  Key = {1}
  Digest = {absent, a, b, c}
  Start <- MCStart
  Owner <- OwnedByLocal
  Keyed = TRUE
  FreshDigests = TRUE
  RecheckPasses = 2
  MaxReported = 2
  MaxWal = 3
  MaxDrift = 1
INVARIANTS ConfirmedIsReal NoMissedDivergence NoOpenCandidate
PROPERTY Terminates
CHECK_DEADLOCK FALSE
