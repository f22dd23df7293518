\* Three nodes replicating to each other, two of them compared; the key is
\* written at the third.  Nothing ever drifts.
SPECIFICATION Spec
CONSTANTS
  n1 = n1  n2 = n2  n3 = n3
  absent = absent  a = a  b = b  c = c
  Node = {n1, n2, n3}
  Local = n1
  Peer = {n2}
  Reverse = {n2}
  Key = {1}
  Digest = {absent, a, b}
  Start <- MCStart
  Owner <- OwnedByThird
  Keyed = TRUE
  FreshDigests = TRUE
  RecheckPasses = 2
  MaxReported = 2
  MaxWal = 2
  MaxDrift = 0
INVARIANT ConfirmedIsReal
CHECK_DEADLOCK FALSE
