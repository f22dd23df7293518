\* Two candidate keys, one of them reported.
SPECIFICATION Spec
CONSTANTS
  n1 = n1  n2 = n2  n3 = n3
  absent = absent  a = a  b = b  c = c
  Node = {n1, n2}
  Local = n1
  Peer = {n2}
  Reverse = {n2}
  Key = {1, 2}
  Digest = {absent, a, b}
  Start <- MCStart
  Owner <- OwnedByLocal
  Keyed = TRUE
  FreshDigests = TRUE
  RecheckPasses = 2
  MaxReported = 1
  MaxWal = 2
  MaxDrift = 1
INVARIANT NoFalseMatch
CHECK_DEADLOCK FALSE
