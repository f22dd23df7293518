\* A bidirectional pglogical pair: key 1 is written at the coordinator, key 2
\* at the peer; digests are fresh.
SPECIFICATION Spec
CONSTANTS
  n1 = n1  n2 = n2  n3 = n3
  absent = absent  a = a  b = b  c = c
  Node = {n1, n2}
  Local = n1
  Peer = {n2}
  Reverse = {n2}
  Key = {1, 2}
  Digest = {absent, a, b}
  Start <- MCStart
  Owner <- OwnedByBoth
  Keyed = TRUE
  FreshDigests = TRUE
  RecheckPasses = 2
  MaxReported = 2
  MaxWal = 2
  MaxDrift = 1
INVARIANTS TypeOK IInv ConfirmedIsReal NoMissedDivergence
PROPERTIES KeepsPromise ConfirmedOnEvidence
CHECK_DEADLOCK FALSE
