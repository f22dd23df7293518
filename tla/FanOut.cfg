\* Three tasks over two connections; the query of the third may not fit the
\* socket.  Servers fail, close and answer in any order, and the user cancels.
SPECIFICATION FairSpec
CONSTANTS
  NTasks = 3
  MaxParallel = 2
  Sum = {s1, s2}
  NoSum = NoSum
  Oversized = {3}
INVARIANTS TypeOK NeverSleepsOnAnswer EachTaskOnce ResultsCommitted ReturnsAll
PROPERTY EndsUnlessUnsent
CHECK_DEADLOCK FALSE
