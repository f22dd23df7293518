\* A run over two tables, named or not: three launches, a death, and every
\* interleaving with four calls of the user.
SPECIFICATION FairSpec
CONSTANTS
  Worker = {w1, w2, w3}
  NoWorker = NoWorker
  NTables = 2
  MaxCalls = 4
  MaxDeaths = 1
INVARIANTS TypeOK IInv CompletedIsComplete RowsAgree ClaimedIsResumable
PROPERTIES CanceledIsFinal ResultsKept WorkersEnd Settles
CHECK_DEADLOCK FALSE
