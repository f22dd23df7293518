\* The docs: pause is "for later resume".  One worker, one pause.
SPECIFICATION Spec
CONSTANTS
  Worker = {w1, w2}
  NoWorker = NoWorker
  NTables = 2
  MaxCalls = 1
  MaxDeaths = 0
PROPERTY PausedUntilResumed
CHECK_DEADLOCK FALSE
