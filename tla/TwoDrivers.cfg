\* A worker launched before a pause claims the task after the resume.
SPECIFICATION Spec
CONSTANTS
  Worker = {w1, w2}
  NoWorker = NoWorker
  NTables = 1
  MaxCalls = 2
  MaxDeaths = 0
SYMMETRY WorkersAlike
INVARIANT OneDriver
CHECK_DEADLOCK FALSE
