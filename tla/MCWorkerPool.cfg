SPECIFICATION FairSpec
CONSTANTS
  Workers = {w1, w2}
  Callers = {c1}
  MaxOps = 4
  MaxDispatches = 2
  RunsPerWorker = 1
CONSTRAINT JobSizes
INVARIANTS NoCallbackAfterReturn NoStaleResultRead
PROPERTIES ImplementsContract EveryCallReturns ShutdownCompletes
