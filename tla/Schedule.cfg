CONSTANTS
  Fn = {f1, f2}
  NoFn = NoFn
  MaxCount = 3
  MaxDepth = 1
  IsrCallers = TRUE
SPECIFICATION FairSpec
INVARIANTS PoolConserved RunsOnce StopStaysAhead
PROPERTIES EveryFunctionRuns LoopRunsAgain ImplementsFIFO
