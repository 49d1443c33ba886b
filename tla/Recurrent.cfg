CONSTANTS
  MaxCell = 3
  Intervals = {0, 4, 6}
  UsPerMs = 2
  MaxDepth = 2
SPECIFICATION FairSpec
INVARIANTS Inv PassStaysOnList GrainSuitsAllBarIsr
PROPERTIES EveryDueRuns PassEnds
