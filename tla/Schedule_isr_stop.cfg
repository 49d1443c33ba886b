CONSTANTS
  Fn = {f1, f2}
  NoFn = NoFn
  MaxCount = 2
  MaxDepth = 1
  IsrCallers = TRUE
SPECIFICATION Spec
INVARIANT StopBoundsRun
