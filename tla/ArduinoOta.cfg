SPECIFICATION FairSpec
CONSTANTS
  Size <- Sizes
  Chunk = 2
  MaxNonce = 3
INVARIANTS InstallsWhole OkMeansInstalled OkIsHeard
 
