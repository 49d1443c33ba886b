SPECIFICATION FairSpec
CONSTANTS
  Handle = {c1, c2}
  Wnd = 2
  SndBuf = 2
  MaxIn = 3
  MaxOut = 3
INVARIANTS Inv NobodyWaitsForDead WindowConserved SyncDataStable
PROPERTIES ImplementsConnection CallReturns
