SPECIFICATION FairSpec
CONSTANTS
  Top = 5
  Chip = 6
  Version <- MCVersion
  Out <- MCOut
  Loader <- MCLoader
  File <- MCFile
  Gzip <- MCGzip
  Of <- MCOf
  Src <- MCSrc
  Size <- MCLen
  Need <- MCNeed
  Garbled = {0, 3, 7}
  MayLosePower = TRUE
  MayFail = TRUE
INVARIANTS BootsWholeImage CopyInstallsStaged
PROPERTIES CommandSpent NeverBricked CopyEnds
CHECK_DEADLOCK FALSE
