SPECIFICATION FairSpec
CONSTANTS
  Size <- OneSize
  Chunk = 2
  MaxNonce = 1
PROPERTY ResultIsTrue
