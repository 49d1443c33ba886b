SPECIFICATION Spec
CONSTANTS
  SectorSize = 3
  SketchEnd = 3
  FsStart = 9
  FsEnd = 12
  Buffers = {1}
  Sizes = {3}
  MaxChunk = 2
  MaxBegin = 1
INVARIANTS EndTrueMeansNoError
