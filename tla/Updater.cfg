SPECIFICATION Spec
CONSTANTS
  SectorSize = 3
  SketchEnd = 3
  FsStart = 9
  FsEnd = 12
  Buffers = {1, 3}
  Sizes = {2, 5}
  MaxChunk = 3
  MaxBegin = 2
INVARIANTS Inv StagedIsTaken Md5Guards
PROPERTIES Contained
