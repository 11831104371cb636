CONSTANTS
  NI = 3
  ND = 4
  ByteBits = 8
  BlockBits = 8
  IMapBlocks = 1
  DMapBlocks = 1
  Direct = 1
  Indirect = 1
  MaxBlocks = 3
  EntriesPerBlock = 3
  Names = {a, b}
  PaddedNames = {b}
  Handles = {h}
  MaxGrow = 2
  U32 = 16
  Risky = {}
SPECIFICATION Spec
INVARIANT ReportsTrue
