CONSTANTS
  NI = 3
  MaxCrashes = 1
  ND = 3
  ByteBits = 8
  BlockBits = 8
  IMapBlocks = 1
  DMapBlocks = 1
  Direct = 2
  Indirect = 1
  MaxBlocks = 2
  EntriesPerBlock = 3
  Names = {a, b}
  PaddedNames = {}
  Handles = {h}
  MaxGrow = 1
  U32 = 16
  Risky = {}
SPECIFICATION CSpec
INVARIANTS LeaksOnly PassedUndamaged
