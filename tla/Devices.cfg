CONSTANTS
  NI = 3
  BlockBits = 8
  IMapBlocks = 1
  DMapBlocks = 1
  Direct = 2
  Indirect = 1
  MaxBlocks = 1
  Names = {a, b}
  PaddedNames = {}
  MaxGrow = 1
  U32 = 4
  OpenFiles = {h}
SPECIFICATION Spec
INVARIANTS TypeOK BlockOwnership LinksExact CheckerSound
SYMMETRY NameSymmetry
