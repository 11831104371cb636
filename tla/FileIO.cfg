CONSTANTS
  Files = {f, g}
  Handles = {h}
  ND = 12
  ByteBits = 8
  BlockBits = 16
  MapBlocks = 1
  Direct = 1
  Indirect = 2
  MaxBlocks = 6
  BlockSize = 2
  IndexMod = 64
  Values = {1}
  Seeks = {0, 9}
  Lens = {4}
  Cuts = {1}
SPECIFICATION Spec
INVARIANTS PointersExact StorageAccounted
PROPERTY ImplementsFlatFile
SYMMETRY Symmetry
