CONSTANTS
  Addr = {0, 1, 2, 3}
  Data = {d0, d1}
  Zero = d0
  Size = 2
  Count = 4
  Sizes = {4, 5}
  MayFail = FALSE
  NoBlock = NoBlock
SPECIFICATION Spec
INVARIANTS RecencyList NoPanic
PROPERTY EvictsOldest
