CONSTANTS
  Addr = {0, 1, 2, 3, 4}
  Data = {d0}
  Zero = d0
  Size = 3
  Count = 5
  Sizes = {}
  MayFail = FALSE
  NoBlock = NoBlock
SPECIFICATION Spec
INVARIANT NoPanic
