CONSTANTS
  Addr = {0, 1, 2}
  Data = {d0, d1}
  Zero = d0
  Size = 2
  Count = 2
  Sizes = {3}
  MayFail = TRUE
  NoBlock = NoBlock
SPECIFICATION Spec
INVARIANT Coherent
PROPERTIES ImplementsStore DirtyNotLost
