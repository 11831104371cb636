SPECIFICATION Spec
CONSTANTS BlockLen = 64
          Short = {a, b, c, d}
          Long = {}
          ShortBytes = 44
          LongBytes = 64
          MaxBlocks = 2
INVARIANT Tiles
