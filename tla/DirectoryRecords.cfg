SPECIFICATION LSpec
CONSTANTS BlockLen = 16
          Short = {a, b}
          Long = {p, q}
          ShortBytes = 1
          LongBytes = 12
          MaxBlocks = 2
          MaxReply = 2
INVARIANTS Tiles NoAdjacentFree ListingOnce
PROPERTIES OthersKept ListingComplete
