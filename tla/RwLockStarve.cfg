SPECIFICATION AsyncSpec
CONSTANTS
  Readers = {r1, r2}
  Writers = {w1}
  MaxDepth = 2
PROPERTY WriterNotStarved
