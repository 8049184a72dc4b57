CONSTANTS
  Order = 7
  Polynomial = 11
  Xor <- MCXor
  CoderCache = 2
  Shapes <- MCShapes
  Bytes = {0, 1, 6}
  Full = 2
  MaxBlocks = 2
SPECIFICATION Spec
INVARIANT RecoversExactly
CHECK_DEADLOCK FALSE
