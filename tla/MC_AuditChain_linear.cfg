SPECIFICATION Spec
CONSTANTS
  Writers = {1, 2, 3}
  MaxSkew = 0
  Payloads = {{1}}
  Size <- MC_Size
  MaxLimit = 1
INVARIANT ChainIsLinear
CHECK_DEADLOCK FALSE
