CONSTANTS
  Id = {lab, a}
  NoId = NoId
  Nonce = {n}
  NoNonce = NoNonce
  TtlTicks = 1
  Target = {lab, a}
  NoTarget = NoId
  Tool = {k1, k2}
  Call <- MCCall
  NoCall = NoCall
  MaxDepth = 1
  Lab = lab
SPECIFICATION ToolsFairSpec
CHECK_DEADLOCK FALSE
INVARIANTS WorksOnSelection ChainInv
PROPERTIES QueueIsLock CallsEnd
