CONSTANTS
  Id = {a, b}
  NoId = NoId
  Nonce = {n}
  NoNonce = NoNonce
  TtlTicks = 1
  Ws = {w1}
  NoWs = NoWs
  Req = {}
  MaxRestarts = 1
SPECIFICATION Spec
SYMMETRY Symmetry
VIEW View
CHECK_DEADLOCK FALSE
INVARIANTS RegistryInv DiskFollows
PROPERTIES ConnectedIsKept
