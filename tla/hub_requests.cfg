CONSTANTS
  Id = {a, b}
  NoId = NoId
  Nonce = {n}
  NoNonce = NoNonce
  TtlTicks = 1
  Ws = {w1, w2}
  NoWs = NoWs
  Req = {r1, r2}
  MaxRestarts = 0
SPECIFICATION RoutingSpec
CHECK_DEADLOCK FALSE
INVARIANTS RequestInv
PROPERTIES SettledForGood EveryRequestSettles
