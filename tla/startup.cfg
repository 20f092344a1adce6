CONSTANTS
  Node = {n1, n2}
  Td = {d1}
  Hub = {h1, h2}
SPECIFICATION StartFairSpec
INVARIANTS OneHolder
PROPERTIES HubComesUp HubsSettle
CHECK_DEADLOCK FALSE
