\* Two daemons with a ConnectTo for each other; nothing fails.
SPECIFICATION Spec
CONSTANTS
  Nodes = {1, 2}
  Conns = {c1, c2, c3}
  None = none
  Configs <- Mutual
  MaxFaults = 0
PROPERTIES MutualConnects
CHECK_DEADLOCK FALSE
