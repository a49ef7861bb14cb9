SPECIFICATION Spec
CONSTANTS
  None = None
  Nodes = {1, 2, 3}
  Links = {{1, 2}, {2, 3}, {1, 3}}
  Starts = {{{1, 2}, {2, 3}}}
  Weights = {1}
  Subnets <- OneSubnet
  Events <- AllEvents
  MaxChanges = 3
  MaxOverlap = 2
INVARIANTS DatabasesAgree NoPhantom
PROPERTIES Settles
CHECK_DEADLOCK FALSE
