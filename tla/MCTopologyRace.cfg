SPECIFICATION Spec
CONSTANTS
  None = None
  Nodes = {1, 2, 3}
  Links = {{1, 2}, {2, 3}, {1, 3}}
  Starts = {{{1, 2}, {2, 3}}}
  Weights = {1}
  Subnets <- NoSubnet
  Events <- TwoEvents
  MaxChanges = 2
  MaxOverlap = 2
INVARIANTS ReachableAgrees
CHECK_DEADLOCK FALSE
