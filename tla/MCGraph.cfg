\* Every set of directed edges on three nodes, with every change of one edge; and every
\* network of four nodes in which 1 and 4 are not neighbours, with two weights, both with
\* and without IndirectData. Two daemons, one or both of which have a ConnectTo.
SPECIFICATION MCSpec
CONSTANTS
  Nodes = {1, 2, 3, 4}
  Pairs = {{1,2}, {1,3}, {2,3}, {2,4}, {3,4}}
  Weights = {1, 2}
  None = None
  MaxChanges = 1
  Conns = {c1, c2, c3}
INVARIANTS ReachableIsConnected DeviceFollowsReachability
    
PROPERTIES StaysConnected
CHECK_DEADLOCK FALSE
