SPECIFICATION MCSpec
CONSTANTS
  Nodes = {1, 2, 3}
  Me = 1
  None = None
  Bits = 2
  Subnets <- MCSubnets
  Slot <- MCSlot
  Topologies <- MCTopologies
  Settings <- MCSettings
  
PROPERTY StationFound
CHECK_DEADLOCK FALSE
