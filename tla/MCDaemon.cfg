SPECIFICATION MCSpec
CONSTANTS
  Processes = 2
  Tincs = 2
  Budgets <- MCBudgets
  None = None
  VPNAddress = VPNAddress
  ConnectTo = ConnectTo
  Subnet = Subnet
  Address = Address
  Inviter = Inviter
  Invitation = Invitation
INVARIANTS ControlIntact OneAtATime StartTells EditsKept OptionsWin
PROPERTIES  DaemonFollows
CHECK_DEADLOCK FALSE
