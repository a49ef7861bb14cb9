SPECIFICATION Spec
CONSTANTS
  Names = {1, 2}
  Tokens = {1, 2}
  None = None
  Daemons = {1, 2}
  Joins = {1, 2}
  Pool = {2, 20}
  MaxCrashes = 1
INVARIANTS AddressesDistinct OneTimeUse  KeyCertified
PROPERTY JoinEnds
CHECK_DEADLOCK FALSE
