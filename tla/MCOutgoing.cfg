\* A peer with host file and hosts.json, one with hosts.json only, and AutoConnect.
SPECIFICATION Spec
CONSTANTS
  a = a
  b = b
  c = c
  Addresses = {a, b, c}
  Peers = {1, 2}
  None = None
  HostsJson <- Json
  HostFile <- File
  EdgeAddress <- Edge
  Works <- At
  ConnectTos = {{1}, {2}}
  AutoConnect = TRUE
  EnoughConnections = 1
  MAX_CACHED_ADDRESSES = 2
  maxtimeout = 2
INVARIANTS  AllTried
 
