\* An Ethernet, a tunnel, a link with a tiny MTU and the loopback device.
SPECIFICATION Spec
CONSTANTS
  IpMtus = {400, 1280, 1500, 65536}
  PMTUs = {1400}
INVARIANT FixedIsMeasured
CHECK_DEADLOCK FALSE
