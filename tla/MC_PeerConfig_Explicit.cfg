SPECIFICATION Spec
CONSTANTS
  Hosts <- MCHosts
  Unspecified <- MCUnspecified
  PortNums <- MCPorts
  Settings <- MCSettings
  Addrs <- MCAddrs
CHECK_DEADLOCK FALSE
INVARIANT ExplicitAddressHonoured
