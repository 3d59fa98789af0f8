CONSTANTS
  pub = pub
  loc = loc
  IP <- MCIP
  LocalNets <- MCLocalNets
  Subjects <- MCSubjects
  MaxDirectives = 2
  Hosts <- MCHosts
  Ports <- MCPorts
  AllowedPorts = {443, 65535, 65536}
  Lookups <- MCLookups
SPECIFICATION Spec
INVARIANT InOrder
