CONSTANTS
  pub = pub
  loc = loc
  IP <- MCIP
  LocalNets <- MCLocalNets
  Subjects <- MCSubjects
  MaxDirectives = 3
  Hosts <- MCHosts
  Ports <- MCPorts
  AllowedPorts = {0, 443, 65535, 65536}
  Lookups <- MCLookups
SPECIFICATION Spec
INVARIANTS
  LocalNeedsAllow
  HostnameOverridesLaterIP
  RefusalJustified
  DeniedHostNotResolved
