CONSTANTS
  Configs = {}
  Requests <- MCServerRequests
  Files <- MCFiles
  Atoi <- MCAtoi
  ParseDuration <- MCParseDuration
  ParseURL <- MCParseURL
  WithColon <- MCWithColon
  Slashed <- MCSlashed
  ReadLines <- MCReadLines
  Subjects <- MCSubjects
  DotLocalhost <- MCDotLocalhost
  MaxOthers = 1
SPECIFICATION ServerSpec
INVARIANTS
  NothingForStrangers
  ProbesSeeTheSite
  URIRedactedAfterUse
  EstablishedThenClosed
  
  FileHonoured
  SecureUpstream
  OwnUpstream
  MetricsShared
