CONSTANTS
  MaxDatagrams = 2
  IdleTimeout = 2
SPECIFICATION FairSpec
INVARIANTS
  NeverReplayed
  ResultsBalance
  ReturnsClean
PROPERTIES
  IdleJustified
  Terminates
