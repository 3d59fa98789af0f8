SPECIFICATION FairSpec
CONSTANTS
  a = a
  b = b
  d = d
  x = x
  Addr4 <- MCAddr4
  Addr6 <- MCAddr6
  Allowed <- MCAllowed
  Networks = {"tcp"}
  Answers <- MCFewAnswers
  MaxAnswer = 1
  Failures = {"other"}
  FallbackDelay = 2
  MinimumDelay = 1
  AttemptTimeout = 2
  DialTimeout = 2
  StaticSize = {}
PROPERTY ImplementsContract
