SPECIFICATION Spec
CONSTANTS
  a = a
  b = b
  d = d
  x = x
  Addr4 <- MCAddr4
  Addr6 <- MCAddr6
  Allowed <- MCAllowed
  Networks = {"tcp", "tcp4", "tcp6"}
  Answers <- MCAnswers
  MaxAnswer = 2
  Failures = {"timeout", "other"}
  FallbackDelay = 2
  MinimumDelay = 1
  AttemptTimeout = 2
  DialTimeout = 2
  StaticSize = {0, 1, 2, 3}
INVARIANTS
  OnlyApprovedDialed
  SingleOwner
  GivesUpExhausted
  StatusTruthful
  ResolverOrder
  NoLostWakeup
  StaticInterleave
PROPERTY
  StartSpacing
