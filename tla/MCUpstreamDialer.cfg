CONSTANTS
  Call = {c1, c2, c3}
  None = None
SPECIFICATION FairSpec
INVARIANTS
  FailureCloses
  SharedConnKept
PROPERTY Settles
