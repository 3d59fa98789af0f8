CONSTANTS
  Base = 3
  NumFirstPaddings = 2
  Kinds = {"hijack", "plain", "padded"}
  Exchanges <- MCExchanges
SPECIFICATION FairSpec
INVARIANTS
  TypeOK
  StreamsIntact
  NothingLost
  HalfCloseKept
PROPERTIES
  Relayed
  Ends
