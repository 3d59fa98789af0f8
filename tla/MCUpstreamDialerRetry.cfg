CONSTANTS
  Call = {c1, c2, c3}
  None = None
SPECIFICATION Spec
SYMMETRY CallSymmetry
INVARIANT TriesAgain
