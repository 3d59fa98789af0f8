CONSTANTS
  h1 = h1
  h2 = h2
  r1 = r1
  r2 = r2
  r3 = r3
  r4 = r4
  r5 = r5
  a = a
  b = b
  c = c
  Handler = {h1, h2}
  Client = {a, b, c}
  Req <- MCReq
  HandlerOf <- MCHandlerOf
  ClientOf <- MCClientOf
  MaxActive = 2
  MaxClient = 1
SPECIFICATION Spec
SYMMETRY MCSymmetry
VIEW MCView
INVARIANTS
  SlotsExact
  SocketsCovered
  GaugeExact
  PeakCovers
