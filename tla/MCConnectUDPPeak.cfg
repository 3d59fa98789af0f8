CONSTANTS
  h1 = h1
  h2 = h2
  r1 = r1
  r2 = r2
  r3 = r3
  r4 = r4
  r5 = r5
  a = a
  b = b
  c = c
  Handler = {h1}
  Client = {a, b}
  Req <- MCFewReq
  HandlerOf <- MCFewHandlerOf
  ClientOf <- MCFewClientOf
  MaxActive = 2
  MaxClient = 2
SPECIFICATION Spec
INVARIANT PeakGaugeShown
