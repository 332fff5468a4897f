CONSTANTS
  Resps = {r1, r2}
  NoResp = NoResp
  TLS = TRUE
  HdrLens = {0, 2}
  HeadLen = 2
  BodyLens = {1}
  SndCap = 2
  WireCap = 3
  HeaderBudget = 2
  MaxBody = 1
  ReadChunk = 2
  MaxInterim = 1
  MaxReqs = 2
  MaxOpens = 2
  MaxExcess = 1
SPECIFICATION Spec
SYMMETRY RespSymmetry
INVARIANTS NothingLeftOver RequestsInOrder
PROPERTIES ResponseMatches ImplementsContract
CHECK_DEADLOCK FALSE
