CONSTANTS
  Resps = {r1}
  NoResp = NoResp
  TLS = TRUE
  HdrLens = {0, 2}
  HeadLen = 2
  BodyLens = {0, 1}
  SndCap = 1
  WireCap = 5
  HeaderBudget = 2
  MaxBody = 1
  ReadChunk = 2
  MaxInterim = 1
  MaxReqs = 2
  MaxOpens = 1
  MaxExcess = 0
SPECIFICATION LiveSpec
INVARIANTS RxBounded
PROPERTIES RequestEnds
CHECK_DEADLOCK FALSE
