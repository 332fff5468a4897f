CONSTANTS
  InResp = InResp
  Resps = {InResp}
  NoResp = NoResp
  MaxReqs = 2
  Outs = {o1, o2}
  NoOut = NoOut
  Keys = {k1}
  Certs = {c1, c2}
  Nothing = Nothing
  TxidMode = "pubkey"
SPECIFICATION ScepSpec
SYMMETRY ScepSymmetry
INVARIANTS NothingKept AnswersOwnRequest ResultConsistent
