CONSTANTS
  InResp = InResp
  Resps = {InResp}
  NoResp = NoResp
  MaxReqs = 2
  Outs = {o1, o2}
  NoOut = NoOut
SPECIFICATION EstSpec
SYMMETRY EstSymmetry
INVARIANTS InStep VerdictConsistent
