CONSTANTS
  Keys = {k1, k2}
  NoKey = NoKey
  Subjects = {s1}
  Tids = {t1, t2, t3}
  Configs <- MCConfigs
  PendingMax = 2
  IssuedMax = 2
  MaxIssues = 3
  MaxParks = 3
SPECIFICATION ServerSpec
SYMMETRY ServerSymmetry
INVARIANTS ParkedCanIssue
