CONSTANTS
  k1 = k1
  k2 = k2
  t1 = t1
  t2 = t2
  Keys = {k1, k2, k3, k4}
  OwnKeys = {k1, k2}
  NoKey = NoKey
  Nothing = Nothing
  Torn = Torn
  Subjects = {s1}
  Tids = {t1, t2, t3}
  KeyTid <- MCKeyTid
  Configs <- MCConfigs
  TxidModes = {"random", "pubkey", "none"}
  PendingMax = 2
  IssuedMax = 2
  MaxIssues = 3
  MaxParks = 3
  PollAttempts = 1
  MaxRuns = 2
SPECIFICATION ScepEnrollSpec
INVARIANTS OneEntryPerTransaction IssuedOncePerApproval RegistryKeepsNewest
  OwnCertificate OneCertPerRun PairOnDisk ParkedForPoll
PROPERTIES ParkedUntilReleased EnrollEnds
CHECK_DEADLOCK FALSE
