CONSTANTS
  c1 = c1
  c2 = c2
  Clients <- MCClients
  Csrs <- MCCsrs
  NoClient = NoClient
  Configs <- MCConfigs
  PendingCap = 2
  MaxIssues = 2
  MaxParks = 4
  OwnKeys = {k1, k2}
  Nothing = Nothing
  Torn = Torn
  Device = c1
  Modes = {"randomised", "deterministic", "none"}
  PollAttempts = 1
  MaxRuns = 2
SPECIFICATION EstEnrollSpec
INVARIANT PollsAsTold
CHECK_DEADLOCK FALSE
