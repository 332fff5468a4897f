CONSTANTS
  Servers = {s1, s2}
  Procs = {s1, s2}
  Keys = {"ca.cert.der", "ca.key.der"}
  Values = {1, 2, 3, 4}
  NoCa = NoCa
  NoValue = NoCa
  Torn = Torn
  MaxCas = 4
  MaxStarts = 5
  MaxWrites = 7
  MaxOutages = 1
SYMMETRY CaOnDiskSymmetry
SPECIFICATION CaOnDiskSpec
INVARIANTS NeverTorn KeptWhilePowered ServesMatchedPair
PROPERTIES WritesAtomically HalfPairOutlivesCrash
CHECK_DEADLOCK FALSE
