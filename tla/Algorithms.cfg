SPECIFICATION Spec
CONSTANTS
  NoKu = NoKu
  NoPin = NoPin
  MaxCerts = 3
  SizeLimit = 15
  Missing = Missing
  KeyTypes = {"rsa", "ecc", "ed25519"}
  Hashes = {256, 384}
  Absent = Absent
  Truncated = Truncated
  Scratch = 8
  Nothing = Nothing
  Inputs <- MCInputs
INVARIANTS
  TrustedRecipient
  ChunksAsSent
  WaitsRight
  PolicyFollowed
  MessagesAsWritten
CHECK_DEADLOCK FALSE
