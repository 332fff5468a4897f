CONSTANTS
  Keys = {"a", "b"}
  Values = {v1, v2}
  NoValue = NoValue
  Empty = Empty
SPECIFICATION MemSpec
PROPERTIES WritesAtomically
