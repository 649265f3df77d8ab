CONSTANTS
  Connections = {c1, c2}
  SessionIds = {s1}
  MaxMessages = 4
  Limits = {2}
  MaxRequests = 3

SPECIFICATION FairSpec

INVARIANTS
  KeepsNewestTurns
  RepliesWellFormed

PROPERTIES
  MemorySpec
  HandlerReturns
