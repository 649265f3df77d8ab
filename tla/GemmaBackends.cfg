CONSTANTS
  Threads = {t1, t2}
  MaxActive = 2
  PromptLen = 2
  MaxNewTokens = 2
  SimTokens = 3
  MaxTimeouts = 2
  MaxContext = 6
  Chats = {t1, t2}
  SessionNames = {tab}
  Arch <- MCArch
  MaxSeqLen = 2
  PromptLens = {1, 2}
  MaxTokens = 2
  MaxCalls = 2

SPECIFICATION BackendsSpec

SYMMETRY Symmetry

\* The bounds on calls, and on the commands since a reset, may hold up all.
CHECK_DEADLOCK FALSE

INVARIANTS
  OwnContext
  TokenOnce
  WeightsFirst
  ReadsOwnPast
  WeightsWhole
  FailsForCause
