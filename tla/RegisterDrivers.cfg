CONSTANTS
  SessionIds <- MCSessionIds
  ManifestIds <- MCManifestIds
  Characters <- MCCharacters
  Tokens <- MCTokens
  PromptLength = 4
  PollLimit = 3
  CounterRange = 16
  PollsPerUs = 3
  MaxTimeout = 6
  MaxInFlight = 2
  ArgsOf <- MCArgsOf
  FifoDepth = 3
  MaxPrograms = 3
  MaxWords = 4
  MaxStatus = 2
  CmdDepth = 2
  StsDepth = 1
  CommandArgs <- MCCommandArgs
  Bases = {16, 20}
  MaxCommands = 3

SPECIFICATION RegistersSpec

\* main returns and a read of an empty status FIFO never returns; bounds end the histories.
CHECK_DEADLOCK FALSE

INVARIANTS
  HostsAgree
  InOrder
  SuccessIsComplete
  InstructionIntact
  TimeoutIsThatLong
  ProgramsRunWhole
  CommandsReachChannel
  StatusIsOurs

PROPERTY MainReturns
