CONSTANTS
  MaxRuns = 2

SPECIFICATION ScriptsSpec

\* The candidate script ends with its footer, and MaxRuns board runs end.
CHECK_DEADLOCK FALSE

INVARIANTS
  FailuresOnRecord
  HandoffIsWhole
  ExitCodeIsEarned
  NpuPassWasReported
