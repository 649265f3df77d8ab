CONSTANTS
  MaxRuns = 1

SPECIFICATION ScriptsSpec

\* The candidate script ends with its footer, and MaxRuns board runs end.
CHECK_DEADLOCK FALSE

INVARIANTS
  SummaryWritten
