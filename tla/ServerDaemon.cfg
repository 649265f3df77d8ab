CONSTANTS
  MaxLines = 2
  MaxSeen = 2
  MaxClock = 2
  MaxKernel = 3

SPECIFICATION Spec

INVARIANTS
  HealthIsTruthful
  NothingLeftOpen
  BusyIsSampledTime
  KernelLinesOnce

PROPERTIES
  Settles

\* The process ends.
CHECK_DEADLOCK FALSE
