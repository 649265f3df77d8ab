CONSTANTS
  MaxAttempts = 3
  MaxBuilds = 1

SPECIFICATION Spec

INVARIANTS
  NeverLoadsMixed
  CompleteIsProgrammed

PROPERTIES
  CheckedIsProgrammed
