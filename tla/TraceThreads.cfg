CONSTANTS
  Subscribers = {s1, s2}
  Workers = {w1}
  Loop = loop
  MaxEvents = 2
  MaxEmits = 3

SPECIFICATION Spec

SYMMETRY Symmetry

INVARIANTS
  NoSilentLoss
