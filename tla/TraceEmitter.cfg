SPECIFICATION Spec
CONSTANTS
  Subscribers = {r1, r2}
  Sessions = {chat}
  AnySession = AnySession
  MaxEvents = 3
  QueueSize = 2
  MaxEmits = 3
  MaxClock = 2
SYMMETRY Symmetry
INVARIANTS Consistent DeliveredInOrder OnlyWanted ReplayIsNewest
PROPERTIES NeverHandedTwice FanoutSpec
CHECK_DEADLOCK FALSE
