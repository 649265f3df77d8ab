SPECIFICATION FairSpec
CONSTANTS
  Subscribers = {r1, r2}
  Sessions = {chat}
  AnySession = AnySession
  MaxEvents = 1
  QueueSize = 2
  MaxEmits = 2
  MaxClock = 1
PROPERTIES OffersRun QueuedIsTaken
CHECK_DEADLOCK FALSE
