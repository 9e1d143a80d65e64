SPECIFICATION FairSpec
CONSTANTS
  Requests = {"talk"}
  EventCap = 1
  MaxPush = 1
INVARIANTS KickedStaysOff StoppedStaysDown
PROPERTIES StopTakesEffect SilenceIsNoticed
CHECK_DEADLOCK FALSE
