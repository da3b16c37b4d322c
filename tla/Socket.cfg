\* Two tasks, two objects, two descriptors.
CONSTANTS
  server = server
  client = client
  Uses <- MCUses
  NoTask = NoTask
  Descriptors = {0, 1}
  Timeouts = {0, 1}
  Never = 0
  MaxSockets = 2
SPECIFICATION SFairSpec
INVARIANTS STypeOK ResultsOfOneMutex TimeoutInForce LostByDoubleClose
PROPERTIES CallsReturn
\* The tasks stop when they have made and destroyed all the objects there may be.
CHECK_DEADLOCK FALSE
