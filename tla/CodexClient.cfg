CONSTANTS
  run = run hello = hello later = later approve = approve
  Requesters = {run, hello, later}
  Responders = {}
  Starter = run
  Closer = shutdown
  MaxConnections = 2
  MaxMessages = 1
  Slow = {hello, 1}
SPECIFICATION LiveSpec
INVARIANTS TypeOK UsedConnectionIsRead OwnAnswer WaitingIsWatched CloseSettlesEarlier
PROPERTIES SetOnce RequestsSettle CloseEnds
CHECK_DEADLOCK FALSE
