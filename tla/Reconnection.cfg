CONSTANTS
  run = run hello = hello later = later approve = approve
  Requesters = {run, hello}
  Responders = {approve}
  Starter = run
  Closer = shutdown
  MaxConnections = 2
  MaxMessages = 1
  Slow = {hello, 1}
SPECIFICATION Spec
INVARIANT RequestsAreInitialized
CHECK_DEADLOCK FALSE
