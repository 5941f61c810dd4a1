CONSTANTS
  dm = dm group = group
  hello = hello later = later clear = clear what = what aside = aside stranger = stranger
  d1 = d1 d2 = d2 d3 = d3 join = join
  Deliveries = {d1, d2, d3}
  Joins = {join}
  Messages = {hello, later, clear}
  Sessions = {dm, group}
  DirectChats = {dm}
  SessionOf <- MCSessionOf
  JoinOf <- MCJoinOf
  Kind <- MCKind
  SentAt <- MCSentAt
  Ttl = 1
  MaxFaults = 0
  None = None
SPECIFICATION Spec
INVARIANT CompletionEndsReply
CHECK_DEADLOCK FALSE
