CONSTANTS
  dm = dm group = group
  hello = hello later = later clear = clear what = what aside = aside stranger = stranger
  d1 = d1 d2 = d2 d3 = d3 join = join
  Deliveries = {d1, d2}
  Joins = {}
  Messages = {hello, clear, what, aside, stranger}
  Sessions = {dm, group}
  DirectChats = {dm}
  SessionOf <- MCSessionOf
  JoinOf <- MCJoinOf
  Kind <- MCKind
  SentAt <- MCSentAt
  Ttl = 1
  MaxFaults = 2
  None = None
SPECIFICATION FairSpec
INVARIANT OutsidersAreReported
PROPERTY AcceptedIsSettled
CHECK_DEADLOCK FALSE
