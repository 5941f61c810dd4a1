CONSTANTS
  Tasks = {t1, t2, t3}
  Keys = {k1, k2}
  None = None
SPECIFICATION FairSpec
INVARIANTS TypeOK OneOperationPerSession EntriesTrackUsers
PROPERTIES ServesInArrivalOrder EveryCallIsServed
CHECK_DEADLOCK FALSE
