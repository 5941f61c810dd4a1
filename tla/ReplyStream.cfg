CONSTANTS
  MaxOutput = 3
  Followups = {f1, f2}
  MaxFailures = 1
SPECIFICATION FairSpec
INVARIANTS TypeOK SequencesAreAccepted AllOutputIsShown OnlyRetoldIsRepeated ClosedReplyIsSettled FailureIsVisible
PROPERTIES WritesCardsInOrder EndedTurnIsClosed OutputIsShownInTime
CHECK_DEADLOCK FALSE
