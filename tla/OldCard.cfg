CONSTANTS
  command = command patch = patch question = question
  Requests = {command, patch, question}
  Kind <- MCKind
  Secret = {}
  Tasks = {t1, t2, t3}
  Decisions = {"accept", "decline"}
  MaxCodexRestarts = 1
  MaxRestarts = 0
  MaxFailures = 0
  None = None
SPECIFICATION Spec
SYMMETRY Symmetry
PROPERTY ClickAnswersItsRequest
CHECK_DEADLOCK FALSE
