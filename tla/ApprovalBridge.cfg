CONSTANTS
  command = command patch = patch question = question
  Requests = {patch, question}
  Kind <- MCKind
  Secret = {question}
  Tasks = {t1, t2, t3}
  Decisions = {"accept", "decline"}
  MaxCodexRestarts = 1
  MaxRestarts = 1
  MaxFailures = 1
  None = None
SPECIFICATION Spec
SYMMETRY Symmetry
INVARIANTS TypeOK StoredResponseWasSent OpenRequestIsAnswerable SingleAnswerAgrees
CHECK_DEADLOCK FALSE
