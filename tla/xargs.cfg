SPECIFICATION Spec
CONSTANTS
  Words = {"a", "ccc", "E"}
  Length <- MCLength
  EofWord = "E"
  BaseSize = 4
  Supported = 20
  LineMax = 12
  ReplArgs = 1
  ReplArgMax = 5
  ReplSizeMax = 5
  Jobs = {1, 2, 3, 4}
  Codes = {0, 255}
  Forking = {1}
  Exposed = {2}
  Cases <- MCCases
CHECK_DEADLOCK FALSE
INVARIANTS TypeOK PlanIsPacking SlotsRespected StopIsHeeded OutputWhole ExitIsWorst ZeroMeansDone
PROPERTIES Terminates
