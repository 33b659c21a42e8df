SPECIFICATION Spec
CONSTANTS
  Procs = {"p1"}
  Stops = {"s1"}
  MaxTurns = 2
  MaxToolSteps = 0
  StopOnFailure = FALSE
  SubmitFaults = {}
  RuntimeFaults = {}
  Answers = {"text"}
PROPERTIES SettledTurnsAreKept
