SPECIFICATION Spec
CONSTANTS
  Procs = {p1, p2}
  Stops = {s1}
  MaxTurns = 1
  MaxToolSteps = 1
  StopOnFailure = FALSE
  SubmitFaults = {"refused", "lost"}
  RuntimeFaults = {"call", "prepare", "teardown"}
  Answers = {"text", "tools", "empty"}
INVARIANTS AtMostOneAfterStop StopIsKept ReleasedIsTrue
SYMMETRY Symmetry
