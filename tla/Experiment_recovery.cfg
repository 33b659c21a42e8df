SPECIFICATION FairSpec
CONSTANTS
  Procs = {"p1", "p2"}
  Stops = {}
  MaxTurns = 2
  MaxToolSteps = 1
  StopOnFailure = FALSE
  SubmitFaults = {}
  RuntimeFaults = {"teardown"}
  Answers = {"text", "tools", "bad"}
INVARIANTS NoOrphanedWork
PROPERTIES SettledTurnsAreKept LeaseIsReleased Ends
