\* Two outputs, one plan, two reclaims of it; the world changes twice.
SPECIFICATION Spec
CONSTANTS
    Targets = {"t1", "t2"}
    Planners = {"p1"}
    Reclaims = {"c1", "c2"}
    MaxChanges = 2
    MaxRestarts = 1
INVARIANTS StalePlanDeletesNothing BusyTreeIsKept
CHECK_DEADLOCK FALSE
