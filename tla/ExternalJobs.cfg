\* Two upstream jobs share one worker; a call of _persist may raise anywhere.
CONSTANTS
    e1 = e1  e2 = e2
    Terminals = {}
    Externals = {e1, e2}
    MaxJobs = 1
    PersistOutcomes = {"saved", "raised"}
SPECIFICATION FairSpec
INVARIANTS AdapterSupervised StatusTellsOwnership
PROPERTIES ActiveSettles StopEndsAdapter SettledOnlyDetached
