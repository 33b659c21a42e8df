\* Two jobs compete for one slot around a claim recovery, whose request t2
\* carries; a call of _persist may raise anywhere.
CONSTANTS
    t1 = t1  t2 = t2
    Terminals = {t1, t2}
    Externals = {}
    MaxJobs = 1
    PersistOutcomes = {"saved", "raised"}
    Fenced = {t1, t2}
    Related = {t1, t2}
    Requester = {t2}
SPECIFICATION FairSpec
INVARIANTS LiveBound LiveIsRecorded RefusedLeavesNothing GrantHasOwner
           DurableFinalIsTrue QuietWhileAttested
PROPERTIES DurableFinalIsStable RunningSettles MonitoredGrantIsRevoked
