\* A terminal job and an upstream job share the table, the lock, the document
\* and the service process; _persist may fail anywhere.
CONSTANTS
    t1 = t1  e1 = e1
    Terminals = {t1}
    Externals = {e1}
    MaxJobs = 1
    PersistOutcomes = {"saved", "raised"}
    Fenced = {t1}
    Related = {t1}
    Requester = {}
SPECIFICATION ManagerSpec
INVARIANT SharedTable
