SPECIFICATION FairSpec
CONSTANTS
    Ids = {1, 2}
    Callers = {"c1", "c2"}
    Versions = {1, 2}
    Answers = {"pass", "fail"}
    OneDefinition = FALSE
    Faults = {"refused", "lost", "forge", "commons"}
INVARIANTS AtMostOneExecution  PassIsVerified AttemptsOverlap
PROPERTIES StagesMoveForward ReplicationEnds
