SPECIFICATION Spec
CONSTANTS
    Exps = {"e1", "e2"}
    Models = {"m1", "m2"}
    Uses <- MCUses
    Warm = {"m1"}
    Refs = {"r1"}
    Publishers = {"w1", "w2"}
    Publishes <- MCPublishes
    Faults = {"prepare", "release", "delivery"}
    MaxCrashes = 1
INVARIANTS WarmModelIsKept RevisionsAreLinked
PROPERTIES EvidenceIsKept
CHECK_DEADLOCK FALSE
