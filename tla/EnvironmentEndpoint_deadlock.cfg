SPECIFICATION FairSpec
CONSTANTS
    Conns = {"c1", "c2", "c3"}
    Crowds <- MCCrowds
    Ids = {"r1", "r2"}
    Grants = {"g1", "g2"}
    Repositories = {"p1"}
    Sessions = {"s1", "s2"}
    Request <- MCRequest
    Carries <- MCCarries
    Holders <- MCHolders
    Issued <- MCIssued
    Expiring = {}
    Ending = {}
    Outcomes = {"exits"}
    MaxRecords = 2
    MaxRestarts = 0
PROPERTIES EveryRequestAnswered
CHECK_DEADLOCK FALSE
