SPECIFICATION ServiceSpec
CONSTANTS
    Conns = {"c1", "c2", "c3", "c4", "c5", "b1", "b2", "b3", "b4", "b5"}
    Crowds <- MCCrowds
    Ids = {"r1", "r2", "r3", "r4", "b1", "b2", "b3", "b4", "b5"}
    Grants = {"g1", "g2", "g3", "g4", "g5"}
    Repositories = {"p1", "p2", "p3"}
    Sessions = {"s1", "s2"}
    Request <- MCRequest
    Carries <- MCCarries
    Holders <- MCHolders
    Issued <- MCIssued
    Expiring = {"g4"}
    Ending = {"g2"}
    Outcomes = {"exits", "times out"}
    MaxRecords = 1
    MaxRestarts = 1
    Bridged <- MCBridged
    Names = {"none", "s1"}
    Pids <- MCPids
    MaxStarts = 2
    Settings <- MCSettings
    Births <- MCBirths
    Client <- MCClient
    Rows <- MCRows
INVARIANTS RunsUnderItsGrant CallIsExact LastingWorkIsSeen
PROPERTIES KeepsTheLedger EveryRequestAnswered
CHECK_DEADLOCK FALSE
