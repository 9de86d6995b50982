SPECIFICATION FairSpec
CONSTANTS
    g1 = g1
    g2 = g2
    g3 = g3
    Callers <- ThreeCallers
    MaxFailures = 3
    HalfOpenMax = 2
    ResetTimeout = 2
    CountCap = 4
INVARIANTS ClosedBelowThreshold
PROPERTIES TripsOnFailureRun Recovers
