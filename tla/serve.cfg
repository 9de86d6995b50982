SPECIFICATION FairSpec
CONSTANTS
    c1 = c1
    c2 = c2
    Conns <- TwoConns
    MaxOutput = 1
INVARIANTS NothingRunning NilMeansServed
PROPERTIES StopsOnCancel 
