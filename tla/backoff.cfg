SPECIFICATION FairDo
CONSTANTS
    Backoffs <- Chosen
    DefaultInitial = 8
    DefaultMax = 64
INVARIANTS HonestResult WaitsAreExponential
PROPERTIES DoReturns
