SPECIFICATION FairSpec
CONSTANTS
    d1 = d1
    d2 = d2
    Callers <- TwoCallers
    MaxGen = 2
INVARIANTS NothingLeftOpen
PROPERTIES Implements DialUsesCurrentSession LossIsNoticed DialReturns
