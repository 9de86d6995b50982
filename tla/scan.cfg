SPECIFICATION FairSpec
CONSTANTS
    N = 4
    MaxScans = 2
INVARIANTS DialsLimited NobodyLeftBehind
PROPERTIES Implements ScanReturns
