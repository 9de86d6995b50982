SPECIFICATION Spec
CONSTANTS
    c1 = c1
    c2 = c2
    Conns <- TwoConns
    MaxReconnects = 2
    MaxErrors = 4
INVARIANTS SnapshotSound CountsSettle
