SPECIFICATION FairSpec
CONSTANTS
    AutoReconnect = FALSE
    KeepAlive = TRUE
    CheckGatewayPorts = {TRUE, FALSE}
    OutsideClose = TRUE
    MaxAttempts = 1
    MaxGen = 1
    c1 = c1
    c2 = c2
    Conns <- TwoConns
PROPERTIES ShutdownCompletes
