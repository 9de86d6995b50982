SPECIFICATION FairSpec
CONSTANTS
    AutoReconnect = TRUE
    KeepAlive = FALSE
    CheckGatewayPorts = {FALSE}
    OutsideClose = FALSE
    MaxAttempts = 1
    MaxGen = 2
    c1 = c1
    c2 = c2
    Conns <- OneConn
PROPERTIES ShutdownCompletes
