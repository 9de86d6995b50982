SPECIFICATION FairSpec
CONSTANTS
    AutoReconnect = TRUE
    KeepAlive = TRUE
    CheckGatewayPorts = {TRUE, FALSE}
    OutsideClose = FALSE
    MaxAttempts = 1
    MaxGen = 2
    c1 = c1
    c2 = c2
    Conns <- OneConn
INVARIANTS TypeOK ListenerOfClient NothingLeft TrafficOnCurrentSession
PROPERTIES LossIsHandled
