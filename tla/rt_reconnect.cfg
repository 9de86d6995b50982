SPECIFICATION Spec
CONSTANTS
    AutoReconnect = TRUE
    KeepAlive = TRUE
    CheckGatewayPorts = {FALSE}
    OutsideClose = TRUE
    MaxAttempts = 2
    MaxGen = 3
    c1 = c1
    c2 = c2
    Conns <- NoConn
INVARIANTS MutexDiscipline
PROPERTIES ListenerClosedBeforeDropped CloseEndsSessions Implements
