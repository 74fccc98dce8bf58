CONSTANTS
    k1 = k1
    c1 = c1
    c2 = c2
    q1 = q1
    NoConn = NoConn
    Keys <- MCKeys
    Conns <- MCConns
    Dials <- MCDials
    InitialBackoff = 1
    MaxBackoff = 3
    MaxFaults = 2
SPECIFICATION RelayFairSpec
INVARIANT RelayTypeOK
PROPERTIES RelayImplementsExchange GatedRequestsEnd EventuallyServed StoppedGoesOffline AbandonedHandlersReturn
CHECK_DEADLOCK FALSE
