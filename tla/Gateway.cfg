CONSTANTS
    k1 = k1
    k2 = k2
    c1 = c1
    c2 = c2
    c3 = c3
    d1 = d1
    NoConn = NoConn
    Keys <- MCKeys
    Conns <- MCConns
    Dials <- MCDials
SPECIFICATION Spec
INVARIANTS EntryHasOwner NoOrphanSession StreamReachesDialedKey
PROPERTY OnlyDeadSessionsUnregistered
