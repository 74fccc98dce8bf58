CONSTANTS
    p1 = p1
    p2 = p2
    p3 = p3
    g1 = g1
    i1 = i1
    i2 = i2
    i3 = i3
    NoId = NoId
    NoPost = NoPost
    Posts <- MCPosts
    Gets <- MCGets
    Ids <- MCIds
    IdOf <- DistinctIds
    ServerIds <- MCServerIds
    PipeCap = 1
    ChildConc = 2
    NotifQueue = 1
    MaxServerMsgs = 2
SPECIFICATION Spec
INVARIANTS ResponseMatchesRequest WaiterReachable NoStaleRegistration
CHECK_DEADLOCK FALSE
