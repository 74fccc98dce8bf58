CONSTANTS
    Slugs = {s1, s2}
    Reqs = {r1, r2}
    Dels = {x1}
    IPs = {ip1}
    PEMs = {pem1}
    NoPEM = NoPEM
    NoSlug = NoSlug
    NoIP = NoIP
    WindowLen = 1
    MaxTime = 2
    MaxLive = 1
    RateLimit = 2
    TTL = 1
    MaxRequests = 2
    MaxFaults = 1
SPECIFICATION FairSpec
PROPERTY ExpiredEventuallySwept
CHECK_DEADLOCK FALSE
