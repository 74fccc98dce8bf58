CONSTANTS
    Slugs = {s1, s2, s3}
    Reqs = {r1, r2}
    Dels = {}
    IPs = {ip1}
    PEMs = {pem1}
    NoPEM = NoPEM
    NoSlug = NoSlug
    NoIP = NoIP
    WindowLen = 1
    MaxTime = 3
    MaxLive = 1
    RateLimit = 1
    TTL = 2
    MaxRequests = 3
    MaxFaults = 1
SPECIFICATION Spec
SYMMETRY Symmetry
INVARIANTS TypeOK NoOrphanRows LiveOvershoot RateOvershoot AnsweredTunnelIsComplete
CHECK_DEADLOCK FALSE
