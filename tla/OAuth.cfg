CONSTANTS
    Slugs = {s1, s2}
    IPs = {ip1}
    PEMs = {k1, k2, k3}
    ClientIds = {c1}
    CodeIds = {q1}
    URIs = {u1}
    Verifiers = {v1, v2}
    Auths = {a1}
    Toks = {t1, t2}
    Accs = {x1}
    NoPEM = NoPEM
    NoToken = NoToken
    NoSlug = NoSlug
    WindowLen = 1
    MaxTime = 1
    TTL = 1
    CodeTTL = 1
    MaxFaults = 2
SPECIFICATION Spec
SYMMETRY Symmetry
INVARIANTS TypeOK CodeRedeemedOnce GatedAccessTraceable CachedKeyIsStored TokenDiesWithTenant
CHECK_DEADLOCK FALSE
