CONSTANTS
    run = run
    expose = expose
    r1 = r1
    r2 = r2
    r3 = r3
    NoReq = NoReq
    NoProc = NoProc
    NoEntry = NoEntry
    Procs <- MCProcs
    Reqs <- MCReqs
    ProcOf <- MCProcOf
    Replayable <- MCReplayable
    MaxTokens = 2
    MaxFaults = 1
SPECIFICATION FairSpec
INVARIANTS TypeOK RestartCanRefresh NoSelfRefusal
PROPERTIES RetryNotFromCache RequestsEnd
CHECK_DEADLOCK FALSE
