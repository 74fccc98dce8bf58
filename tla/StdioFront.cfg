CONSTANTS
    Script <- MCScript
    InitMsg = "init"
    Notifs <- MCNotifs
    MaxSessions = 3
    MaxFaults = 2
SPECIFICATION FairSpec
INVARIANTS TypeOK RepliesBeforeExit NoSessionLeft
PROPERTIES RequestsAnswered ShutdownEnds StreamFollowsSession
CHECK_DEADLOCK FALSE
