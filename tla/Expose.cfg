SPECIFICATION FairSpec
INVARIANT ExitDeletes
PROPERTIES InterruptEnds TunnelGoes
CHECK_DEADLOCK FALSE
