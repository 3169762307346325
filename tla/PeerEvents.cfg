SPECIFICATION Spec
CONSTANTS
    p1 = p1
    p2 = p2
    Peers = {p1, p2}
    Adds = {p1}
    Rejects = {r1, r2}
    QSize = 1
    MaxFound = 2
    MaxCalls = 2
    MaxSamples = 2
    Configs <- MCConfigs
INVARIANTS TypeOK ShutdownClean CountersLag
PROPERTY CloseCompletes
CHECK_DEADLOCK FALSE
