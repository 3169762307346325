SPECIFICATION Spec
CONSTANTS
    N = 4
    Self = 1
    Seqs <- MCSeqs
    Worlds <- MCWorlds
    Forged <- MCForged
    None = None
    BufferSize = 2
    SkipThreshold = 3
    InvalidThreshold = 5
    Width = 3
INVARIANTS TypeOK LeaderStarts FinalsBacked AllSharesPublish
PROPERTY LatestCreeps
CHECK_DEADLOCK FALSE
