SPECIFICATION Spec
CONSTANTS
    N = 4
    Self = 1
    Seqs <- MCSeqs
    Worlds <- MCPair
    Forged <- MCNone
    None = None
    BufferSize = 2
    SkipThreshold = 3
    InvalidThreshold = 5
    Width = 3
INVARIANT SignsOnce
CHECK_DEADLOCK FALSE
