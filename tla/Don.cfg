SPECIFICATION Spec
CONSTANTS
    n1 = n1
    n2 = n2
    n3 = n3
    Nodes = {n1, n2, n3}
    None = None
    Own = Own
    Setups <- MCSetups
    MaxReports = 2
    BufferSize = 2
    SkipThreshold = 1
    InvalidThreshold = 2
INVARIANTS TypeOK BufferBacked
PROPERTY NoLeap
CHECK_DEADLOCK FALSE
