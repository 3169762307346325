SPECIFICATION Spec
CONSTANTS
    Calls = {c1, c2}
    Ids = {i1, i2}
    Streams = {s1, s2}
    None = None
    Answers = {"ACCEPT", "REJECT", "NIL"}
    QSize = 1
SYMMETRY MCSymmetry
INVARIANTS TypeOK FailClosed NoDanglingWaiter WaiterIsRegistered JudgedOnce
CHECK_DEADLOCK FALSE
