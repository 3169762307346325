SPECIFICATION FairSpec
CONSTANTS
    Msgs = {m1, m2}
    Nil = Nil
    Results = {accept}
    Zero = Zero
    QSize = 0
    Workers = 0
    Programs <- MCBoots
    MaxOps = 2
    Live = {}
    Deadline = TRUE
PROPERTY OwnerReturns
CHECK_DEADLOCK FALSE
