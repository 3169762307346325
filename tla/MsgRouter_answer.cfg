SPECIFICATION FairSpec
CONSTANTS
    Msgs = {m1, m2}
    Nil = Nil
    Results = {accept}
    Zero = Zero
    QSize = 1
    Workers = 1
    Programs <- MCStarts
    MaxOps = 1
    Live = {}
    Deadline = FALSE
PROPERTY HandleWaitAnswers
CHECK_DEADLOCK FALSE
