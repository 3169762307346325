SPECIFICATION FairSpec
CONSTANTS
    Msgs = {m1, m2}
    Nil = Nil
    Results = {accept}
    Zero = Zero
    QSize = 1
    Workers = 1
    Programs <- MCPrograms
    MaxOps = 4
    Live <- MCLive
    Deadline = TRUE
INVARIANTS TypeOK Conserved Accounted LoopsBalanced
PROPERTIES ContractHolds AcceptedIsHandled OwnerReturns
CHECK_DEADLOCK FALSE
