SPECIFICATION FairSpec
CONSTANTS
    Calls = {1, 2, 3}
    None = None
    Topics = {t1}
    Scripts <- MCJoins
    Filters <- MCNoFilter
    HasValidator = FALSE
    Widths = {2}
INVARIANT JoiningHasJoiner
CHECK_DEADLOCK FALSE
