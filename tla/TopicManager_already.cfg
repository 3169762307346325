SPECIFICATION FairSpec
CONSTANTS
    Calls = {1, 2, 3}
    None = None
    Topics = {t1}
    Scripts <- MCSubscriptions
    Filters <- MCNoFilter
    HasValidator = FALSE
    Widths = {1}
PROPERTY AlreadyMeansLive
CHECK_DEADLOCK FALSE
