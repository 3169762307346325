SPECIFICATION FairSpec
CONSTANTS
    Calls = {1, 2, 3}
    None = None
    Topics = {t1}
    Scripts <- MCScripts
    Filters <- MCFilters
    HasValidator = TRUE
    Widths = {1, 3}
INVARIANTS TypeOK UpgradeSucceeds HandlesInPlace EverySubHasListener ValidatedSoon InStep
PROPERTY CallsReturn
CHECK_DEADLOCK FALSE
