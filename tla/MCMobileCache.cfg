CONSTANTS
    None = None
    Ids = {"t1", "t2"}
    FirstPage = {"t1"}
    Creations = {"c1"}
    Edits = {"e1"}
    Target <- MCTarget
    Operations = {"o1", "o2"}
    MaxRetries = 1
    MaxVersion = 1
    MaxCrashes = 1
SPECIFICATION Spec
CHECK_DEADLOCK FALSE
INVARIANTS SerialChangesKept LockStaysCleared
PROPERTIES MergeKeepsPending SuccessIsShown
