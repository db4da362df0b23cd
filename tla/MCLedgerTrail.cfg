CONSTANTS
    None = None
    Txns = {"t1", "t2"}
    Sessions = {"batch", "edit", "again", "third"}
    Values <- MCValues
    Plan <- MCPlan
    Annotate <- MCAnnotate
SPECIFICATION FairSpec
CHECK_DEADLOCK FALSE
INVARIANT BooksMatchTrail
PROPERTIES OnlyNamedColumns EverySessionEnds
