CONSTANTS
    None = None
    Messages = {"pay", "edit"}
    Kind <- MCKind
    Original <- MCOriginal
    Content <- MCContent
    Fallback = {}
    Extractions = {"parsed"}
    MaxBatch = 2
    MaxBatches = 2
    MaxReviews = 1
    MaxCrashes = 0
    MaxErrors = 0
SPECIFICATION Spec
CHECK_DEADLOCK FALSE
PROPERTY InvalidationStands
