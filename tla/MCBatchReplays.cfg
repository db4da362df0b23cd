CONSTANTS
    None = None
    Messages = {"pay", "twin", "echo", "gone"}
    Kind <- MCKind
    Original <- MCOriginal
    Content <- MCContent
    Fallback = {"twin", "echo"}
    Extractions = {"review_needed", "AI_EXTRACTION_FAILED"}
    MaxBatch = 2
    MaxBatches = 3
    MaxReviews = 0
    MaxCrashes = 1
    MaxErrors = 1
SPECIFICATION Spec
CHECK_DEADLOCK FALSE
INVARIANTS EffectsInOneCommit OneTransactionPerContent ReviewsRaised
