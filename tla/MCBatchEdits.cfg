CONSTANTS
    None = None
    Messages = {"pay", "edit", "revoke", "chat"}
    Kind <- MCKind
    Original <- MCOriginal
    Content <- MCContent
    Fallback = {}
    Extractions = {"parsed", "REJECTED_LOW_CONFIDENCE"}
    MaxBatch = 3
    MaxBatches = 3
    MaxReviews = 1
    MaxCrashes = 1
    MaxErrors = 0
SPECIFICATION Spec
CHECK_DEADLOCK FALSE
INVARIANTS TypeOK BooksMatchAudit RevokeHonoured EditNotDuplicated PaymentAccounted RoutingLostOnlyBehindFlush
