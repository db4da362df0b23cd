CONSTANTS
    None = None
    Legacy = Legacy
    Malformed = Malformed
    Absent = Absent
    Messages = {"p1", "p2", "p3", "chat", "gone"}
    Missing = {"gone"}
    Texts = {"lunch", "rent", "how much?"}
    Workers = {"w1"}
    Text <- MCText
    Signals <- MCSignals
    Negative = {"rent", "how much?"}
    Epoch <- MCEpoch
    Received <- MCReceived
    Items <- MCItems
    MaxItems = 2
    MaxBatch = 2
    MaxAttempts = 2
    Past = 2
    Future = 1
    TTL = 2
    MaxDay = 2
SPECIFICATION FairSpec
CHECK_DEADLOCK FALSE
INVARIANTS ResultsBelong CacheRoundTrip NothingSilentlyDropped
PROPERTIES BookedNearMessage ContractSpec BatchesEnd
