CONSTANTS
    j1 = j1  j2 = j2  m1 = m1  w1 = w1
    Jobs = {j1, j2}
    Poison = {m1}
    Missing = {}
    Workers = {w1}
    MaxRetries = 1
    BatchSize = 2
    MaxCrashes = 1
    MaxStops = 1
    MaxFaults = 1
SPECIFICATION FairSpec
CONSTRAINT FewTroubles
CHECK_DEADLOCK FALSE
INVARIANTS TypeOK NoJobLost RetriesEarned EffectsAtMostOnce ActiveMirrorsBatch
PROPERTIES AtLeastOnceSpec Drains
