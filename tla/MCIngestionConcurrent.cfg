CONSTANTS
    None = None
    Requests = {"r1", "r2"}
    Payloads = {"A", "BD", "D"}
    Messages = {"ann", "bob", "dup"}
    Body <- MCBody
    Identified = {"ann", "dup"}
    Typed = {"ann", "bob"}
    Sender <- MCSender
    Username <- MCUsername
    Group <- MCGroup
    MaxCrashes = 1
    MaxFaults = 1
SPECIFICATION FairSpec
CHECK_DEADLOCK FALSE
INVARIANTS TypeOK OnceOnly JobsHaveRows AnsweredIsStored
PROPERTY Answered
