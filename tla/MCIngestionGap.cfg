CONSTANTS
    None = None
    Requests = {"r1"}
    Payloads = {"A", "B"}
    Messages = {"ann", "bob"}
    Body <- MCBody
    Identified = {"ann"}
    Typed = {"ann", "bob"}
    Sender <- MCSender
    Username <- MCUsername
    Group <- MCGroup
    MaxCrashes = 1
    MaxFaults = 0
SPECIFICATION Spec
CHECK_DEADLOCK FALSE
INVARIANT AnsweredIsQueued
