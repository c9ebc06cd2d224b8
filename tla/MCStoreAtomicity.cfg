SPECIFICATION Spec

CONSTANTS
    correct = correct
    delete = delete
    denial = denial
    search = search
    Block <- MCBlock
    Single <- OneSingle
    Statements = 2
    MaxInFlight = 2
    MaxBlocks = 1
    MaxCrashes = 0

INVARIANT AllOrNothing

CHECK_DEADLOCK FALSE
