SPECIFICATION Spec

CONSTANTS
    correct = correct
    delete = delete
    denial = denial
    search = search
    Block <- MCBlock
    Single <- MCSingle
    Statements = 3
    MaxInFlight = 1
    MaxBlocks = 1
    MaxCrashes = 1

INVARIANTS
    TypeOK
    NothingPending

PROPERTIES
    IsAtomicStore

CHECK_DEADLOCK FALSE
