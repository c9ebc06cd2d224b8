SPECIFICATION Spec

CONSTANTS
    correct = correct
    delete = delete
    denial = denial
    search = search
    Block <- MCBlock
    Single <- MCSingle
    Statements = 2
    MaxInFlight = 3
    MaxBlocks = 2
    MaxCrashes = 1

INVARIANTS
    OnlyRollbackLoses
    LoneBlockIsDurable

SYMMETRY CallsAreAlike

CHECK_DEADLOCK FALSE
