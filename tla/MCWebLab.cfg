SPECIFICATION Spec

CONSTANTS
    first = first
    second = second
    other = other
    delete = delete
    alice = alice
    stranger = stranger
    dinner = dinner
    None = None
    Self = self
    SeedContact = alice
    SeedThread = dinner
    Contact <- MCContact
    Thread <- MCThread
    Request <- MCRequest
    Loop <- MCLoop
    Pool <- MCPool
    Deletion <- MCDeletion
    ToolCalls <- MCToolCalls
    MaxToolCalls = 1
    MaxCrashes = 1

INVARIANTS
    TypeOK
    ReportedItemsStay
    SeededWhenServed
    RowsReferToContacts
    OnlyRivalsLockOut
    DeletedStayDeleted

PROPERTIES
    ActsAsOneStore

SYMMETRY LoopIsSymmetric

CHECK_DEADLOCK FALSE
