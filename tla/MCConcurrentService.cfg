SPECIFICATION CSpec

CONSTANTS
    first = first
    second = second
    owner = owner
    chat = chat
    tea = tea
    green = green
    black = black
    planning = planning
    NoTime = NoTime
    NoFact = NoFact
    NoApp = NoApp
    Nothing = Nothing
    Thread <- MCThread
    Caller <- MCCaller
    App <- MCApp
    Entity <- MCEntity
    Text <- MCText
    Topic <- MCTopic
    PreferenceFact <- MCPreferenceFact
    Candidates <- MCCandidates
    ForeseenIds <- NoIds
    Patches <- MCPatches
    Selectors <- MCSelectors
    Scopes <- MCScopes
    Durations <- MCDurations
    MaxEvents = 3
    MaxGrants = 1
    MaxDenials = 2
    MaxCalls = 4
    MaxClock = 0

INVARIANTS
    CallsTypeOK
    ActsWithinRights
    ExplanationIsGrounded
    SupersessionIsLinked
    DeletionIsRepresented

PROPERTIES
    OnlyOverlappingRecordsConflict

SYMMETRY ThreadsAreAlike
