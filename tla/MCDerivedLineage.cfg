SPECIFICATION Spec

CONSTANTS
    owner = owner
    agent = agent
    chat = chat
    tea = tea
    green = green
    black = black
    trip = trip
    planning = planning
    NoTime = NoTime
    NoFact = NoFact
    NoApp = NoApp
    Caller <- OwnerOnly
    App <- MCApp
    Entity <- MCEntity
    Text <- MCText
    Topic <- MCTopic
    PreferenceFact <- MCPreferenceFact
    Candidates <- DerivedCandidates
    ForeseenIds <- NoIds
    Patches <- MCPatches
    Selectors <- MCSelectors
    Scopes <- AnyScopeOnly
    Durations <- MCDurations
    MaxEvents = 3
    MaxGrants = 1
    MaxDenials = 1
    MaxClock = 0

INVARIANT DerivedKeepLineage

