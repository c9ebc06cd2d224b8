SPECIFICATION Spec

CONSTANTS
    owner = owner
    agent = agent
    chat = chat
    tea = tea
    green = green
    black = black
    trip = trip
    planning = planning
    NoTime = NoTime
    NoFact = NoFact
    NoApp = NoApp
    Caller <- MCCaller
    App <- MCApp
    Entity <- MCEntity
    Text <- MCText
    Topic <- MCTopic
    PreferenceFact <- MCPreferenceFact
    Candidates <- GovernanceCandidates
    ForeseenIds <- NoIds
    Patches <- NoPatches
    Selectors <- GovernanceSelectors
    Scopes <- GovernanceScopes
    Durations <- MCDurations
    MaxEvents = 2
    MaxGrants = 2
    MaxDenials = 1
    MaxClock = 1

INVARIANTS
    IndexChangesNoDecision

PROPERTIES
    EffectsAreAuthorized

SYMMETRY CallersAreAlike

