SPECIFICATION MCSpec

CONSTANTS
    earlier = earlier
    first = first
    second = second
    clear = clear
    tea = tea
    create_event = create_event
    get_contact = get_contact
    NoStatement = NoStatement
    ToolLoop = ToolLoop
    Request <- MCRequest
    Refresher <- MCRefresher
    Statement <- MCStatement
    Stated <- MCStated
    ActionTool <- MCActionTool
    LookupTool <- MCLookupTool
    CallLists <- MCCallLists
    MaxToolIterations = 1
    MaxHistoryMessages = 2
    Applications <- BothApplications

INVARIANTS
    TypeOK
    PromptIsWholeExchanges
    SuccessfulTurnsAreCaptured
    RefreshForgets
    AnswersShowTheirTurn
    TurnsAreNumbered

PROPERTIES
    StartedTurnsEnd

CHECK_DEADLOCK FALSE
