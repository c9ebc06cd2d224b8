------------------------------ MODULE AgentTurns ------------------------------
(***************************************************************************)
(* Chat turns of the web lab: requests that run turns of one AgentSession, *)
(* and requests that refresh the chat.  A turn reads the recent history,   *)
(* builds the memory context, calls the model, executes the tools it asks  *)
(* for and calls it again, captures what is worth remembering, extends the *)
(* history, takes a snapshot and answers.  Any part that calls the model,  *)
(* a tool or the memory service may raise.                                 *)
(*                                                                         *)
(* With several users the chat route is a coroutine that never waits       *)
(* during a turn, so turns run one after the other on the event loop; the  *)
(* single-user application runs them on a thread pool.  Refreshing runs on *)
(* the thread pool in both.                                                *)
(*                                                                         *)
(* Abstractions.  Ids of captured events are not modelled.  A message is   *)
(* the correction it states, or none.  A tool result is its observation.   *)
(* What capture records is the fingerprint of a candidate, whether the     *)
(* service stores an event for it, puts it into quarantine or answers with *)
(* the active event that says the same; that events are deleted later is   *)
(* MemoryService's subject.                                                *)
(***************************************************************************)
EXTENDS FiniteSets, Integers, Sequences

CONSTANTS
    Request,             \* the chat requests, one turn each
    Refresher,           \* the refresh requests
    Statement,           \* corrections that messages state
    NoStatement,         \* what a message without a correction states
    Stated,              \* what the message of each request states
    ActionTool,          \* phone tools whose observations are captured
    LookupTool,          \* all other tools
    ToolLoop,            \* the name under which the loop limit is reported
    CallLists,           \* the tool calls a response of the model may contain
    MaxToolIterations,
    MaxHistoryMessages,
    Applications         \* the applications that may serve the requests

Tool == ActionTool \cup LookupTool

ASSUME AgentTurnsAssumption ==
    /\ NoStatement \notin Statement
    /\ Stated \in [Request -> Statement \cup {NoStatement}]
    /\ ToolLoop \notin Tool
    /\ CallLists \subseteq Seq(Tool) \ {<<>>}
    /\ MaxToolIterations \in Nat
    /\ MaxHistoryMessages \in Int
    /\ Applications \subseteq {"single_user", "multi_user"}

Observation == [tool: Tool \cup {ToolLoop}, error: BOOLEAN]

(* What identifies a candidate: the statement of a correction, or the      *)
(* observations of a session summary.                                      *)
Fingerprint ==
    [kind: {"correction"}, of: Statement]
        \cup [kind: {"summary"}, of: Seq(Observation)]

Message == [role: {"user", "assistant"}, request: Request]

TurnSnapshot == [request: Request, index: Nat]

VARIABLES
    application,     \* which application runs, once and for all
    turn,            \* what each chat request is in the middle of
    refresh,         \* what each refresh request is in the middle of
    history,         \* AgentSession._history
    seen,            \* SessionCapture._seen_fingerprints
    memories,        \* what capture has recorded in the service
    turn_snapshots   \* LabState.turn_snapshots: who took it, and its number

vars == <<application, turn, refresh, history, seen, memories, turn_snapshots>>

Steps ==
    {"new", "context", "complete", "tools", "flush", "record", "remember",
     "extend", "snapshot", "append", "respond", "done"}

(* prompt: the recent conversation the model gets; calls: tool calls of    *)
(* the last response still to be executed; done: what the tools were seen  *)
(* to do; candidates: what is still to be captured; index: the number of   *)
(* the snapshot that is being taken.                                       *)
NewTurn ==
    [step |-> "new", prompt |-> <<>>, calls |-> <<>>, iteration |-> 0,
     done |-> <<>>, candidates |-> <<>>, failed |-> FALSE, index |-> 0,
     answer |-> "none"]

NewRefresh == [step |-> "new", before |-> {}]

(* What a turn adds to the history.                                        *)
Exchange(r) ==
    <<[role |-> "user", request |-> r], [role |-> "assistant", request |-> r]>>

TypeOK ==
    /\ application \in Applications
    /\ \A r \in Request :
          /\ turn[r].step \in Steps
          /\ turn[r].prompt \in Seq(Message)
          /\ turn[r].calls \in Seq(Tool)
          /\ turn[r].iteration \in 0 .. MaxToolIterations
          /\ turn[r].done \in Seq(Observation)
          /\ turn[r].candidates \in Seq(Fingerprint)
          /\ turn[r].index \in Nat
    /\ \A f \in Refresher :
          /\ refresh[f].step \in {"new", "snapshots", "done"}
          /\ refresh[f].before \subseteq Request
    /\ history \in Seq(Message)
    /\ \A fingerprint \in seen : fingerprint \in Fingerprint
    /\ \A fingerprint \in memories : fingerprint \in Fingerprint
    /\ turn_snapshots \in Seq(TurnSnapshot)

OnlyTheTurn ==
    UNCHANGED <<application, refresh, history, seen, memories, turn_snapshots>>

At(r, step) == turn[r].step = step

Go(r, t) == turn' = [turn EXCEPT ![r] = t]

Running == {r \in Request : turn[r].step \notin {"new", "done"}}

-----------------------------------------------------------------------------
(* AgentSession.run_turn and AgentRuntime.run_turn.                        *)

(* Mutant: the window is one message too wide.                             *)
RecentHistoryOffByOne ==
    IF MaxHistoryMessages <= 0
    THEN <<>>
    ELSE SubSeq(history,
                IF Len(history) > MaxHistoryMessages
                THEN Len(history) - MaxHistoryMessages
                ELSE 1,
                Len(history))

RecentHistory ==
    IF MaxHistoryMessages <= 0
    THEN <<>>
    ELSE SubSeq(history,
                IF Len(history) > MaxHistoryMessages
                THEN Len(history) - MaxHistoryMessages + 1
                ELSE 1,
                Len(history))

(* Mutant: the chat route of the multi-user application runs on the thread *)
(* pool like the others.                                                   *)
StartTurnOnPool(r) ==
    /\ At(r, "new")
    /\ Go(r, [turn[r] EXCEPT !.step = "context", !.prompt = RecentHistory])
    /\ OnlyTheTurn

StartTurn(r) ==
    /\ At(r, "new")
    /\ application = "multi_user" => Running = {}
    /\ Go(r, [turn[r] EXCEPT !.step = "context", !.prompt = RecentHistory])
    /\ OnlyTheTurn

(* The memory context, the model and the capture may raise; the turn then  *)
(* leaves a snapshot and no history.                                       *)
Raise(r) ==
    /\ turn[r].step \in {"context", "complete", "record"}
    /\ Go(r, [NewTurn EXCEPT !.step = "snapshot", !.failed = TRUE])
    /\ OnlyTheTurn

BuildMemoryContext(r) ==
    /\ At(r, "context")
    /\ Go(r, [turn[r] EXCEPT !.step = "complete"])
    /\ OnlyTheTurn

(* SessionCapture.propose: the correction first, then a summary of what    *)
(* the observations say.                                                   *)
IsCaptureWorthy(observation) ==
    observation.error \/ observation.tool \in ActionTool

ToolObservations(done) ==
    LET kept[n \in 0 .. Len(done)] ==
            IF n = 0 THEN <<>>
            ELSE IF IsCaptureWorthy(done[n]) THEN Append(kept[n - 1], done[n])
            ELSE kept[n - 1]
    IN  kept[Len(done)]

Propose(r, done) ==
    LET said == IF Stated[r] = NoStatement
                THEN <<>>
                ELSE <<[kind |-> "correction", of |-> Stated[r]]>>
        observations == ToolObservations(done)
    IN  IF observations = <<>>
        THEN said
        ELSE Append(said, [kind |-> "summary", of |-> observations])

(* The model answers without tool calls.                                   *)
CompleteText(r) ==
    /\ At(r, "complete")
    /\ Go(r, [turn[r] EXCEPT !.step = "flush",
                             !.candidates = Propose(r, turn[r].done)])
    /\ OnlyTheTurn

(* Mutant: the bound on the iterations is tested too late.                 *)
CompleteCallsAtLimit(r, calls) ==
    /\ At(r, "complete")
    /\ turn[r].iteration <= MaxToolIterations
    /\ Go(r, [turn[r] EXCEPT !.step = "tools", !.calls = calls])
    /\ OnlyTheTurn

CompleteCalls(r, calls) ==
    /\ At(r, "complete")
    /\ turn[r].iteration < MaxToolIterations
    /\ Go(r, [turn[r] EXCEPT !.step = "tools", !.calls = calls])
    /\ OnlyTheTurn

(* The model still asks for tools when the iterations are used up: the     *)
(* calls are not executed, and the limit is reported as a tool error.      *)
ReachLimit(r) ==
    LET done == Append(turn[r].done, [tool |-> ToolLoop, error |-> TRUE])
    IN  /\ At(r, "complete")
        /\ turn[r].iteration = MaxToolIterations
        /\ Go(r, [turn[r] EXCEPT !.step = "flush", !.done = done,
                                 !.candidates = Propose(r, done)])
        /\ OnlyTheTurn

AfterCalls(calls) == IF Len(calls) = 1 THEN "complete" ELSE "tools"

(* Mutant: the loop does not count its iterations.                         *)
ExecuteToolUncounted(r, error) ==
    LET t == turn[r]
    IN  /\ At(r, "tools")
        /\ Go(r, [t EXCEPT !.step = AfterCalls(t.calls),
                           !.calls = Tail(t.calls)])
        /\ OnlyTheTurn

(* Calls of one response are executed in order; one that raises gives an   *)
(* error record like one that answers with an error.                       *)
ExecuteTool(r, error) ==
    LET t == turn[r]
    IN  /\ At(r, "tools")
        /\ Go(r, [t EXCEPT !.step = AfterCalls(t.calls),
                           !.calls = Tail(t.calls),
                           !.done = Append(@, [tool |-> Head(t.calls),
                                               error |-> error]),
                           !.iteration = IF Len(t.calls) = 1 THEN @ + 1 ELSE @])
        /\ OnlyTheTurn

-----------------------------------------------------------------------------
(* SessionCapture.flush.                                                   *)

SkipSeen(r) ==
    /\ At(r, "flush")
    /\ turn[r].candidates # <<>>
    /\ Head(turn[r].candidates) \in seen
    /\ Go(r, [turn[r] EXCEPT !.candidates = Tail(@)])
    /\ OnlyTheTurn

(* Mutant: the fingerprint is remembered before the candidate is recorded. *)
CaptureAndRemember(r) ==
    /\ At(r, "flush")
    /\ turn[r].candidates # <<>>
    /\ Head(turn[r].candidates) \notin seen
    /\ seen' = seen \cup {Head(turn[r].candidates)}
    /\ Go(r, [turn[r] EXCEPT !.step = "record"])
    /\ UNCHANGED <<application, refresh, history, memories, turn_snapshots>>

Capture(r) ==
    /\ At(r, "flush")
    /\ turn[r].candidates # <<>>
    /\ Head(turn[r].candidates) \notin seen
    /\ Go(r, [turn[r] EXCEPT !.step = "record"])
    /\ OnlyTheTurn

RecordCandidate(r) ==
    /\ At(r, "record")
    /\ memories' = memories \cup {Head(turn[r].candidates)}
    /\ Go(r, [turn[r] EXCEPT !.step = "remember"])
    /\ UNCHANGED <<application, refresh, history, seen, turn_snapshots>>

Remember(r) ==
    /\ At(r, "remember")
    /\ seen' = seen \cup {Head(turn[r].candidates)}
    /\ Go(r, [turn[r] EXCEPT !.step = "flush", !.candidates = Tail(@)])
    /\ UNCHANGED <<application, refresh, history, memories, turn_snapshots>>

Flushed(r) ==
    /\ At(r, "flush")
    /\ turn[r].candidates = <<>>
    /\ Go(r, [turn[r] EXCEPT !.step = "extend"])
    /\ OnlyTheTurn

-----------------------------------------------------------------------------
(* The end of a turn.                                                      *)

ExtendHistory(r) ==
    /\ At(r, "extend")
    /\ history' = history \o Exchange(r)
    /\ Go(r, [turn[r] EXCEPT !.step = "snapshot"])
    /\ UNCHANGED <<application, refresh, seen, memories, turn_snapshots>>

(* Mutant: the number is that of the exchanges, and failed turns have none.*)
NumberSnapshotByHistory(r) ==
    /\ At(r, "snapshot")
    /\ Go(r, [turn[r] EXCEPT !.step = "append",
                             !.index = (Len(history) \div 2) + 1])
    /\ OnlyTheTurn

(* The snapshot is numbered before it is appended.                         *)
NumberSnapshot(r) ==
    /\ At(r, "snapshot")
    /\ Go(r, [turn[r] EXCEPT !.step = "append",
                             !.index = Len(turn_snapshots) + 1])
    /\ OnlyTheTurn

TakeSnapshot(r) ==
    /\ At(r, "append")
    /\ turn_snapshots' =
           Append(turn_snapshots, [request |-> r, index |-> turn[r].index])
    /\ Go(r, [turn[r] EXCEPT !.step = "respond"])
    /\ UNCHANGED <<application, refresh, history, seen, memories>>

(* The route answers a turn with the last snapshot there is, and fails     *)
(* when there is none.                                                     *)
Answer(r) ==
    IF turn[r].failed THEN "error"
    ELSE IF turn_snapshots = <<>> THEN "no snapshot"
    ELSE IF turn_snapshots[Len(turn_snapshots)].request = r THEN "own turn"
    ELSE "other turn"

Respond(r) ==
    /\ At(r, "respond")
    /\ Go(r, [turn[r] EXCEPT !.step = "done", !.answer = Answer(r),
                             !.prompt = <<>>, !.index = 0])
    /\ OnlyTheTurn

-----------------------------------------------------------------------------
(* LabState.clear_chat_history.  before is not in the code: it remembers   *)
(* the turns whose snapshot had been taken when the refresh began.         *)

Ended == {r \in Request : turn[r].step \in {"respond", "done"}}

(* Mutant: only as much as the window shows is cleared.                    *)
ClearWindow(f) ==
    /\ refresh[f].step = "new"
    /\ history' = SubSeq(history, 1, Len(history) - Len(RecentHistory))
    /\ refresh' = [refresh EXCEPT ![f] = [step |-> "snapshots", before |-> Ended]]
    /\ UNCHANGED <<application, turn, seen, memories, turn_snapshots>>

ClearHistory(f) ==
    /\ refresh[f].step = "new"
    /\ history' = <<>>
    /\ refresh' = [refresh EXCEPT ![f] = [step |-> "snapshots", before |-> Ended]]
    /\ UNCHANGED <<application, turn, seen, memories, turn_snapshots>>

ClearSnapshots(f) ==
    /\ refresh[f].step = "snapshots"
    /\ turn_snapshots' = <<>>
    /\ refresh' = [refresh EXCEPT ![f].step = "done"]
    /\ UNCHANGED <<application, turn, history, seen, memories>>

-----------------------------------------------------------------------------

Init ==
    /\ application \in Applications
    /\ turn = [r \in Request |-> NewTurn]
    /\ refresh = [f \in Refresher |-> NewRefresh]
    /\ history = <<>>
    /\ seen = {}
    /\ memories = {}
    /\ turn_snapshots = <<>>

Advance(r) ==
    \/ BuildMemoryContext(r)
    \/ CompleteText(r)
    \/ \E calls \in CallLists : CompleteCalls(r, calls)
    \/ ReachLimit(r)
    \/ \E error \in BOOLEAN : ExecuteTool(r, error)
    \/ SkipSeen(r) \/ Capture(r)
    \/ RecordCandidate(r) \/ Remember(r) \/ Flushed(r)
    \/ ExtendHistory(r)
    \/ NumberSnapshot(r) \/ TakeSnapshot(r) \/ Respond(r)
    \/ Raise(r)

Refresh(f) == ClearHistory(f) \/ ClearSnapshots(f)

Next ==
    \/ \E r \in Request : StartTurn(r) \/ Advance(r)
    \/ \E f \in Refresher : Refresh(f)

(* A turn that runs is a thread, or holds the event loop: it keeps running,*)
(* and a call of the model ends with an answer, an error or its timeout.   *)
Fairness == \A r \in Request : WF_vars(Advance(r))

Spec == Init /\ [][Next]_vars /\ Fairness
-----------------------------------------------------------------------------
(* Properties.                                                             *)

(***************************************************************************)
(* The model sees whole exchanges: the recent conversation a turn starts   *)
(* with is a sequence of a user message and the answer to it, of turns that*)
(* did not fail, however turns overlap and the chat is refreshed, and      *)
(* although the window cuts the history off.                               *)
(***************************************************************************)
PromptIsWholeExchanges ==
    \A r \in Request :
        LET prompt == turn[r].prompt
        IN  /\ Len(prompt) <= MaxHistoryMessages
            /\ \A i \in DOMAIN prompt :
                  IF i % 2 = 1
                  THEN /\ prompt[i].role = "user"
                       /\ i < Len(prompt)
                       /\ ~turn[prompt[i].request].failed
                  ELSE prompt[i] = [prompt[i - 1] EXCEPT !.role = "assistant"]

(***************************************************************************)
(* What a turn that succeeded had to remember is in memory: the correction *)
(* its message states, and all that its tools were seen to do.  A capture  *)
(* that was interrupted by an error, in this turn or in another one, does  *)
(* not suppress it.                                                        *)
(***************************************************************************)
SuccessfulTurnsAreCaptured ==
    \A r \in Request :
        turn[r].step = "done" /\ ~turn[r].failed =>
            LET candidates == Propose(r, turn[r].done)
            IN  \A i \in DOMAIN candidates : candidates[i] \in memories

(***************************************************************************)
(* A refresh forgets: when it is over, neither the history nor the list of *)
(* turns holds a turn that had ended when the refresh began.               *)
(***************************************************************************)
RefreshForgets ==
    \A f \in Refresher :
        refresh[f].step = "done" =>
            /\ \A i \in DOMAIN history : history[i].request \notin refresh[f].before
            /\ \A i \in DOMAIN turn_snapshots :
                   turn_snapshots[i].request \notin refresh[f].before

(***************************************************************************)
(* On the event loop an answer never carries the turn of another request;  *)
(* it fails for want of a turn only when the chat was refreshed meanwhile. *)
(* (On the thread pool of the single-user application it may.)             *)
(***************************************************************************)
AnswersShowTheirTurn ==
    \A r \in Request :
        /\ application = "multi_user" => turn[r].answer # "other turn"
        /\ turn[r].answer = "no snapshot" =>
               \E f \in Refresher : refresh[f].step = "done"

(***************************************************************************)
(* The numbers of the turns shown are their positions, as far as the code  *)
(* keeps them: one is too low only on the thread pool, where two turns can *)
(* be numbered alike, and too high only after a refresh, which may clear   *)
(* the list between the numbering of a snapshot and its appending.         *)
(***************************************************************************)
TurnsAreNumbered ==
    \A i \in DOMAIN turn_snapshots :
        /\ application = "multi_user" => turn_snapshots[i].index >= i
        /\ (\A f \in Refresher : refresh[f].step # "done") =>
               turn_snapshots[i].index <= i

(***************************************************************************)
(* Every turn that starts comes to an end and is answered, however long the*)
(* model keeps asking for tools and whatever fails on the way.             *)
(***************************************************************************)
StartedTurnsEnd ==
    \A r \in Request : turn[r].step # "new" ~> turn[r].step = "done"

(***************************************************************************)
(* What the documents promise and the code does not keep.  "Only action    *)
(* observations such as created calendar events and drafted messages enter *)
(* governed session capture as memory candidates; read-only phone lookups  *)
(* remain trace-only."                                                     *)
(***************************************************************************)
OnlyActionsAreCaptured ==
    \A fingerprint \in memories :
        fingerprint.kind = "summary" =>
            \A i \in DOMAIN fingerprint.of :
                fingerprint.of[i].tool \in ActionTool
=============================================================================
