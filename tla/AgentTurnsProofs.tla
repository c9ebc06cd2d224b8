--------------------------- MODULE AgentTurnsProofs ---------------------------
(***************************************************************************)
(* Proofs about AgentTurns, for every value of its constants.              *)
(***************************************************************************)
EXTENDS AgentTurns, SequenceTheorems, FoldLemmas, TLAPS

TurnState ==
    [step: Steps, prompt: Seq(Message), calls: Seq(Tool),
     iteration: 0 .. MaxToolIterations,
     done: Seq(Observation), candidates: Seq(Fingerprint), failed: BOOLEAN,
     index: Nat,
     answer: {"none", "error", "no snapshot", "own turn", "other turn"}]

RefreshState == [step: {"new", "snapshots", "done"}, before: SUBSET Request]

(* The types of the variables, and that a turn that executes tools has a   *)
(* call to execute and an iteration left for it, and one that captures     *)
(* something has it to capture.                                            *)
HasWork(t) ==
    /\ t.step = "tools" => t.calls # <<>> /\ t.iteration < MaxToolIterations
    /\ t.step \in {"record", "remember"} => t.candidates # <<>>

WellTyped ==
    /\ application \in Applications
    /\ turn \in [Request -> TurnState]
    /\ refresh \in [Refresher -> RefreshState]
    /\ history \in Seq(Message)
    /\ seen \subseteq Fingerprint /\ memories \subseteq Fingerprint
    /\ turn_snapshots \in Seq(TurnSnapshot)
    /\ \A r \in Request : HasWork(turn[r])

LEMMA RecentHistoryType ==
    ASSUME WellTyped
    PROVE  RecentHistory \in Seq(Message)
<1>1. Len(history) \in Nat /\ history \in Seq(Message)
  BY LenProperties DEF WellTyped
<1>2. CASE MaxHistoryMessages <= 0
  BY <1>2, EmptySeq DEF RecentHistory
<1>3. CASE MaxHistoryMessages > 0
  <2> DEFINE from == IF Len(history) > MaxHistoryMessages
                     THEN Len(history) - MaxHistoryMessages + 1
                     ELSE 1
  <2>1. MaxHistoryMessages \in Int
    BY AgentTurnsAssumption
  <2>2. from \in 1 .. Len(history) + 1
    BY <1>1, <1>3, <2>1
  <2>3. RecentHistory = SubSeq(history, from, Len(history))
    <3>1. ~(MaxHistoryMessages <= 0)
      BY <1>3, <2>1
    <3>2. QED
      BY <3>1, Zenon DEF RecentHistory
  <2>4. SubSeq(history, from, Len(history)) \in Seq(Message)
    <3> HIDE DEF from
    <3>1. \A i \in from .. Len(history) : history[i] \in Message
      BY <1>1, <2>2, ElementOfSeq
    <3>2. QED
      BY <1>1, <2>2, <3>1, SubSeqProperties
  <2>5. QED
    BY <2>3, <2>4
<1>4. QED
  BY <1>2, <1>3, AgentTurnsAssumption

(* The loop that keeps the observations worth capturing.                   *)
LEMMA ToolObservationsType ==
    ASSUME NEW done \in Seq(Observation)
    PROVE  ToolObservations(done) \in Seq(Observation)
<1> DEFINE n == Len(done)
           X == Seq(Observation)
           Loop(g) == [k \in 0 .. n |->
                          IF k = 0 THEN <<>>
                          ELSE IF IsCaptureWorthy(done[k]) THEN Append(g[k - 1], done[k])
                          ELSE g[k - 1]]
           kept == CHOOSE g : g = Loop(g)
           turn_of == [arg \in (1 .. n) \X X |->
                          IF IsCaptureWorthy(done[arg[1]])
                          THEN Append(arg[2], done[arg[1]])
                          ELSE arg[2]]
<1>1. n \in Nat /\ \A k \in 1 .. n : done[k] \in Observation
  BY LenProperties, ElementOfSeq
<1>2. \A k \in 1 .. n, s \in X : Append(s, done[k]) \in X
  BY <1>1, AppendProperties
<1>3. <<>> \in X
  BY EmptySeq
<1>4. ToolObservations(done) = kept[n]
  BY Zenon DEF ToolObservations
<1> HIDE DEF n, X
<1>5. turn_of \in [(1 .. n) \X X -> X]
  BY <1>2
<1>6. PICK g : IsLoop(g, n, X, <<>>, turn_of)
  <2> HIDE DEF turn_of
  <2>1. QED
    BY <1>1, <1>3, <1>5, LoopExists
<1>7. \A k \in 1 .. n : g[k] = IF IsCaptureWorthy(done[k])
                                 THEN Append(g[k - 1], done[k]) ELSE g[k - 1]
  <2> SUFFICES ASSUME NEW k \in 1 .. n
               PROVE  g[k] = IF IsCaptureWorthy(done[k])
                             THEN Append(g[k - 1], done[k]) ELSE g[k - 1]
    OBVIOUS
  <2>1. g[k] = turn_of[<<k, g[k - 1]>>] /\ g[k - 1] \in X
    <3> HIDE DEF turn_of
    <3>1. QED
      BY <1>1, <1>6 DEF IsLoop
  <2>2. <<k, g[k - 1]>> \in (1 .. n) \X X
    BY <2>1
  <2>3. QED
    BY <2>1, <2>2
<1> HIDE DEF turn_of
<1>8. g = Loop(g)
  <2>1. /\ g \in [0 .. n -> X] /\ g[0] = <<>>
    BY <1>6 DEF IsLoop
  <2>2. ASSUME NEW k \in 0 .. n
        PROVE  g[k] = IF k = 0 THEN <<>>
                      ELSE IF IsCaptureWorthy(done[k]) THEN Append(g[k - 1], done[k])
                      ELSE g[k - 1]
    <3>1. CASE k = 0
      BY <2>1, <3>1
    <3>2. CASE k # 0
      <4>1. k \in 1 .. n
        BY <1>1, <3>2
      <4>2. QED
        BY <1>7, <3>2, <4>1, Zenon
    <3>3. QED
      BY <3>1, <3>2
  <2>3. QED
    BY <2>1, <2>2
<1>9. kept = Loop(kept)
  <2> HIDE DEF Loop
  <2>1. QED
    BY <1>8
<1> HIDE DEF kept
<1> DEFINE S == {k \in 0 .. n : kept[k] \in X}
<1>10. 0 \in S
  BY <1>1, <1>3, <1>9
<1>11. ASSUME NEW k \in 1 .. n, k - 1 \in S PROVE k \in S
  <2>1. k \in 0 .. n /\ k # 0 /\ kept[k - 1] \in X
    BY <1>1, <1>11
  <2>2. kept[k] = IF IsCaptureWorthy(done[k]) THEN Append(kept[k - 1], done[k])
                  ELSE kept[k - 1]
    BY <1>9, <2>1
  <2>3. QED
    BY <1>2, <2>1, <2>2
<1>12. n \in S
  <2>1. n \in Nat
    BY <1>1
  <2> HIDE DEF S, Loop
  <2>2. \A k \in 0 .. n : k \in S
    BY <1>10, <1>11, <2>1, EveryTurn
  <2>3. QED
    BY <2>1, <2>2
<1>13. QED
  BY <1>4, <1>12 DEF X

LEMMA ProposeType ==
    ASSUME NEW r \in Request, NEW done \in Seq(Observation)
    PROVE  Propose(r, done) \in Seq(Fingerprint)
<1>1. Stated[r] \in Statement \cup {NoStatement}
  BY AgentTurnsAssumption
<1> DEFINE correction == [kind |-> "correction", of |-> Stated[r]]
           summary == [kind |-> "summary", of |-> ToolObservations(done)]
           said == IF Stated[r] = NoStatement THEN <<>> ELSE <<correction>>
<1>2. summary \in Fingerprint
  BY ToolObservationsType DEF Fingerprint
<1>3. said \in Seq(Fingerprint)
  <2>1. CASE Stated[r] = NoStatement
    BY <2>1, EmptySeq
  <2>2. CASE Stated[r] # NoStatement
    <3>1. correction \in Fingerprint
      BY <1>1, <2>2 DEF Fingerprint
    <3>2. QED
      BY <2>2, <3>1
  <2>3. QED
    BY <2>1, <2>2
<1>4. Propose(r, done) = IF ToolObservations(done) = <<>> THEN said
                         ELSE Append(said, summary)
  BY DEF Propose
<1> HIDE DEF said, summary
<1>5. Append(said, summary) \in Seq(Fingerprint)
  BY <1>2, <1>3, AppendProperties
<1>6. QED
  BY <1>3, <1>4, <1>5

LEMMA NewTurnType == NewTurn \in TurnState
<1>1. 0 \in 0 .. MaxToolIterations
  BY AgentTurnsAssumption
<1>2. QED
  BY <1>1, EmptySeq DEF NewTurn, TurnState, Steps

LEMMA InitWellTyped == ASSUME Init PROVE WellTyped
<1>1. NewTurn \in TurnState
  BY NewTurnType
<1>2. NewRefresh \in RefreshState
  BY DEF NewRefresh, RefreshState
<1>3. application \in Applications
  BY DEF Init
<1>4. \A r \in Request : HasWork(turn[r])
  BY DEF Init, NewTurn, HasWork
<1>5. QED
  BY <1>1, <1>2, <1>3, <1>4, EmptySeq DEF Init, WellTyped

(* A step of one turn: the variables of the others stay as they are.       *)
LEMMA TurnStepWellTyped ==
    ASSUME WellTyped, NEW r \in Request, NEW t \in TurnState, Go(r, t), HasWork(t),
           application' = application, refresh' = refresh,
           history' \in Seq(Message), turn_snapshots' \in Seq(TurnSnapshot),
           seen' \subseteq Fingerprint, memories' \subseteq Fingerprint
    PROVE  WellTyped'
<1>1. turn' \in [Request -> TurnState]
  BY DEF WellTyped, Go
<1>2. \A q \in Request : turn'[q] = IF q = r THEN t ELSE turn[q]
  BY DEF WellTyped, Go
<1>3. \A q \in Request : HasWork(turn'[q])
  BY <1>2 DEF WellTyped
<1>4. QED
  BY <1>1, <1>3 DEF WellTyped

LEMMA TailOfMany ==
    ASSUME NEW S, NEW s \in Seq(S), s # <<>>, Len(s) # 1
    PROVE  Tail(s) # <<>>
<1>1. Len(Tail(s)) = Len(s) - 1
  BY HeadTailProperties
<1>2. Len(s) \in Nat /\ Len(<<>>) = 0
  BY LenProperties
<1>3. Len(Tail(s)) # Len(<<>>)
  BY <1>1, <1>2
<1>4. QED
  BY <1>3

LEMMA NextWellTyped ==
    ASSUME WellTyped, [Next]_vars
    PROVE  WellTyped'
<1>1. \A r \in Request : turn[r] \in TurnState
  BY DEF WellTyped
<1>2. ASSUME NEW r \in Request, StartTurn(r) PROVE WellTyped'
  <2>1. [turn[r] EXCEPT !.step = "context", !.prompt = RecentHistory] \in TurnState
    BY <1>1, RecentHistoryType DEF TurnState, Steps
  <2>2. QED
    BY <1>1, <1>2, <2>1, TurnStepWellTyped
    DEF StartTurn, OnlyTheTurn, WellTyped, TurnState, HasWork
<1>3. ASSUME NEW r \in Request, BuildMemoryContext(r) PROVE WellTyped'
  <2>1. [turn[r] EXCEPT !.step = "complete"] \in TurnState
    BY <1>1 DEF TurnState, Steps
  <2>2. QED
    BY <1>1, <1>3, <2>1, TurnStepWellTyped
    DEF BuildMemoryContext, OnlyTheTurn, WellTyped, TurnState, HasWork
<1>4. ASSUME NEW r \in Request, CompleteText(r) PROVE WellTyped'
  <2>1. Propose(r, turn[r].done) \in Seq(Fingerprint)
    BY <1>1, ProposeType DEF TurnState
  <2>2. [turn[r] EXCEPT !.step = "flush",
                        !.candidates = Propose(r, turn[r].done)] \in TurnState
    BY <1>1, <2>1 DEF TurnState, Steps
  <2>3. QED
    BY <1>1, <1>4, <2>2, TurnStepWellTyped
    DEF CompleteText, OnlyTheTurn, WellTyped, TurnState, HasWork
<1>5. ASSUME NEW r \in Request, NEW calls \in CallLists, CompleteCalls(r, calls)
      PROVE  WellTyped'
  <2>1. calls \in Seq(Tool) /\ calls # <<>>
    BY AgentTurnsAssumption
  <2>2. [turn[r] EXCEPT !.step = "tools", !.calls = calls] \in TurnState
    BY <1>1, <2>1 DEF TurnState, Steps
  <2>3. QED
    BY <1>1, <1>5, <2>1, <2>2, TurnStepWellTyped
    DEF CompleteCalls, OnlyTheTurn, WellTyped, TurnState, HasWork
<1>6. ASSUME NEW r \in Request, ReachLimit(r) PROVE WellTyped'
  <2> DEFINE limit == [tool |-> ToolLoop, error |-> TRUE]
             done == Append(turn[r].done, limit)
  <2>1. limit \in Observation
    BY DEF Observation
  <2>2. done \in Seq(Observation)
    <3>1. turn[r].done \in Seq(Observation)
      BY <1>1 DEF TurnState
    <3>2. QED
      BY <2>1, <3>1, AppendProperties
  <2>3. Propose(r, done) \in Seq(Fingerprint)
    BY <2>2, ProposeType
  <2>4. [turn[r] EXCEPT !.step = "flush", !.done = done,
                        !.candidates = Propose(r, done)] \in TurnState
    <3> HIDE DEF done
    <3>1. QED
      BY <1>1, <2>2, <2>3 DEF TurnState, Steps
  <2>5. QED
    BY <1>1, <1>6, <2>4, TurnStepWellTyped
    DEF ReachLimit, OnlyTheTurn, WellTyped, TurnState, HasWork
<1>7. ASSUME NEW r \in Request, NEW error \in BOOLEAN, ExecuteTool(r, error)
      PROVE  WellTyped'
  <2> DEFINE t == turn[r]
             observation == [tool |-> Head(t.calls), error |-> error]
             step == AfterCalls(t.calls)
             calls == Tail(t.calls)
             done == Append(t.done, observation)
             iteration == IF Len(t.calls) = 1 THEN t.iteration + 1 ELSE t.iteration
             next == [t EXCEPT !.step = step, !.calls = calls, !.done = done,
                               !.iteration = iteration]
  <2>1. /\ t \in TurnState /\ t.calls \in Seq(Tool) /\ t.calls # <<>>
        /\ t.done \in Seq(Observation) /\ t.iteration < MaxToolIterations
    BY <1>1, <1>7 DEF ExecuteTool, WellTyped, TurnState, HasWork, At
  <2>2. Head(t.calls) \in Tool /\ Tail(t.calls) \in Seq(Tool)
    BY <2>1, HeadTailProperties
  <2>3. done \in Seq(Observation)
    <3>1. observation \in Observation
      BY <2>2 DEF Observation
    <3>2. QED
      BY <2>1, <3>1, AppendProperties
  <2>4. next \in TurnState
    <3>1. step \in Steps
      BY DEF AfterCalls, Steps
    <3>2. iteration \in 0 .. MaxToolIterations
      <4> HIDE DEF t
      <4>1. t.iteration \in 0 .. MaxToolIterations
        BY <2>1 DEF TurnState
      <4>2. QED
        BY <2>1, <4>1, AgentTurnsAssumption
    <3>3. calls \in Seq(Tool)
      BY <2>2
    <3> HIDE DEF t, step, calls, done, iteration
    <3>4. QED
      BY <2>1, <2>3, <3>1, <3>2, <3>3 DEF TurnState
  <2>5. AfterCalls(t.calls) = "tools" => Tail(t.calls) # <<>>
    BY <2>1, TailOfMany DEF AfterCalls
  <2>6. HasWork(next)
    <3>1. AfterCalls(t.calls) \notin {"record", "remember"}
      BY DEF AfterCalls
    <3>2. /\ next.step = AfterCalls(t.calls) /\ next.calls = Tail(t.calls)
          /\ next.iteration = iteration
      BY <2>1 DEF TurnState
    <3>3. AfterCalls(t.calls) = "tools" => iteration < MaxToolIterations
      BY <2>1 DEF AfterCalls
    <3> HIDE DEF next, iteration
    <3>4. QED
      BY <2>5, <3>1, <3>2, <3>3, Zenon DEF HasWork
  <2>7. Go(r, next) /\ OnlyTheTurn
    BY <1>7 DEF ExecuteTool
  <2> HIDE DEF next
  <2>8. QED
    BY <2>4, <2>6, <2>7, TurnStepWellTyped DEF OnlyTheTurn, WellTyped
<1>8. ASSUME NEW r \in Request, SkipSeen(r) \/ Remember(r) PROVE WellTyped'
  <2>1. turn[r].candidates \in Seq(Fingerprint) /\ turn[r].candidates # <<>>
    BY <1>1, <1>8 DEF SkipSeen, Remember, At, WellTyped, HasWork, TurnState
  <2>2. Tail(turn[r].candidates) \in Seq(Fingerprint)
    BY <2>1, HeadTailProperties
  <2>3. [turn[r] EXCEPT !.step = "flush", !.candidates = Tail(@)] \in TurnState
    BY <1>1, <2>2 DEF TurnState, Steps
  <2>4. Go(r, [turn[r] EXCEPT !.step = "flush", !.candidates = Tail(@)])
    BY <1>1, <1>8 DEF SkipSeen, Remember, At, Go, TurnState
  <2>5. Head(turn[r].candidates) \in Fingerprint
    BY <2>1, HeadTailProperties
  <2>6. seen' \subseteq Fingerprint /\ memories' \subseteq Fingerprint
    BY <1>8, <2>5 DEF SkipSeen, Remember, OnlyTheTurn, WellTyped
  <2>7. QED
    BY <1>1, <1>8, <2>3, <2>4, <2>6, TurnStepWellTyped
    DEF SkipSeen, Remember, OnlyTheTurn, WellTyped, TurnState, HasWork
<1>9. ASSUME NEW r \in Request, Capture(r) PROVE WellTyped'
  <2>1. [turn[r] EXCEPT !.step = "record"] \in TurnState
    BY <1>1 DEF TurnState, Steps
  <2>2. QED
    BY <1>1, <1>9, <2>1, TurnStepWellTyped
    DEF Capture, OnlyTheTurn, WellTyped, TurnState, HasWork
<1>10. ASSUME NEW r \in Request, RecordCandidate(r) PROVE WellTyped'
  <2>1. [turn[r] EXCEPT !.step = "remember"] \in TurnState
    BY <1>1 DEF TurnState, Steps
  <2>2. Head(turn[r].candidates) \in Fingerprint
    <3>1. turn[r].candidates \in Seq(Fingerprint) /\ turn[r].candidates # <<>>
      BY <1>1, <1>10 DEF RecordCandidate, At, WellTyped, HasWork, TurnState
    <3>2. QED
      BY <3>1, HeadTailProperties
  <2>3. memories' \subseteq Fingerprint
    BY <1>10, <2>2 DEF RecordCandidate, WellTyped
  <2>4. QED
    BY <1>1, <1>10, <2>1, <2>3, TurnStepWellTyped
    DEF RecordCandidate, At, WellTyped, TurnState, HasWork
<1>11. ASSUME NEW r \in Request, Flushed(r) PROVE WellTyped'
  <2>1. [turn[r] EXCEPT !.step = "extend"] \in TurnState
    BY <1>1 DEF TurnState, Steps
  <2>2. QED
    BY <1>1, <1>11, <2>1, TurnStepWellTyped
    DEF Flushed, OnlyTheTurn, WellTyped, TurnState, HasWork
<1>12. ASSUME NEW r \in Request, ExtendHistory(r) PROVE WellTyped'
  <2>1. [turn[r] EXCEPT !.step = "snapshot"] \in TurnState
    BY <1>1 DEF TurnState, Steps
  <2>2. Exchange(r) \in Seq(Message)
    BY DEF Exchange, Message
  <2>3. history \o Exchange(r) \in Seq(Message)
    BY <2>2, ConcatProperties DEF WellTyped
  <2>4. QED
    BY <1>1, <1>12, <2>1, <2>3, TurnStepWellTyped
    DEF ExtendHistory, WellTyped, TurnState, HasWork
<1>13. ASSUME NEW r \in Request, NumberSnapshot(r) PROVE WellTyped'
  <2>1. Len(turn_snapshots) + 1 \in Nat
    BY LenProperties DEF WellTyped
  <2>2. [turn[r] EXCEPT !.step = "append", !.index = Len(turn_snapshots) + 1]
            \in TurnState
    BY <1>1, <2>1 DEF TurnState, Steps
  <2>3. QED
    BY <1>1, <1>13, <2>2, TurnStepWellTyped
    DEF NumberSnapshot, OnlyTheTurn, WellTyped, TurnState, HasWork
<1>14. ASSUME NEW r \in Request, TakeSnapshot(r) PROVE WellTyped'
  <2>1. [turn[r] EXCEPT !.step = "respond"] \in TurnState
    BY <1>1 DEF TurnState, Steps
  <2>2. [request |-> r, index |-> turn[r].index] \in TurnSnapshot
    BY <1>1 DEF TurnState, TurnSnapshot
  <2>3. turn_snapshots' \in Seq(TurnSnapshot)
    BY <1>14, <2>2, AppendProperties DEF TakeSnapshot, WellTyped
  <2>4. QED
    BY <1>1, <1>14, <2>1, <2>3, TurnStepWellTyped
    DEF TakeSnapshot, WellTyped, TurnState, HasWork
<1>15. ASSUME NEW r \in Request, Respond(r) PROVE WellTyped'
  <2>1. Answer(r) \in {"none", "error", "no snapshot", "own turn", "other turn"}
    BY DEF Answer
  <2>2. [turn[r] EXCEPT !.step = "done", !.answer = Answer(r),
                        !.prompt = <<>>, !.index = 0] \in TurnState
    BY <1>1, <2>1, EmptySeq DEF TurnState, Steps
  <2>3. QED
    BY <1>1, <1>15, <2>2, TurnStepWellTyped
    DEF Respond, OnlyTheTurn, WellTyped, TurnState, HasWork
<1>16. ASSUME NEW r \in Request, Raise(r) PROVE WellTyped'
  <2>1. [NewTurn EXCEPT !.step = "snapshot", !.failed = TRUE] \in TurnState
    BY NewTurnType DEF TurnState, Steps
  <2>2. QED
    BY <1>1, <1>16, <2>1, TurnStepWellTyped
    DEF Raise, OnlyTheTurn, WellTyped, NewTurn, TurnState, HasWork
<1>17. ASSUME NEW f \in Refresher, ClearHistory(f) \/ ClearSnapshots(f)
       PROVE  WellTyped'
  <2>1. refresh' \in [Refresher -> RefreshState]
    BY <1>17 DEF ClearHistory, ClearSnapshots, WellTyped, RefreshState, Ended
  <2>2. QED
    BY <1>17, <2>1, EmptySeq DEF ClearHistory, ClearSnapshots, WellTyped
<1>18. CASE UNCHANGED vars
  BY <1>18 DEF vars, WellTyped
<1>19. QED
  BY <1>2, <1>3, <1>4, <1>5, <1>6, <1>7, <1>8, <1>9, <1>10, <1>11, <1>12, <1>13,
     <1>14, <1>15, <1>16, <1>17, <1>18
  DEF Next, Advance, Refresh

(***************************************************************************)
(* The types are right in every state of every instance.  Among them: a    *)
(* turn never counts more iterations than it is allowed, since it executes *)
(* tools only with an iteration left; and what the session has captured are*)
(* corrections, or summaries of observations of the tools there are.       *)
(***************************************************************************)
THEOREM TurnsTyped == Spec => []TypeOK
<1>1. WellTyped => TypeOK
  <2> SUFFICES ASSUME WellTyped PROVE TypeOK
    OBVIOUS
  <2>1. \A r \in Request : turn[r] \in TurnState
    BY DEF WellTyped
  <2>2. \A f \in Refresher : refresh[f] \in RefreshState
    BY DEF WellTyped
  <2>3. \A r \in Request :
            /\ turn[r].step \in Steps
            /\ turn[r].prompt \in Seq(Message)
            /\ turn[r].calls \in Seq(Tool)
            /\ turn[r].iteration \in 0 .. MaxToolIterations
            /\ turn[r].done \in Seq(Observation)
            /\ turn[r].candidates \in Seq(Fingerprint)
            /\ turn[r].index \in Nat
    BY <2>1 DEF TurnState
  <2>4. \A f \in Refresher : /\ refresh[f].step \in {"new", "snapshots", "done"}
                             /\ refresh[f].before \subseteq Request
    BY <2>2 DEF RefreshState
  <2>5. QED
    BY <2>3, <2>4 DEF WellTyped, TypeOK
<1>2. QED
  BY <1>1, InitWellTyped, NextWellTyped, PTL DEF Spec

(***************************************************************************)
(* The steps of a turn up to the end of its capture, and its failure: they *)
(* touch neither the history nor the snapshots.                            *)
(***************************************************************************)
Quiet(r) ==
    \/ StartTurn(r)
    \/ BuildMemoryContext(r)
    \/ CompleteText(r)
    \/ \E calls \in CallLists : CompleteCalls(r, calls)
    \/ ReachLimit(r)
    \/ \E error \in BOOLEAN : ExecuteTool(r, error)
    \/ SkipSeen(r) \/ Capture(r)
    \/ RecordCandidate(r) \/ Remember(r) \/ Flushed(r)
    \/ Raise(r)

LastSteps == {"snapshot", "append", "respond", "done"}

(* What a turn has done when its snapshot is due, and did not fail.        *)
HasEnded(r) == turn[r].step \in LastSteps /\ ~turn[r].failed

QuietEffect(r) ==
    /\ UNCHANGED <<application, refresh, history, turn_snapshots>>
    /\ turn' = [turn EXCEPT ![r] = turn'[r]]
    /\ turn[r].step \notin LastSteps
    /\ turn'[r].step \notin {"new", "append", "respond", "done"}
    /\ turn'[r].step = "snapshot" => turn'[r].failed
    /\ turn'[r].failed => turn[r].failed \/ turn'[r].step = "snapshot"
    /\ turn'[r].answer \in {turn[r].answer, "none"}
    /\ turn'[r].prompt \in {turn[r].prompt, <<>>, RecentHistory}
    /\ turn[r].step = "new" /\ application = "multi_user" => Running = {}

LEMMA QuietStep ==
    ASSUME WellTyped, NEW r \in Request, Quiet(r)
    PROVE  QuietEffect(r)
<1>1. turn[r] \in TurnState /\ turn \in [Request -> TurnState]
  BY DEF WellTyped
<1>2. CASE StartTurn(r)
  BY <1>1, <1>2 DEF StartTurn, At, Go, OnlyTheTurn, TurnState, LastSteps, QuietEffect
<1>3. CASE BuildMemoryContext(r)
  BY <1>1, <1>3
  DEF BuildMemoryContext, At, Go, OnlyTheTurn, TurnState, LastSteps, QuietEffect
<1>4. CASE CompleteText(r)
  BY <1>1, <1>4 DEF CompleteText, At, Go, OnlyTheTurn, TurnState, LastSteps, QuietEffect
<1>5. ASSUME NEW calls \in CallLists, CompleteCalls(r, calls) PROVE QuietEffect(r)
  BY <1>1, <1>5 DEF CompleteCalls, At, Go, OnlyTheTurn, TurnState, LastSteps, QuietEffect
<1>6. CASE ReachLimit(r)
  <2>1. PICK done, candidates :
            Go(r, [turn[r] EXCEPT !.step = "flush", !.done = done,
                                  !.candidates = candidates])
    BY <1>6 DEF ReachLimit
  <2>2. turn[r].step = "complete" /\ OnlyTheTurn
    BY <1>6 DEF ReachLimit, At
  <2>3. QED
    BY <1>1, <2>1, <2>2 DEF Go, OnlyTheTurn, TurnState, LastSteps, QuietEffect
<1>7. ASSUME NEW error \in BOOLEAN, ExecuteTool(r, error) PROVE QuietEffect(r)
  <2> DEFINE step == AfterCalls(turn[r].calls)
  <2>0. step \in {"complete", "tools"}
    BY DEF AfterCalls
  <2>1. PICK calls, done, iteration :
            Go(r, [turn[r] EXCEPT !.step = step, !.calls = calls,
                                  !.done = done, !.iteration = iteration])
    BY <1>7 DEF ExecuteTool
  <2>2. turn[r].step = "tools" /\ OnlyTheTurn
    BY <1>7 DEF ExecuteTool, At
  <2> HIDE DEF step
  <2>3. QED
    BY <1>1, <2>0, <2>1, <2>2 DEF Go, OnlyTheTurn, TurnState, LastSteps, QuietEffect
<1>8. CASE SkipSeen(r)
  BY <1>1, <1>8
  DEF SkipSeen, At, Go, OnlyTheTurn, TurnState, LastSteps, QuietEffect
<1>9. CASE Capture(r)
  BY <1>1, <1>9
  DEF Capture, At, Go, OnlyTheTurn, TurnState, LastSteps, QuietEffect
<1>10. CASE Flushed(r)
  BY <1>1, <1>10
  DEF Flushed, At, Go, OnlyTheTurn, TurnState, LastSteps, QuietEffect
<1>11. CASE RecordCandidate(r)
  BY <1>1, <1>11
  DEF RecordCandidate, At, Go, OnlyTheTurn, TurnState, LastSteps, QuietEffect
<1>12. CASE Remember(r)
  BY <1>1, <1>12
  DEF Remember, At, Go, OnlyTheTurn, TurnState, LastSteps, QuietEffect
<1>13. CASE Raise(r)
  BY <1>1, <1>13
  DEF Raise, At, Go, OnlyTheTurn, TurnState, LastSteps, NewTurn, QuietEffect
<1>14. QED
  BY <1>2, <1>3, <1>4, <1>5, <1>6, <1>7, <1>8, <1>9, <1>10, <1>11, <1>12, <1>13
  DEF Quiet

(* The steps there are, as the proofs below divide them.                   *)
LEMMA StepCases ==
    ASSUME WellTyped, [Next]_vars
    PROVE  \/ \E r \in Request :
                 \/ QuietEffect(r)
                 \/ ExtendHistory(r) \/ NumberSnapshot(r)
                 \/ TakeSnapshot(r) \/ Respond(r)
           \/ \E f \in Refresher : ClearHistory(f) \/ ClearSnapshots(f)
           \/ UNCHANGED vars
<1>1. CASE \E r \in Request : StartTurn(r) \/ Advance(r)
  <2>1. PICK r \in Request : StartTurn(r) \/ Advance(r)
    BY <1>1
  <2>2. CASE Quiet(r)
    BY <2>2, QuietStep
  <2>3. CASE ~Quiet(r)
    BY <2>1, <2>3 DEF Advance, Quiet
  <2>4. QED
    BY <2>2, <2>3
<1>2. QED
  BY <1>1 DEF Next, Refresh

-----------------------------------------------------------------------------
(* Refreshing the chat.                                                    *)

(***************************************************************************)
(* The inductive invariant of a refresh: the turns it has to forget stay   *)
(* ended, so none of them adds to the history or to the snapshots again.   *)
(***************************************************************************)
Forgets(f) ==
    /\ refresh[f].before \subseteq Ended
    /\ refresh[f].step # "new" =>
           \A i \in DOMAIN history : history[i].request \notin refresh[f].before
    /\ refresh[f].step = "done" =>
           \A i \in DOMAIN turn_snapshots :
               turn_snapshots[i].request \notin refresh[f].before

(* The elements of a sequence that got longer.                             *)
LEMMA ConcatElements ==
    ASSUME NEW S, NEW s \in Seq(S), NEW t \in Seq(S), NEW i \in DOMAIN (s \o t)
    PROVE  \/ i \in DOMAIN s /\ (s \o t)[i] = s[i]
           \/ i - Len(s) \in DOMAIN t /\ (s \o t)[i] = t[i - Len(s)]
<1>1. /\ Len(s) \in Nat /\ Len(t) \in Nat /\ Len(s \o t) = Len(s) + Len(t)
      /\ DOMAIN s = 1 .. Len(s) /\ DOMAIN t = 1 .. Len(t)
      /\ s \o t \in Seq(S)
  BY LenProperties, ConcatProperties
<1>2. DOMAIN (s \o t) = 1 .. Len(s \o t)
  BY <1>1, LenProperties
<1>3. i \in 1 .. Len(s) + Len(t)
  BY <1>1, <1>2
<1>4. (s \o t)[i] = IF i <= Len(s) THEN s[i] ELSE t[i - Len(s)]
  BY <1>1, <1>3, ConcatProperties
<1>5. QED
  BY <1>1, <1>3, <1>4

LEMMA AppendElements ==
    ASSUME NEW S, NEW s \in Seq(S), NEW e \in S
    PROVE  /\ Len(s) \in Nat /\ Len(Append(s, e)) = Len(s) + 1
           /\ DOMAIN Append(s, e) = 1 .. Len(s) + 1 /\ DOMAIN s = 1 .. Len(s)
           /\ \A i \in DOMAIN Append(s, e) :
                 Append(s, e)[i] = IF i = Len(s) + 1 THEN e ELSE s[i]
<1>1. Append(s, e) \in Seq(S)
  BY AppendProperties
<1>2. Len(s) \in Nat /\ Len(Append(s, e)) = Len(s) + 1
  BY AppendProperties, LenProperties
<1>3. DOMAIN Append(s, e) = 1 .. Len(s) + 1 /\ DOMAIN s = 1 .. Len(s)
  BY <1>1, <1>2, LenProperties
<1>4. QED
  BY <1>2, <1>3, AppendProperties

(* The snapshot that is taken.                                             *)
LEMMA SnapshotTaken ==
    ASSUME WellTyped, NEW r \in Request, TakeSnapshot(r)
    PROVE  LET s == [request |-> r, index |-> turn[r].index]
           IN  /\ s \in TurnSnapshot
               /\ turn_snapshots' = Append(turn_snapshots, s)
<1>1. turn[r].index \in Nat
  BY DEF WellTyped, TurnState
<1>2. QED
  BY <1>1 DEF TakeSnapshot, TurnSnapshot

LEMMA EndedStaysEnded ==
    ASSUME WellTyped, [Next]_vars
    PROVE  /\ Ended \subseteq Ended'
           /\ \A q \in Request : HasEnded(q) => HasEnded(q)'
<1>1. turn \in [Request -> TurnState]
  BY DEF WellTyped
<1>2. ASSUME NEW r \in Request, QuietEffect(r)
      PROVE  Ended \subseteq Ended' /\ \A q \in Request : HasEnded(q) => HasEnded(q)'
  BY <1>1, <1>2 DEF QuietEffect, Ended, HasEnded, LastSteps
<1>3. ASSUME NEW r \in Request, ExtendHistory(r)
      PROVE  Ended \subseteq Ended' /\ \A q \in Request : HasEnded(q) => HasEnded(q)'
  BY <1>1, <1>3 DEF ExtendHistory, At, Go, Ended, HasEnded, LastSteps, TurnState
<1>4. ASSUME NEW r \in Request, NumberSnapshot(r)
      PROVE  Ended \subseteq Ended' /\ \A q \in Request : HasEnded(q) => HasEnded(q)'
  BY <1>1, <1>4 DEF NumberSnapshot, At, Go, Ended, HasEnded, LastSteps, TurnState
<1>5. ASSUME NEW r \in Request, TakeSnapshot(r)
      PROVE  Ended \subseteq Ended' /\ \A q \in Request : HasEnded(q) => HasEnded(q)'
  BY <1>1, <1>5 DEF TakeSnapshot, At, Go, Ended, HasEnded, LastSteps, TurnState
<1>6. ASSUME NEW r \in Request, Respond(r)
      PROVE  Ended \subseteq Ended' /\ \A q \in Request : HasEnded(q) => HasEnded(q)'
  BY <1>1, <1>6 DEF Respond, At, Go, Ended, HasEnded, LastSteps, TurnState
<1>7. CASE turn' = turn
  BY <1>7 DEF Ended, HasEnded
<1>8. QED
  BY <1>2, <1>3, <1>4, <1>5, <1>6, <1>7, StepCases
  DEF ClearHistory, ClearSnapshots, vars

LEMMA NextForgets ==
    ASSUME WellTyped, WellTyped', \A f \in Refresher : Forgets(f), [Next]_vars
    PROVE  \A f \in Refresher : Forgets(f)'
<1>1. Ended \subseteq Ended'
  BY EndedStaysEnded
<1>2. CASE UNCHANGED <<refresh, history, turn_snapshots>>
  BY <1>1, <1>2 DEF Forgets
<1>3. ASSUME NEW r \in Request, ExtendHistory(r) PROVE \A f \in Refresher : Forgets(f)'
  <2>1. r \notin Ended
    BY <1>3 DEF ExtendHistory, At, Ended
  <2>2. /\ history' = history \o Exchange(r)
        /\ UNCHANGED <<refresh, turn_snapshots>>
    BY <1>3 DEF ExtendHistory
  <2>3. /\ history \in Seq(Message) /\ Exchange(r) \in Seq(Message)
        /\ DOMAIN Exchange(r) = 1 .. 2
        /\ \A i \in DOMAIN Exchange(r) : Exchange(r)[i].request = r
    BY DEF Exchange, Message, WellTyped
  <2>4. \A i \in DOMAIN history' :
           \/ history'[i].request = r
           \/ i \in DOMAIN history /\ history'[i] = history[i]
    BY <2>2, <2>3, ConcatElements
  <2>5. QED
    BY <1>1, <2>1, <2>2, <2>4 DEF Forgets
<1>4. ASSUME NEW r \in Request, TakeSnapshot(r) PROVE \A f \in Refresher : Forgets(f)'
  <2>1. r \notin Ended /\ UNCHANGED <<refresh, history>>
    BY <1>4 DEF TakeSnapshot, At, Ended
  <2>2. \A i \in DOMAIN turn_snapshots' :
           \/ turn_snapshots'[i].request = r
           \/ i \in DOMAIN turn_snapshots /\ turn_snapshots'[i] = turn_snapshots[i]
    <3> DEFINE s == [request |-> r, index |-> turn[r].index]
    <3>1. s \in TurnSnapshot /\ turn_snapshots' = Append(turn_snapshots, s)
      BY <1>4, SnapshotTaken
    <3>2. s.request = r
      OBVIOUS
    <3> HIDE DEF s
    <3>3. QED
      BY <3>1, <3>2, AppendElements DEF WellTyped
  <2>3. QED
    BY <1>1, <2>1, <2>2 DEF Forgets
<1>5. ASSUME NEW g \in Refresher, ClearHistory(g) PROVE \A f \in Refresher : Forgets(f)'
  <2>1. DOMAIN history' = {}
    BY <1>5 DEF ClearHistory
  <2>2. /\ \A f \in Refresher :
              refresh'[f] = IF f = g THEN [step |-> "snapshots", before |-> Ended]
                            ELSE refresh[f]
        /\ UNCHANGED <<turn, turn_snapshots>>
    BY <1>5 DEF ClearHistory, WellTyped
  <2>3. QED
    BY <1>1, <2>1, <2>2 DEF Forgets
<1>6. ASSUME NEW g \in Refresher, ClearSnapshots(g)
      PROVE  \A f \in Refresher : Forgets(f)'
  <2>1. DOMAIN turn_snapshots' = {}
    BY <1>6 DEF ClearSnapshots
  <2>2. /\ \A f \in Refresher :
              /\ refresh'[f].before = refresh[f].before
              /\ refresh'[f].step # "new" => refresh[f].step # "new"
        /\ UNCHANGED <<turn, history>>
    BY <1>6 DEF ClearSnapshots, WellTyped, RefreshState
  <2>3. QED
    BY <1>1, <2>1, <2>2 DEF Forgets
<1>7. QED
  BY <1>2, <1>3, <1>4, <1>5, <1>6, StepCases
  DEF QuietEffect, NumberSnapshot, OnlyTheTurn, Respond, vars

(***************************************************************************)
(* A refresh forgets the turns that had ended when it began, for good.     *)
(***************************************************************************)
THEOREM RefreshForgetsTurns == Spec => []RefreshForgets
<1> DEFINE IInv == WellTyped /\ \A f \in Refresher : Forgets(f)
<1>1. Init => IInv
  <2>1. SUFFICES ASSUME Init PROVE IInv
    OBVIOUS
  <2>2. \A f \in Refresher : refresh[f] = NewRefresh
    BY <2>1 DEF Init
  <2>3. QED
    BY <2>1, <2>2, InitWellTyped, SMT DEF Forgets, NewRefresh
<1>2. IInv /\ [Next]_vars => IInv'
  BY NextWellTyped, NextForgets
<1>3. IInv => RefreshForgets
  BY DEF RefreshForgets, Forgets
<1>4. QED
  BY <1>1, <1>2, <1>3, PTL DEF Spec

-----------------------------------------------------------------------------
(* Answers and numbers of turns.                                           *)

(* On the event loop at most one turn runs.                                *)
RunsAlone == application = "multi_user" => \A q, r \in Running : q = r

Refreshed == \E f \in Refresher : refresh[f].step = "done"

(***************************************************************************)
(* A turn that is about to answer finds its own snapshot last, unless the  *)
(* list has been cleared; on the thread pool it finds some snapshot.       *)
(***************************************************************************)
AnswersOwnTurn(r) ==
    /\ turn[r].answer = "no snapshot" => Refreshed
    /\ application = "multi_user" => turn[r].answer # "other turn"
    /\ At(r, "respond") =>
           IF turn_snapshots = <<>>
           THEN Refreshed
           ELSE application = "multi_user" =>
                    turn_snapshots[Len(turn_snapshots)].request = r

(***************************************************************************)
(* The number a turn has taken is at most the position it will get, until  *)
(* the list is cleared, and at least that on the event loop.               *)
(***************************************************************************)
IsNumbered(r) ==
    At(r, "append") =>
        /\ application = "multi_user" => turn[r].index >= Len(turn_snapshots) + 1
        /\ ~Refreshed => turn[r].index <= Len(turn_snapshots) + 1

LEMMA NextRunsAlone ==
    ASSUME WellTyped, RunsAlone, [Next]_vars
    PROVE  RunsAlone'
<1>1. turn \in [Request -> TurnState]
  BY DEF WellTyped
<1>2. ASSUME NEW r \in Request, QuietEffect(r) PROVE RunsAlone'
  <2>1. CASE turn[r].step = "new" /\ application = "multi_user"
    BY <1>1, <1>2, <2>1 DEF QuietEffect, RunsAlone, Running
  <2>2. CASE turn[r].step # "new"
    BY <1>1, <1>2, <2>2 DEF QuietEffect, RunsAlone, Running, LastSteps
  <2>3. QED
    BY <1>2, <2>1, <2>2 DEF QuietEffect, RunsAlone
<1>3. ASSUME application' = application, Running' \subseteq Running PROVE RunsAlone'
  BY <1>3 DEF RunsAlone
<1>4. ASSUME NEW r \in Request,
             ExtendHistory(r) \/ NumberSnapshot(r) \/ TakeSnapshot(r) \/ Respond(r)
      PROVE  application' = application /\ Running' \subseteq Running
  <2>1. /\ application' = application
        /\ \A q \in Request : q # r => turn'[q] = turn[q]
        /\ turn[r].step \notin {"new", "done"}
    BY <1>1, <1>4
    DEF ExtendHistory, NumberSnapshot, TakeSnapshot, Respond, At, Go, OnlyTheTurn
  <2>2. QED
    BY <2>1 DEF Running
<1>5. QED
  BY <1>2, <1>3, <1>4, StepCases
  DEF ClearHistory, ClearSnapshots, vars, Running

LEMMA NextAnswersOwnTurn ==
    ASSUME WellTyped, WellTyped', RunsAlone, \A r \in Request : AnswersOwnTurn(r),
           [Next]_vars
    PROVE  \A r \in Request : AnswersOwnTurn(r)'
<1>1. turn \in [Request -> TurnState] /\ turn_snapshots \in Seq(TurnSnapshot)
  BY DEF WellTyped
<1>2. ASSUME NEW r \in Request, QuietEffect(r)
      PROVE  \A q \in Request : AnswersOwnTurn(q)'
  BY <1>1, <1>2 DEF QuietEffect, AnswersOwnTurn, At, Refreshed
<1>3. ASSUME NEW r \in Request, ExtendHistory(r)
      PROVE  \A q \in Request : AnswersOwnTurn(q)'
  <2>1. UNCHANGED <<application, refresh, turn_snapshots>>
    BY <1>3 DEF ExtendHistory
  <2>2. turn'[r].step = "snapshot" /\ turn'[r].answer = turn[r].answer
    BY <1>1, <1>3 DEF ExtendHistory, Go, TurnState
  <2>3. \A q \in Request : q # r => turn'[q] = turn[q]
    BY <1>1, <1>3 DEF ExtendHistory, Go
  <2>4. QED
    BY <2>1, <2>2, <2>3 DEF AnswersOwnTurn, At, Refreshed
<1>4. ASSUME NEW r \in Request, NumberSnapshot(r)
      PROVE  \A q \in Request : AnswersOwnTurn(q)'
  <2>1. UNCHANGED <<application, refresh, turn_snapshots>>
    BY <1>4 DEF NumberSnapshot, OnlyTheTurn
  <2>2. turn'[r].step = "append" /\ turn'[r].answer = turn[r].answer
    BY <1>1, <1>4 DEF NumberSnapshot, Go, TurnState
  <2>3. \A q \in Request : q # r => turn'[q] = turn[q]
    BY <1>1, <1>4 DEF NumberSnapshot, Go
  <2>4. QED
    BY <2>1, <2>2, <2>3 DEF AnswersOwnTurn, At, Refreshed
<1>5. ASSUME NEW r \in Request, TakeSnapshot(r)
      PROVE  \A q \in Request : AnswersOwnTurn(q)'
  <2> DEFINE s == [request |-> r, index |-> turn[r].index]
  <2>1. s \in TurnSnapshot /\ turn_snapshots' = Append(turn_snapshots, s)
    BY <1>5, SnapshotTaken
  <2>2. s.request = r
    OBVIOUS
  <2> HIDE DEF s
  <2>3. /\ turn_snapshots' # <<>>
        /\ turn_snapshots'[Len(turn_snapshots')].request = r
    BY <1>1, <2>1, <2>2, AppendElements
  <2>4. /\ UNCHANGED <<application, refresh>>
        /\ turn' = [turn EXCEPT ![r] = [turn[r] EXCEPT !.step = "respond"]]
        /\ r \in Running
    BY <1>5 DEF TakeSnapshot, Go, At, Running
  <2>5. \A q \in Request : q # r /\ At(q, "respond") => application # "multi_user"
    BY <2>4 DEF RunsAlone, Running, At
  <2>6. QED
    BY <1>1, <2>3, <2>4, <2>5 DEF AnswersOwnTurn, At, Refreshed, TurnState
<1>6. ASSUME NEW r \in Request, Respond(r)
      PROVE  \A q \in Request : AnswersOwnTurn(q)'
  <2>1. turn'[r].answer = Answer(r) /\ turn'[r].step = "done"
    BY <1>1, <1>6 DEF Respond, Go, TurnState
  <2>2. /\ UNCHANGED <<application, refresh, turn_snapshots>>
        /\ \A q \in Request : q # r => turn'[q] = turn[q]
    BY <1>1, <1>6 DEF Respond, Go, OnlyTheTurn
  <2>3. At(r, "respond")
    BY <1>6 DEF Respond
  <2>4. QED
    BY <2>1, <2>2, <2>3 DEF AnswersOwnTurn, At, Refreshed, Answer
<1>7. ASSUME NEW f \in Refresher, ClearHistory(f)
      PROVE  \A q \in Request : AnswersOwnTurn(q)'
  BY <1>7 DEF ClearHistory, AnswersOwnTurn, At, Refreshed, WellTyped, RefreshState
<1>8. ASSUME NEW f \in Refresher, ClearSnapshots(f)
      PROVE  \A q \in Request : AnswersOwnTurn(q)'
  BY <1>8 DEF ClearSnapshots, AnswersOwnTurn, At, Refreshed, WellTyped, RefreshState
<1>9. CASE UNCHANGED vars
  BY <1>9 DEF vars, AnswersOwnTurn, At, Refreshed
<1>10. QED
  BY <1>2, <1>3, <1>4, <1>5, <1>6, <1>7, <1>8, <1>9, StepCases

(***************************************************************************)
(* Answers show the turn of their request on the event loop, and fail only *)
(* after a refresh.                                                        *)
(***************************************************************************)
THEOREM AnswersShowTheTurnOfTheRequest == Spec => []AnswersShowTheirTurn
<1> DEFINE IInv == /\ WellTyped
                   /\ RunsAlone
                   /\ \A r \in Request : AnswersOwnTurn(r)
<1>1. Init => IInv
  <2>1. SUFFICES ASSUME Init PROVE IInv
    OBVIOUS
  <2>2. \A r \in Request : turn[r].step = "new" /\ turn[r].answer = "none"
    BY <2>1 DEF Init, NewTurn
  <2>3. RunsAlone
    BY <2>2 DEF RunsAlone, Running
  <2>4. QED
    BY <2>1, <2>2, <2>3, InitWellTyped DEF AnswersOwnTurn, At
<1>2. IInv /\ [Next]_vars => IInv'
  BY NextWellTyped, NextRunsAlone, NextAnswersOwnTurn
<1>3. IInv => AnswersShowTheirTurn
  BY DEF AnswersShowTheirTurn, AnswersOwnTurn, Refreshed
<1>4. QED
  BY <1>1, <1>2, <1>3, PTL DEF Spec

Numbered == TurnsAreNumbered /\ \A r \in Request : IsNumbered(r)

LEMMA NextNumbered ==
    ASSUME WellTyped, RunsAlone, Numbered, [Next]_vars
    PROVE  Numbered'
<1>1. /\ turn \in [Request -> TurnState] /\ turn_snapshots \in Seq(TurnSnapshot)
      /\ Len(turn_snapshots) \in Nat
  BY LenProperties DEF WellTyped
<1>2. ASSUME NEW r \in Request, UNCHANGED <<application, refresh, turn_snapshots>>,
             \A q \in Request : q # r => turn'[q] = turn[q],
             turn'[r].step # "append"
      PROVE  Numbered'
  BY <1>2 DEF Numbered, TurnsAreNumbered, IsNumbered, At, Refreshed
<1>3. ASSUME NEW r \in Request,
             \/ QuietEffect(r) \/ ExtendHistory(r) \/ Respond(r)
      PROVE  Numbered'
  <2>1. UNCHANGED <<application, refresh, turn_snapshots>>
    BY <1>3 DEF QuietEffect, ExtendHistory, Respond, OnlyTheTurn
  <2>2. \A q \in Request : q # r => turn'[q] = turn[q]
    BY <1>1, <1>3 DEF QuietEffect, ExtendHistory, Respond, Go
  <2>3. turn'[r].step # "append"
    <3>1. CASE QuietEffect(r)
      BY <3>1 DEF QuietEffect
    <3>2. CASE ExtendHistory(r)
      BY <1>1, <3>2 DEF ExtendHistory, Go, TurnState
    <3>3. CASE Respond(r)
      BY <1>1, <3>3 DEF Respond, Go, TurnState
    <3>4. QED
      BY <1>3, <3>1, <3>2, <3>3
  <2>4. QED
    BY <1>2, <2>1, <2>2, <2>3
<1>4. ASSUME NEW r \in Request, NumberSnapshot(r) PROVE Numbered'
  <2>1. UNCHANGED <<application, refresh, turn_snapshots>>
    BY <1>4 DEF NumberSnapshot, OnlyTheTurn
  <2>2. turn'[r].index = Len(turn_snapshots) + 1
    BY <1>1, <1>4 DEF NumberSnapshot, Go, TurnState
  <2>3. \A q \in Request : q # r => turn'[q] = turn[q]
    BY <1>1, <1>4 DEF NumberSnapshot, Go
  <2>4. TurnsAreNumbered'
    BY <2>1 DEF Numbered, TurnsAreNumbered
  <2>5. \A q \in Request : IsNumbered(q)'
    BY <1>1, <2>1, <2>2, <2>3 DEF Numbered, IsNumbered, At, Refreshed
  <2>6. QED
    BY <2>4, <2>5 DEF Numbered
<1>5. ASSUME NEW r \in Request, TakeSnapshot(r) PROVE Numbered'
  <2> DEFINE s == [request |-> r, index |-> turn[r].index]
  <2>1. s \in TurnSnapshot /\ turn_snapshots' = Append(turn_snapshots, s)
    BY <1>5, SnapshotTaken
  <2>2. s.index = turn[r].index /\ turn[r].index \in Nat
    BY <1>1 DEF TurnState
  <2> HIDE DEF s
  <2>3. /\ DOMAIN turn_snapshots' = 1 .. Len(turn_snapshots) + 1
        /\ DOMAIN turn_snapshots = 1 .. Len(turn_snapshots)
        /\ Len(turn_snapshots') = Len(turn_snapshots) + 1
        /\ \A i \in DOMAIN turn_snapshots' :
              turn_snapshots'[i] =
                  IF i = Len(turn_snapshots) + 1 THEN s ELSE turn_snapshots[i]
    BY <1>1, <2>1, AppendElements
  <2>4. /\ UNCHANGED <<application, refresh>>
        /\ turn'[r].step = "respond"
        /\ \A q \in Request : q # r => turn'[q] = turn[q]
        /\ At(r, "append") /\ r \in Running
    BY <1>1, <1>5 DEF TakeSnapshot, Go, At, Running, TurnState
  <2>5. \A q \in Request : q # r /\ At(q, "append") => application # "multi_user"
    BY <2>4 DEF RunsAlone, Running, At
  <2>6. IsNumbered(r) /\ TurnsAreNumbered
    BY DEF Numbered
  <2>7. TurnsAreNumbered'
    <3>1. ASSUME NEW i \in DOMAIN turn_snapshots'
          PROVE  /\ application = "multi_user" => turn_snapshots'[i].index >= i
                 /\ ~Refreshed => turn_snapshots'[i].index <= i
      <4>1. CASE i = Len(turn_snapshots) + 1
        BY <1>1, <2>2, <2>3, <2>4, <2>6, <4>1 DEF IsNumbered
      <4>2. CASE i # Len(turn_snapshots) + 1
        <5>1. i \in DOMAIN turn_snapshots /\ turn_snapshots'[i] = turn_snapshots[i]
          BY <1>1, <2>3, <4>2
        <5>2. QED
          BY <2>6, <5>1 DEF TurnsAreNumbered, Refreshed
      <4>3. QED
        BY <4>1, <4>2
    <3>2. QED
      BY <2>4, <3>1 DEF TurnsAreNumbered, Refreshed
  <2>8. ASSUME NEW q \in Request PROVE IsNumbered(q)'
    <3>1. CASE q = r
      BY <2>4, <3>1 DEF IsNumbered, At
    <3>2. CASE q # r
      <4>1. IsNumbered(q) /\ turn[q].index \in Nat
        BY <1>1 DEF Numbered, TurnState
      <4>2. QED
        BY <1>1, <2>3, <2>4, <2>5, <3>2, <4>1 DEF IsNumbered, At, Refreshed
    <3>3. QED
      BY <3>1, <3>2
  <2>9. QED
    BY <2>7, <2>8 DEF Numbered
<1>6. ASSUME NEW f \in Refresher, ClearHistory(f) PROVE Numbered'
  <2>1. UNCHANGED <<application, turn, turn_snapshots>> /\ (Refreshed => Refreshed')
    BY <1>6 DEF ClearHistory, Refreshed, WellTyped, RefreshState
  <2>2. QED
    BY <2>1 DEF Numbered, TurnsAreNumbered, IsNumbered, At, Refreshed
<1>7. ASSUME NEW f \in Refresher, ClearSnapshots(f) PROVE Numbered'
  <2>1. /\ UNCHANGED <<application, turn>>
        /\ turn_snapshots' = <<>> /\ Refreshed'
    BY <1>7 DEF ClearSnapshots, Refreshed, WellTyped, RefreshState
  <2>2. \A r \in Request : turn[r].index \in Nat
    BY <1>1 DEF TurnState
  <2>3. TurnsAreNumbered'
    BY <2>1 DEF TurnsAreNumbered
  <2>4. \A r \in Request : IsNumbered(r)'
    <3>1. Len(turn_snapshots') = 0
      BY <2>1
    <3>2. QED
      BY <1>1, <2>1, <2>2, <3>1 DEF Numbered, IsNumbered, At
  <2>5. QED
    BY <2>3, <2>4 DEF Numbered
<1>8. CASE UNCHANGED vars
  BY <1>8 DEF vars, Numbered, TurnsAreNumbered, IsNumbered, At, Refreshed
<1>9. QED
  BY <1>3, <1>4, <1>5, <1>6, <1>7, <1>8, StepCases

(***************************************************************************)
(* The numbers shown are positions, up to the thread pool and refreshes.   *)
(***************************************************************************)
THEOREM NumbersArePositions == Spec => []TurnsAreNumbered
<1> DEFINE IInv == WellTyped /\ RunsAlone /\ Numbered
<1>1. Init => IInv
  <2>1. SUFFICES ASSUME Init PROVE IInv
    OBVIOUS
  <2>2. \A r \in Request : turn[r].step = "new"
    BY <2>1 DEF Init, NewTurn
  <2>3. RunsAlone
    BY <2>2 DEF RunsAlone, Running
  <2>4. Numbered
    BY <2>1, <2>2 DEF Init, Numbered, TurnsAreNumbered, IsNumbered, At
  <2>5. QED
    BY <2>1, <2>3, <2>4, InitWellTyped
<1>2. IInv /\ [Next]_vars => IInv'
  BY NextWellTyped, NextRunsAlone, NextNumbered
<1>3. IInv => TurnsAreNumbered
  BY DEF Numbered
<1>4. QED
  BY <1>1, <1>2, <1>3, PTL DEF Spec

-----------------------------------------------------------------------------
(* Capture.                                                                *)

Elements(s) == {s[i] : i \in DOMAIN s}

(* What the turn has to remember.                                          *)
Due(r) == Elements(Propose(r, turn[r].done))

(***************************************************************************)
(* While a turn captures, what it has to remember is in memory or still    *)
(* ahead; a fingerprint is not seen before it is in memory.                *)
(***************************************************************************)
CapturesAll(r) ==
    /\ turn[r].step \in {"flush", "record", "remember"} =>
           Due(r) \subseteq memories \cup Elements(turn[r].candidates)
    /\ turn[r].step = "remember" => Head(turn[r].candidates) \in memories
    /\ turn[r].step = "extend" \/ HasEnded(r) => Due(r) \subseteq memories

Captures == seen \subseteq memories /\ \A r \in Request : CapturesAll(r)

LEMMA ElementsOfTail ==
    ASSUME NEW S, NEW s \in Seq(S), s # <<>>
    PROVE  Elements(s) = {Head(s)} \cup Elements(Tail(s))
<1>1. /\ Len(s) \in Nat /\ Len(s) # 0 /\ DOMAIN s = 1 .. Len(s)
  BY EmptySeq, LenProperties
<1>2. /\ Tail(s) \in Seq(S) /\ Len(Tail(s)) = Len(s) - 1 /\ Head(s) = s[1]
      /\ \A i \in 1 .. Len(Tail(s)) : Tail(s)[i] = s[i + 1]
  BY HeadTailProperties
<1>3. DOMAIN Tail(s) = 1 .. Len(s) - 1
  BY <1>2, LenProperties
<1>4. ASSUME NEW i \in DOMAIN s PROVE s[i] \in {Head(s)} \cup Elements(Tail(s))
  <2>1. CASE i = 1
    BY <1>2, <2>1
  <2>2. CASE i # 1
    <3>1. i - 1 \in DOMAIN Tail(s) /\ Tail(s)[i - 1] = s[i]
      BY <1>1, <1>2, <1>3, <2>2
    <3>2. QED
      BY <3>1 DEF Elements
  <2>3. QED
    BY <2>1, <2>2
<1>5. ASSUME NEW i \in DOMAIN Tail(s) PROVE Tail(s)[i] \in Elements(s)
  <2>1. i + 1 \in DOMAIN s /\ Tail(s)[i] = s[i + 1]
    BY <1>1, <1>2, <1>3
  <2>2. QED
    BY <2>1 DEF Elements
<1>6. Head(s) \in Elements(s)
  BY <1>1, <1>2 DEF Elements
<1>7. QED
  BY <1>4, <1>5, <1>6 DEF Elements

(* It is enough to look at the turn that takes the step.                   *)
LEMMA OthersCapture ==
    ASSUME WellTyped, Captures, NEW r \in Request, NEW t, Go(r, t),
           memories \subseteq memories', seen' \subseteq memories', CapturesAll(r)'
    PROVE  Captures'
<1>1. \A q \in Request : q # r => turn'[q] = turn[q]
  BY DEF WellTyped, Go
<1>2. ASSUME NEW q \in Request, q # r PROVE CapturesAll(q)'
  <2>1. turn'[q] = turn[q] /\ CapturesAll(q)
    BY <1>1, <1>2 DEF Captures
  <2>2. QED
    BY <2>1 DEF CapturesAll, HasEnded, Due
<1>3. QED
  BY <1>2 DEF Captures

LEMMA NextCaptures ==
    ASSUME WellTyped, Captures, [Next]_vars
    PROVE  Captures'
<1>1. turn \in [Request -> TurnState]
  BY DEF WellTyped
<1>2. \A r \in Request : CapturesAll(r) /\ HasWork(turn[r]) /\ turn[r] \in TurnState
  BY <1>1 DEF Captures, WellTyped
<1>3. seen \subseteq memories
  BY DEF Captures
<1>4. ASSUME NEW r \in Request, NEW t, Go(r, t), OnlyTheTurn,
             \/ t.step \in {"context", "complete", "tools"}
             \/ t.step = "snapshot" /\ t.failed
      PROVE  Captures'
  <2>1. turn'[r] = t
    BY <1>1, <1>4 DEF Go
  <2>2. CapturesAll(r)'
    <3>1. CASE t.step \in {"context", "complete", "tools"}
      BY <2>1, <3>1 DEF CapturesAll, HasEnded, LastSteps
    <3>2. CASE t.step = "snapshot" /\ t.failed
      BY <2>1, <3>2 DEF CapturesAll, HasEnded
    <3>3. QED
      BY <1>4, <3>1, <3>2
  <2>3. QED
    BY <1>3, <1>4, <2>2, OthersCapture DEF OnlyTheTurn
<1>5. ASSUME NEW r \in Request, StartTurn(r) PROVE Captures'
  BY <1>2, <1>4, <1>5 DEF StartTurn, TurnState
<1>6. ASSUME NEW r \in Request, BuildMemoryContext(r) PROVE Captures'
  BY <1>2, <1>4, <1>6 DEF BuildMemoryContext, TurnState
<1>7. ASSUME NEW r \in Request, NEW calls \in CallLists, CompleteCalls(r, calls)
      PROVE  Captures'
  BY <1>2, <1>4, <1>7 DEF CompleteCalls, TurnState
<1>8. ASSUME NEW r \in Request, NEW error \in BOOLEAN, ExecuteTool(r, error)
      PROVE  Captures'
  <2> DEFINE step == AfterCalls(turn[r].calls)
  <2>0. step \in {"complete", "tools"}
    BY DEF AfterCalls
  <2>1. PICK calls, done, iteration :
            Go(r, [turn[r] EXCEPT !.step = step, !.calls = calls,
                                  !.done = done, !.iteration = iteration])
    BY <1>8 DEF ExecuteTool
  <2> DEFINE t == [turn[r] EXCEPT !.step = step, !.calls = calls,
                                  !.done = done, !.iteration = iteration]
  <2>2. t.step = step
    BY <1>2 DEF TurnState
  <2>3. OnlyTheTurn /\ Go(r, t)
    BY <1>8, <2>1 DEF ExecuteTool
  <2> HIDE DEF t
  <2> HIDE DEF step
  <2>4. QED
    BY <1>4, <2>0, <2>2, <2>3
<1>9. ASSUME NEW r \in Request, Raise(r) PROVE Captures'
  BY <1>4, <1>9 DEF Raise, NewTurn
<1>10. ASSUME NEW r \in Request, NEW done,
              Go(r, [turn[r] EXCEPT !.step = "flush", !.done = done,
                                    !.candidates = Propose(r, done)]),
              OnlyTheTurn
       PROVE  Captures'
  <2>1. /\ turn'[r].step = "flush" /\ turn'[r].done = done
        /\ turn'[r].candidates = Propose(r, done)
    BY <1>1, <1>10 DEF Go, TurnState
  <2>2. CapturesAll(r)'
    BY <2>1 DEF CapturesAll, Due, HasEnded, LastSteps
  <2>3. QED
    BY <1>3, <1>10, <2>2, OthersCapture DEF OnlyTheTurn
<1>11. ASSUME NEW r \in Request, CompleteText(r) PROVE Captures'
  <2>1. [turn[r] EXCEPT !.step = "flush", !.candidates = Propose(r, turn[r].done)]
            = [turn[r] EXCEPT !.step = "flush", !.done = turn[r].done,
                              !.candidates = Propose(r, turn[r].done)]
    BY <1>2 DEF TurnState
  <2>2. QED
    BY <1>10, <1>11, <2>1 DEF CompleteText
<1>12. ASSUME NEW r \in Request, ReachLimit(r) PROVE Captures'
  BY <1>10, <1>12 DEF ReachLimit
<1>13. ASSUME NEW r \in Request, turn[r].step \in {"flush", "remember"},
              turn[r].candidates # <<>>, Head(turn[r].candidates) \in memories,
              Go(r, [turn[r] EXCEPT !.step = "flush", !.candidates = Tail(@)]),
              seen' \subseteq memories, memories' = memories
       PROVE  Captures'
  <2>1. /\ turn'[r].step = "flush" /\ turn'[r].done = turn[r].done
        /\ turn'[r].candidates = Tail(turn[r].candidates)
    BY <1>1, <1>13 DEF Go, TurnState
  <2>2. Elements(turn[r].candidates)
            = {Head(turn[r].candidates)} \cup Elements(Tail(turn[r].candidates))
    BY <1>2, <1>13, ElementsOfTail DEF TurnState
  <2>3. Due(r) \subseteq memories \cup Elements(turn[r].candidates)
    BY <1>2, <1>13 DEF CapturesAll
  <2>4. CapturesAll(r)'
    BY <1>13, <2>1, <2>2, <2>3 DEF CapturesAll, Due, HasEnded, LastSteps
  <2>5. QED
    BY <1>13, <2>4, OthersCapture
<1>14. ASSUME NEW r \in Request, SkipSeen(r) PROVE Captures'
  <2>1. Go(r, [turn[r] EXCEPT !.step = "flush", !.candidates = Tail(@)])
    BY <1>2, <1>14 DEF SkipSeen, At, Go, TurnState
  <2>2. QED
    BY <1>3, <1>13, <1>14, <2>1 DEF SkipSeen, At, OnlyTheTurn
<1>15. ASSUME NEW r \in Request, Remember(r) PROVE Captures'
  <2>1. turn[r].candidates # <<>> /\ Head(turn[r].candidates) \in memories
    BY <1>2, <1>15 DEF Remember, At, HasWork, CapturesAll
  <2>2. QED
    BY <1>3, <1>13, <1>15, <2>1 DEF Remember, At
<1>16. ASSUME NEW r \in Request, Capture(r) PROVE Captures'
  <2>1. /\ turn'[r].step = "record"
        /\ turn'[r].done = turn[r].done /\ turn'[r].candidates = turn[r].candidates
        /\ UNCHANGED <<seen, memories>>
    BY <1>1, <1>16 DEF Capture, Go, OnlyTheTurn, TurnState
  <2>2. Due(r) \subseteq memories \cup Elements(turn[r].candidates)
    BY <1>2, <1>16 DEF Capture, At, CapturesAll
  <2>3. CapturesAll(r)'
    BY <2>1, <2>2 DEF CapturesAll, Due, HasEnded, LastSteps
  <2>4. QED
    BY <1>3, <1>16, <2>1, <2>3, OthersCapture DEF Capture
<1>17. ASSUME NEW r \in Request, Flushed(r) PROVE Captures'
  <2>1. /\ turn'[r].step = "extend" /\ turn'[r].done = turn[r].done
        /\ UNCHANGED <<seen, memories>>
    BY <1>1, <1>17 DEF Flushed, Go, OnlyTheTurn, TurnState
  <2>2. Due(r) \subseteq memories \cup Elements(turn[r].candidates)
    BY <1>2, <1>17 DEF Flushed, At, CapturesAll
  <2>3. Elements(turn[r].candidates) = {}
    BY <1>17 DEF Flushed, Elements
  <2>4. CapturesAll(r)'
    BY <2>1, <2>2, <2>3 DEF CapturesAll, Due, HasEnded, LastSteps
  <2>5. QED
    BY <1>3, <1>17, <2>1, <2>4, OthersCapture DEF Flushed
<1>18. ASSUME NEW r \in Request, RecordCandidate(r) PROVE Captures'
  <2>1. /\ turn'[r].step = "remember"
        /\ turn'[r].done = turn[r].done /\ turn'[r].candidates = turn[r].candidates
        /\ memories' = memories \cup {Head(turn[r].candidates)} /\ seen' = seen
    BY <1>1, <1>18 DEF RecordCandidate, Go, TurnState
  <2>2. Due(r) \subseteq memories \cup Elements(turn[r].candidates)
    BY <1>2, <1>18 DEF RecordCandidate, At, CapturesAll
  <2>3. CapturesAll(r)'
    BY <2>1, <2>2 DEF CapturesAll, Due, HasEnded, LastSteps
  <2>4. QED
    BY <1>3, <1>18, <2>1, <2>3, OthersCapture DEF RecordCandidate
<1>19. ASSUME NEW r \in Request, NEW t, Go(r, t), UNCHANGED <<seen, memories>>,
              turn[r].step = "extend" \/ turn[r].step \in LastSteps,
              t.step \in LastSteps, t.done = turn[r].done,
              turn[r].step = "extend" \/ t.failed = turn[r].failed
       PROVE  Captures'
  <2>1. turn'[r] = t
    BY <1>1, <1>19 DEF Go
  <2>2. CapturesAll(r)'
    BY <1>2, <1>19, <2>1 DEF CapturesAll, Due, HasEnded, LastSteps
  <2>3. QED
    BY <1>3, <1>19, <2>2, OthersCapture
<1>20. ASSUME NEW r \in Request, ExtendHistory(r) PROVE Captures'
  BY <1>2, <1>19, <1>20 DEF ExtendHistory, At, LastSteps, TurnState
<1>21. ASSUME NEW r \in Request, NumberSnapshot(r) PROVE Captures'
  BY <1>2, <1>19, <1>21 DEF NumberSnapshot, OnlyTheTurn, At, LastSteps, TurnState
<1>22. ASSUME NEW r \in Request, TakeSnapshot(r) PROVE Captures'
  BY <1>2, <1>19, <1>22 DEF TakeSnapshot, At, LastSteps, TurnState
<1>23. ASSUME NEW r \in Request, Respond(r) PROVE Captures'
  BY <1>2, <1>19, <1>23 DEF Respond, OnlyTheTurn, At, LastSteps, TurnState
<1>24. CASE UNCHANGED <<turn, seen, memories>>
  BY <1>24 DEF Captures, CapturesAll, HasEnded, Due
<1>25. QED
  BY <1>5, <1>6, <1>7, <1>8, <1>9, <1>11, <1>12, <1>14, <1>15, <1>16, <1>17, <1>18, <1>20,
     <1>21, <1>22, <1>23, <1>24
  DEF Next, Advance, Refresh, ClearHistory, ClearSnapshots, vars

(***************************************************************************)
(* What a successful turn had to remember is in memory.                    *)
(***************************************************************************)
THEOREM CaptureIsComplete == Spec => []SuccessfulTurnsAreCaptured
<1> DEFINE IInv == WellTyped /\ Captures
<1>1. Init => IInv
  <2>1. SUFFICES ASSUME Init PROVE IInv
    OBVIOUS
  <2>2. \A r \in Request : turn[r].step = "new"
    BY <2>1 DEF Init, NewTurn
  <2>3. seen = {}
    BY <2>1 DEF Init
  <2>4. QED
    BY <2>1, <2>2, <2>3, InitWellTyped
    DEF Captures, CapturesAll, HasEnded, LastSteps
<1>2. IInv /\ [Next]_vars => IInv'
  BY NextWellTyped, NextCaptures
<1>3. IInv => SuccessfulTurnsAreCaptured
  BY DEF Captures, CapturesAll, SuccessfulTurnsAreCaptured, HasEnded, LastSteps,
         Due, Elements
<1>4. QED
  BY <1>1, <1>2, <1>3, PTL DEF Spec

-----------------------------------------------------------------------------
(* The recent conversation.                                                *)

(* A sequence of exchanges of turns that ended well: a question is followed*)
(* by its answer.                                                          *)
IsPlaced(messages, i) ==
    /\ i % 2 = 1 => /\ messages[i].role = "user"
                    /\ i < Len(messages)
                    /\ HasEnded(messages[i].request)
    /\ i % 2 # 1 => messages[i] = [messages[i - 1] EXCEPT !.role = "assistant"]

IsWhole(messages) == \A i \in DOMAIN messages : IsPlaced(messages, i)

Exchanges ==
    /\ IsWhole(history)
    /\ \A r \in Request :
          /\ IsWhole(turn[r].prompt)
          /\ Len(turn[r].prompt) <= MaxHistoryMessages

LEMMA EvenShift ==
    ASSUME NEW i \in Nat, NEW n \in Nat, n % 2 = 0
    PROVE  (n + i) % 2 = i % 2
OBVIOUS

LEMMA EvenDifference ==
    ASSUME NEW m \in Nat, NEW n \in Nat, n <= m, m % 2 = 0, n % 2 = 0
    PROVE  m - n \in Nat /\ (m - n) % 2 = 0
OBVIOUS

LEMMA Suffix ==
    ASSUME NEW S, NEW s \in Seq(S), NEW cut \in Nat, cut <= Len(s)
    PROVE  LET suffix == SubSeq(s, cut + 1, Len(s))
           IN  /\ suffix \in Seq(S) /\ Len(suffix) = Len(s) - cut
               /\ DOMAIN suffix = 1 .. Len(s) - cut
               /\ \A i \in 1 .. Len(s) - cut : suffix[i] = s[cut + i]
<1> DEFINE suffix == SubSeq(s, cut + 1, Len(s))
<1>1. Len(s) \in Nat /\ DOMAIN s = 1 .. Len(s)
  BY LenProperties
<1>2. \A i \in cut + 1 .. Len(s) : s[i] \in S
  BY <1>1, ElementOfSeq
<1>3. cut + 1 \in Int /\ Len(s) \in Int
  BY <1>1
<1>4. /\ suffix \in Seq(S)
      /\ Len(suffix) = IF cut + 1 <= Len(s) THEN Len(s) - (cut + 1) + 1 ELSE 0
      /\ \A i \in 1 .. Len(s) - (cut + 1) + 1 : suffix[i] = s[(cut + 1) + i - 1]
  BY <1>2, <1>3, SubSeqProperties
<1> HIDE DEF suffix
<1>5. Len(suffix) = Len(s) - cut
  BY <1>1, <1>4
<1>6. DOMAIN suffix = 1 .. Len(s) - cut
  BY <1>4, <1>5, LenProperties
<1>7. ASSUME NEW i \in 1 .. Len(s) - cut PROVE suffix[i] = s[cut + i]
  <2>1. i \in 1 .. Len(s) - (cut + 1) + 1 /\ (cut + 1) + i - 1 = cut + i
    BY <1>1
  <2>2. QED
    BY <1>4, <2>1
<1>8. QED
  BY <1>4, <1>5, <1>6, <1>7 DEF suffix

(* Whole exchanges come in pairs of messages.                              *)
LEMMA WholeIsEven ==
    ASSUME NEW messages \in Seq(Message), IsWhole(messages)
    PROVE  Len(messages) \in Nat /\ Len(messages) % 2 = 0
<1>1. Len(messages) \in Nat /\ DOMAIN messages = 1 .. Len(messages)
  BY LenProperties
<1>2. Len(messages) # 0 => Len(messages) \in DOMAIN messages
  BY <1>1
<1>3. Len(messages) # 0 => Len(messages) % 2 # 1
  BY <1>1, <1>2 DEF IsWhole, IsPlaced
<1>4. QED
  BY <1>1, <1>3

(* The window cuts the history between two exchanges.                      *)
LEMMA WindowIsWhole ==
    ASSUME WellTyped, IsWhole(history),
           MaxHistoryMessages \in Nat, MaxHistoryMessages % 2 = 0
    PROVE  IsWhole(RecentHistory) /\ Len(RecentHistory) <= MaxHistoryMessages
<1>1. history \in Seq(Message)
  BY DEF WellTyped
<1>2. /\ Len(history) \in Nat /\ Len(history) % 2 = 0
      /\ DOMAIN history = 1 .. Len(history)
  BY <1>1, WholeIsEven, LenProperties
<1>3. CASE MaxHistoryMessages = 0
  <2>1. RecentHistory = <<>>
    BY <1>3 DEF RecentHistory
  <2>2. QED
    BY <1>3, <2>1 DEF IsWhole
<1>4. CASE MaxHistoryMessages # 0
  <2> DEFINE cut == IF Len(history) > MaxHistoryMessages
                    THEN Len(history) - MaxHistoryMessages
                    ELSE 0
  <2>1. cut \in Nat /\ cut % 2 = 0
    <3>1. CASE Len(history) > MaxHistoryMessages
      BY <1>2, <3>1, EvenDifference
    <3>2. CASE ~(Len(history) > MaxHistoryMessages)
      BY <3>2
    <3>3. QED
      BY <3>1, <3>2
  <2>2. cut <= Len(history) /\ Len(history) - cut <= MaxHistoryMessages
    BY <1>2
  <2>3. RecentHistory = SubSeq(history, cut + 1, Len(history))
    <3>1. ~(MaxHistoryMessages <= 0)
      BY <1>4
    <3>2. (IF Len(history) > MaxHistoryMessages
           THEN Len(history) - MaxHistoryMessages + 1 ELSE 1) = cut + 1
      BY <1>2
    <3> HIDE DEF cut
    <3>3. QED
      BY <3>1, <3>2, Zenon DEF RecentHistory
  <2> HIDE DEF cut
  <2>4. /\ RecentHistory \in Seq(Message)
        /\ Len(RecentHistory) = Len(history) - cut
        /\ DOMAIN RecentHistory = 1 .. Len(history) - cut
        /\ \A i \in 1 .. Len(history) - cut : RecentHistory[i] = history[cut + i]
    BY <1>1, <2>1, <2>2, <2>3, Suffix, Zenon
  <2>5. ASSUME NEW i \in DOMAIN RecentHistory PROVE IsPlaced(RecentHistory, i)
    <3>1. /\ i \in Nat /\ 1 <= i /\ i <= Len(history) - cut
          /\ cut + i \in 1 .. Len(history)
      <4>1. i \in 1 .. Len(history) - cut
        BY <2>4
      <4>2. QED
        BY <1>2, <2>1, <2>2, <4>1
    <3>2. RecentHistory[i] = history[cut + i] /\ IsPlaced(history, cut + i)
      BY <1>2, <2>4, <3>1 DEF IsWhole
    <3>3. (cut + i) % 2 = i % 2
      BY <2>1, <3>1, EvenShift
    <3>4. CASE i % 2 = 1
      <4>1. /\ history[cut + i].role = "user" /\ cut + i < Len(history)
            /\ HasEnded(history[cut + i].request)
        BY <3>2, <3>3, <3>4 DEF IsPlaced
      <4>2. i < Len(RecentHistory)
        BY <1>2, <2>1, <2>4, <3>1, <4>1
      <4>3. QED
        BY <3>2, <3>4, <4>1, <4>2 DEF IsPlaced
    <3>5. CASE i % 2 # 1
      <4>1. history[cut + i] = [history[(cut + i) - 1] EXCEPT !.role = "assistant"]
        <5>1. (cut + i) % 2 # 1
          BY <3>3, <3>5
        <5>2. QED
          BY <3>2, <5>1 DEF IsPlaced
      <4>2. i # 1
        BY <3>5
      <4>3. i - 1 \in 1 .. Len(history) - cut /\ cut + (i - 1) = (cut + i) - 1
        BY <1>2, <2>1, <3>1, <4>2
      <4>4. RecentHistory[i - 1] = history[(cut + i) - 1]
        BY <2>4, <4>3
      <4>5. QED
        BY <3>2, <3>5, <4>1, <4>4 DEF IsPlaced
    <3>6. QED
      BY <3>4, <3>5
  <2>6. QED
    BY <2>2, <2>4, <2>5 DEF IsWhole
<1>5. QED
  BY <1>3, <1>4

(* Turns that ended well have still ended well after any step.             *)
LEMMA WholeStaysWhole ==
    ASSUME WellTyped, [Next]_vars, NEW CONSTANT messages \in Seq(Message),
           NEW CONSTANT i \in DOMAIN messages, IsPlaced(messages, i)
    PROVE  IsPlaced(messages, i)'
<1>1. messages[i].request \in Request
  <2>1. messages[i] \in Message
    BY ElementOfSeq, LenProperties
  <2>2. QED
    BY <2>1 DEF Message
<1>2. HasEnded(messages[i].request) => HasEnded(messages[i].request)'
  BY <1>1, EndedStaysEnded
<1>3. QED
  BY <1>2 DEF IsPlaced

(* A turn that did not fail adds a whole exchange.                         *)
LEMMA ExtendedIsWhole ==
    ASSUME WellTyped, [Next]_vars, IsWhole(history), NEW r \in Request,
           ExtendHistory(r), ~turn[r].failed
    PROVE  IsWhole(history)'
<1>1. history \in Seq(Message) /\ Exchange(r) \in Seq(Message)
  BY DEF WellTyped, Exchange, Message
<1>2. /\ Len(history) \in Nat /\ Len(history) % 2 = 0
      /\ DOMAIN history = 1 .. Len(history)
  BY <1>1, WholeIsEven, LenProperties
<1>3. /\ history' = history \o Exchange(r)
      /\ Len(Exchange(r)) = 2
      /\ Exchange(r)[1] = [role |-> "user", request |-> r]
      /\ Exchange(r)[2] = [role |-> "assistant", request |-> r]
  BY DEF ExtendHistory, Exchange
<1>4. /\ history' \in Seq(Message) /\ Len(history') = Len(history) + Len(Exchange(r))
      /\ \A i \in 1 .. Len(history) + Len(Exchange(r)) :
            history'[i] = IF i <= Len(history) THEN history[i]
                          ELSE Exchange(r)[i - Len(history)]
  BY <1>1, <1>3, ConcatProperties, Zenon
<1>5. Len(history') = Len(history) + 2 /\ DOMAIN history' = 1 .. Len(history) + 2
  BY <1>3, <1>4, LenProperties
<1>6. HasEnded(r)'
  <2>1. turn[r] \in TurnState /\ turn \in [Request -> TurnState]
    BY DEF WellTyped
  <2>2. turn'[r].step = "snapshot" /\ turn'[r].failed = turn[r].failed
    BY <2>1 DEF ExtendHistory, Go, TurnState
  <2>3. QED
    BY <2>2 DEF HasEnded, LastSteps
<1>7. ASSUME NEW i \in 1 .. Len(history) PROVE IsPlaced(history, i)'
  <2>1. history'[i] = history[i] /\ history[i] \in Message /\ IsPlaced(history, i)
    <3>1. history'[i] = history[i]
      BY <1>2, <1>3, <1>4
    <3>2. history[i] \in Message
      BY <1>1, <1>2, ElementOfSeq
    <3>3. IsPlaced(history, i)
      BY <1>2 DEF IsWhole
    <3>4. QED
      BY <3>1, <3>2, <3>3
  <2>2. CASE i % 2 = 1
    <3>1. /\ history[i].role = "user" /\ i < Len(history)
          /\ HasEnded(history[i].request)
      BY <2>1, <2>2 DEF IsPlaced
    <3>2. HasEnded(history[i].request)'
      <4>1. \A q \in Request : HasEnded(q) => HasEnded(q)'
        BY EndedStaysEnded
      <4>2. PICK q \in Request : q = history[i].request
        BY <2>1 DEF Message
      <4>3. HasEnded(q)' /\ history'[i].request = q
        BY <2>1, <3>1, <4>1, <4>2
      <4>4. QED
        BY <2>1, <4>3 DEF HasEnded
    <3>3. i < Len(history')
      BY <1>2, <1>5, <3>1
    <3>4. QED
      BY <2>1, <2>2, <3>1, <3>2, <3>3 DEF IsPlaced
  <2>3. CASE i % 2 # 1
    <3>1. history[i] = [history[i - 1] EXCEPT !.role = "assistant"]
      BY <2>1, <2>3 DEF IsPlaced
    <3>2. i # 1
      BY <2>3
    <3>3. i - 1 \in 1 .. Len(history)
      BY <1>2, <3>2
    <3>4. history'[i - 1] = history[i - 1]
      BY <1>2, <1>3, <1>4, <3>3
    <3>5. QED
      BY <2>1, <2>3, <3>1, <3>4 DEF IsPlaced
  <2>4. QED
    BY <2>2, <2>3
<1>8. ASSUME NEW i \in {Len(history) + 1} PROVE IsPlaced(history, i)'
  <2>1. i \in 1 .. Len(history) + 2 /\ i < Len(history') /\ i % 2 = 1
    BY <1>2, <1>5
  <2>2. history'[i] = [role |-> "user", request |-> r]
    BY <1>2, <1>3, <1>4, <2>1
  <2>3. history'[i].role = "user" /\ HasEnded(history[i].request)'
    BY <1>6, <2>2 DEF HasEnded
  <2>4. QED
    BY <2>1, <2>3 DEF IsPlaced
<1>9. ASSUME NEW i \in {Len(history) + 2} PROVE IsPlaced(history, i)'
  <2>1. /\ i \in 1 .. Len(history) + 2 /\ i - 1 \in 1 .. Len(history) + 2
        /\ i % 2 # 1 /\ i - 1 = Len(history) + 1
    BY <1>2, <1>5
  <2>2. history'[i] = [role |-> "assistant", request |-> r]
    BY <1>2, <1>3, <1>4, <2>1
  <2>3. history'[i - 1] = [role |-> "user", request |-> r]
    BY <1>2, <1>3, <1>4, <2>1
  <2>4. QED
    BY <2>1, <2>2, <2>3 DEF IsPlaced
<1>10. ASSUME NEW i \in 1 .. Len(history) + 2 PROVE IsPlaced(history, i)'
  <2>1. i \in 1 .. Len(history) \/ i = Len(history) + 1 \/ i = Len(history) + 2
    BY <1>2
  <2>2. QED
    BY <1>7, <1>8, <1>9, <2>1
<1>11. QED
  BY <1>5, <1>10 DEF IsWhole

(* A turn fails only at its end.                                           *)
FailsAtItsEnd(r) == turn[r].failed => turn[r].step \in LastSteps

LEMMA NextFailsAtItsEnd ==
    ASSUME WellTyped, \A r \in Request : FailsAtItsEnd(r), [Next]_vars
    PROVE  \A r \in Request : FailsAtItsEnd(r)'
<1>1. turn \in [Request -> TurnState]
  BY DEF WellTyped
<1>2. ASSUME NEW r \in Request, QuietEffect(r) PROVE \A q \in Request : FailsAtItsEnd(q)'
  BY <1>1, <1>2 DEF QuietEffect, FailsAtItsEnd, LastSteps
<1>3. ASSUME NEW r \in Request, ExtendHistory(r)
      PROVE  \A q \in Request : FailsAtItsEnd(q)'
  BY <1>1, <1>3 DEF ExtendHistory, Go, FailsAtItsEnd, LastSteps, TurnState
<1>4. ASSUME NEW r \in Request, NumberSnapshot(r)
      PROVE  \A q \in Request : FailsAtItsEnd(q)'
  BY <1>1, <1>4 DEF NumberSnapshot, Go, FailsAtItsEnd, LastSteps, TurnState
<1>5. ASSUME NEW r \in Request, TakeSnapshot(r)
      PROVE  \A q \in Request : FailsAtItsEnd(q)'
  BY <1>1, <1>5 DEF TakeSnapshot, Go, FailsAtItsEnd, LastSteps, TurnState
<1>6. ASSUME NEW r \in Request, Respond(r) PROVE \A q \in Request : FailsAtItsEnd(q)'
  BY <1>1, <1>6 DEF Respond, Go, FailsAtItsEnd, LastSteps, TurnState
<1>7. CASE turn' = turn
  BY <1>7 DEF FailsAtItsEnd
<1>8. QED
  BY <1>2, <1>3, <1>4, <1>5, <1>6, <1>7, StepCases
  DEF ClearHistory, ClearSnapshots, vars

LEMMA EmptyIsWhole ==
    ASSUME MaxHistoryMessages \in Nat
    PROVE  IsWhole(<<>>) /\ Len(<<>>) <= MaxHistoryMessages
BY DEF IsWhole

(* Messages that were whole exchanges stay so.                             *)
LEMMA AllWholeStaysWhole ==
    ASSUME WellTyped, [Next]_vars, NEW CONSTANT messages \in Seq(Message),
           IsWhole(messages)
    PROVE  IsWhole(messages)'
<1>1. ASSUME NEW CONSTANT i \in DOMAIN messages PROVE IsPlaced(messages, i)'
  <2>1. IsPlaced(messages, i)
    BY DEF IsWhole
  <2>2. QED
    BY <2>1, WholeStaysWhole
<1>2. QED
  BY <1>1 DEF IsWhole

(* The history: what a turn adds to it are whole exchanges.                *)
LEMMA NextHistoryIsWhole ==
    ASSUME WellTyped, Exchanges, \A r \in Request : FailsAtItsEnd(r), [Next]_vars
    PROVE  IsWhole(history)'
<1>1. CASE history' = history
  <2>1. PICK messages : messages = history
    OBVIOUS
  <2>2. messages \in Seq(Message) /\ IsWhole(messages)
    BY <2>1 DEF WellTyped, Exchanges, IsWhole, IsPlaced
  <2>3. IsWhole(messages)'
    BY <2>2, AllWholeStaysWhole
  <2>4. QED
    BY <1>1, <2>1, <2>3
<1>2. ASSUME NEW r \in Request, ExtendHistory(r) PROVE IsWhole(history)'
  <2>1. ~turn[r].failed
    BY <1>2 DEF ExtendHistory, At, FailsAtItsEnd, LastSteps
  <2>2. QED
    BY <1>2, <2>1, ExtendedIsWhole DEF Exchanges
<1>3. CASE history' = <<>>
  BY <1>3 DEF IsWhole
<1>4. QED
  BY <1>1, <1>2, <1>3, StepCases
  DEF QuietEffect, NumberSnapshot, TakeSnapshot, Respond, OnlyTheTurn,
      ClearHistory, ClearSnapshots, vars

(* A prompt is the window of a whole history, and was it when it was read. *)
IsPrompt(messages) ==
    IsWhole(messages) /\ Len(messages) <= MaxHistoryMessages

LEMMA WindowStaysWhole ==
    ASSUME WellTyped, Exchanges, [Next]_vars,
           MaxHistoryMessages \in Nat, MaxHistoryMessages % 2 = 0,
           NEW CONSTANT messages, messages = RecentHistory
    PROVE  IsPrompt(messages)'
<1>1. messages \in Seq(Message)
  BY RecentHistoryType
<1>2. IsWhole(RecentHistory) /\ Len(RecentHistory) <= MaxHistoryMessages
  BY WindowIsWhole DEF Exchanges
<1>3. IsWhole(messages)
  BY <1>2 DEF IsWhole, IsPlaced
<1>4. QED
  BY <1>1, <1>2, <1>3, AllWholeStaysWhole DEF IsPrompt

LEMMA NextPromptsAreWhole ==
    ASSUME WellTyped, Exchanges, [Next]_vars,
           MaxHistoryMessages \in Nat, MaxHistoryMessages % 2 = 0,
           NEW CONSTANT q \in Request
    PROVE  IsPrompt(turn[q].prompt)'
<1>1. turn \in [Request -> TurnState]
  BY DEF WellTyped
<1>2. turn'[q].prompt \in {turn[q].prompt, <<>>, RecentHistory}
  <2>1. ASSUME NEW r \in Request, QuietEffect(r)
        PROVE  turn'[q].prompt \in {turn[q].prompt, <<>>, RecentHistory}
    BY <1>1, <2>1 DEF QuietEffect
  <2>2. ASSUME NEW r \in Request, ExtendHistory(r)
        PROVE  turn'[q].prompt = turn[q].prompt
    BY <1>1, <2>2 DEF ExtendHistory, Go, TurnState
  <2>3. ASSUME NEW r \in Request, NumberSnapshot(r)
        PROVE  turn'[q].prompt = turn[q].prompt
    BY <1>1, <2>3 DEF NumberSnapshot, Go, TurnState
  <2>4. ASSUME NEW r \in Request, TakeSnapshot(r)
        PROVE  turn'[q].prompt = turn[q].prompt
    BY <1>1, <2>4 DEF TakeSnapshot, Go, TurnState
  <2>5. ASSUME NEW r \in Request, Respond(r)
        PROVE  turn'[q].prompt \in {turn[q].prompt, <<>>}
    BY <1>1, <2>5 DEF Respond, Go, TurnState
  <2>6. QED
    BY <2>1, <2>2, <2>3, <2>4, <2>5, StepCases
    DEF ClearHistory, ClearSnapshots, vars
<1>3. PICK messages : messages = turn'[q].prompt
  OBVIOUS
<1>4. IsPrompt(messages)'
  <2>1. CASE messages = turn[q].prompt
    <3>1. messages \in Seq(Message)
      BY <1>1, <2>1 DEF TurnState
    <3>2. IsWhole(messages) /\ Len(messages) <= MaxHistoryMessages
      BY <2>1 DEF Exchanges, IsWhole, IsPlaced
    <3>3. QED
      BY <3>1, <3>2, AllWholeStaysWhole DEF IsPrompt
  <2>2. CASE messages = <<>>
    BY <2>2, EmptySeq DEF IsPrompt, IsWhole
  <2>3. CASE messages = RecentHistory
    BY <2>3, WindowStaysWhole
  <2>4. QED
    BY <1>2, <1>3, <2>1, <2>2, <2>3
<1>5. QED
  BY <1>3, <1>4

(***************************************************************************)
(* The model sees whole exchanges of turns that did not fail, whenever the *)
(* window holds an even number of messages, as the eight of the code do.   *)
(***************************************************************************)
THEOREM PromptsAreWholeExchanges ==
    ASSUME MaxHistoryMessages \in Nat, MaxHistoryMessages % 2 = 0
    PROVE  Spec => []PromptIsWholeExchanges
<1> DEFINE IInv == /\ WellTyped
                   /\ \A r \in Request : FailsAtItsEnd(r)
                   /\ Exchanges
<1>1. Init => IInv
  <2>1. SUFFICES ASSUME Init PROVE IInv
    OBVIOUS
  <2>2. \A r \in Request : ~turn[r].failed /\ turn[r].prompt = <<>>
    BY <2>1 DEF Init, NewTurn
  <2>3. history = <<>>
    BY <2>1 DEF Init
  <2>4. IsWhole(<<>>) /\ Len(<<>>) <= MaxHistoryMessages
    BY EmptyIsWhole
  <2>5. Exchanges
    BY <2>2, <2>3, <2>4 DEF Exchanges, IsWhole
  <2>6. QED
    BY <2>1, <2>2, <2>5, InitWellTyped DEF FailsAtItsEnd
<1>2. IInv /\ [Next]_vars => IInv'
  <2>1. SUFFICES ASSUME IInv, [Next]_vars PROVE IInv'
    OBVIOUS
  <2>2. WellTyped' /\ \A r \in Request : FailsAtItsEnd(r)'
    BY <2>1, NextWellTyped, NextFailsAtItsEnd
  <2>3. IsWhole(history)'
    BY <2>1, NextHistoryIsWhole
  <2>4. \A r \in Request : IsPrompt(turn[r].prompt)'
    BY <2>1, NextPromptsAreWhole
  <2>5. QED
    BY <2>2, <2>3, <2>4 DEF Exchanges, IsPrompt
<1>3. IInv => PromptIsWholeExchanges
  <2>1. SUFFICES ASSUME IInv, NEW r \in Request, NEW i \in DOMAIN turn[r].prompt
                 PROVE  /\ Len(turn[r].prompt) <= MaxHistoryMessages
                        /\ IsPlaced(turn[r].prompt, i)
    BY DEF PromptIsWholeExchanges, IsPlaced, HasEnded, Exchanges
  <2>2. QED
    BY <2>1 DEF Exchanges, IsWhole
<1>4. QED
  BY <1>1, <1>2, <1>3, PTL DEF Spec
=============================================================================
