----------------------- MODULE StoreTransactionsProofs -----------------------
(***************************************************************************)
(* Proofs about StoreTransactions, for any calls, any number of rows and   *)
(* any number of crashes: with one caller the connection implements the    *)
(* atomic store, and what remains true of it among threads.                *)
(***************************************************************************)
EXTENDS StoreTransactions, FiniteSetTheorems, TLAPS

(* The rows a call has written so far.                                     *)
WrittenRows(c) == {c} \X (1 .. written[c])

LEMMA RowsAreLastRow ==
    ASSUME NEW c \in Call
    PROVE  /\ Rows(c) = {c} \X (1 .. LastRow(c))
           /\ LastRow(c) \in 1 .. Statements
<1>1. Statements \in Nat \ {0}
  BY StoreAssumption
<1>2. QED
  BY <1>1 DEF Rows, LastRow

(* The steps other than a crash, one by one.                               *)
CallStep(c) ==
    \/ EnterNested(c) \/ EnterOuter(c) \/ Begin(c) \/ BeginRefused(c)
    \/ SetDepth(c) \/ StartSingle(c)
    \/ Write(c) \/ FailToWrite(c) \/ CommitIfNeeded(c) \/ CommitRow(c)
    \/ ReturnSingle(c) \/ ExitNested(c) \/ CommitBlock(c) \/ Rollback(c)
    \/ ResetDepth(c)

-----------------------------------------------------------------------------
(* Types.                                                                  *)

LEMMA InitTypeOK == ASSUME Init PROVE TypeOK
<1>1. Statements \in Nat \ {0} /\ MaxCrashes \in Nat
  BY StoreAssumption
<1>2. 0 \in 0 .. Statements /\ crashes \in 0 .. MaxCrashes
  BY <1>1 DEF Init
<1>3. pc \in [Call -> Location] /\ written \in [Call -> 0 .. Statements]
  BY <1>2 DEF Init, Location
<1>4. open \in BOOLEAN
  BY DEF Init
<1>5. /\ depth \in Int
      /\ work \subseteq UNION {Rows(c) : c \in Call} /\ durable \subseteq work
      /\ nested \subseteq Block /\ overlapped \subseteq Block
  BY DEF Init
<1>6. QED
  BY <1>2, <1>3, <1>4, <1>5 DEF TypeOK

LEMMA WriteTypeOK ==
    ASSUME TypeOK, NEW c \in Call, Write(c)
    PROVE  TypeOK'
<1>1. written[c] \in 0 .. Statements
  BY DEF TypeOK
<1>2. written[c] + 1 \in 1 .. LastRow(c) /\ written[c] + 1 \in 0 .. Statements
  BY <1>1, RowsAreLastRow, StoreAssumption DEF Write
<1>3. <<c, written[c] + 1>> \in Rows(c)
  BY <1>2, RowsAreLastRow
<1>4. work' \subseteq UNION {Rows(d) : d \in Call}
  BY <1>3 DEF Write, TypeOK
<1>5. written' \in [Call -> 0 .. Statements]
  BY <1>2 DEF Write, TypeOK
<1>6. QED
  BY <1>4, <1>5 DEF Write, TypeOK, MoveTo, Location

LEMMA NextTypeOK == ASSUME TypeOK, [Next]_vars PROVE TypeOK'
<1> USE DEF TypeOK, MoveTo, Location, Ended
<1>1. ASSUME NEW c \in Call, EnterNested(c) PROVE TypeOK'
  BY <1>1 DEF EnterNested, Overlap, InFlight
<1>2. ASSUME NEW c \in Call, EnterOuter(c) PROVE TypeOK'
  BY <1>2 DEF EnterOuter, Overlap, InFlight
<1>3. ASSUME NEW c \in Call, Begin(c) PROVE TypeOK'
  BY <1>3 DEF Begin
<1>4. ASSUME NEW c \in Call, BeginRefused(c) PROVE TypeOK'
  BY <1>4 DEF BeginRefused
<1>5. ASSUME NEW c \in Call, SetDepth(c) PROVE TypeOK'
  BY <1>5 DEF SetDepth
<1>6. ASSUME NEW c \in Call, StartSingle(c) PROVE TypeOK'
  BY <1>6 DEF StartSingle
<1>7. ASSUME NEW c \in Call, Write(c) PROVE TypeOK'
  BY <1>7, WriteTypeOK
<1>8. ASSUME NEW c \in Call, FailToWrite(c) PROVE TypeOK'
  BY <1>8 DEF FailToWrite
<1>9. ASSUME NEW c \in Call, CommitIfNeeded(c) PROVE TypeOK'
  BY <1>9 DEF CommitIfNeeded
<1>10. ASSUME NEW c \in Call, CommitRow(c) PROVE TypeOK'
  BY <1>10 DEF CommitRow
<1>11. ASSUME NEW c \in Call, ReturnSingle(c) PROVE TypeOK'
  BY <1>11 DEF ReturnSingle
<1>12. ASSUME NEW c \in Call, ExitNested(c) PROVE TypeOK'
  BY <1>12 DEF ExitNested
<1>13. ASSUME NEW c \in Call, CommitBlock(c) PROVE TypeOK'
  BY <1>13 DEF CommitBlock
<1>14. ASSUME NEW c \in Call, Rollback(c) PROVE TypeOK'
  BY <1>14 DEF Rollback
<1>15. ASSUME NEW c \in Call, ResetDepth(c) PROVE TypeOK'
  BY <1>15 DEF ResetDepth
<1>16. CASE Crash
  <2>1. crashes' \in 0 .. MaxCrashes
    BY <1>16, StoreAssumption DEF Crash
  <2>2. pc' \in [Call -> Location]
    BY <1>16 DEF Crash
  <2>3. open' \in BOOLEAN
    BY <1>16 DEF Crash
  <2>4. /\ depth' = 0 /\ work' = durable
        /\ UNCHANGED <<durable, written, nested, overlapped>>
    BY <1>16 DEF Crash
  <2>5. QED
    BY <2>1, <2>2, <2>3, <2>4
<1>17. CASE UNCHANGED vars
  BY <1>17 DEF vars
<1>18. QED
  BY <1>1, <1>2, <1>3, <1>4, <1>5, <1>6, <1>7, <1>8, <1>9, <1>10, <1>11, <1>12,
     <1>13, <1>14, <1>15, <1>16, <1>17
  DEF Next

(***************************************************************************)
(* Every reachable state is well typed, and what a crash would leave is    *)
(* always part of what a reader of the connection sees.                    *)
(***************************************************************************)
THEOREM TypeCorrect == Spec => []TypeOK
<1>1. Init => TypeOK
  BY InitTypeOK
<1>2. TypeOK /\ [Next]_vars => TypeOK'
  BY NextTypeOK
<1>3. QED
  BY <1>1, <1>2, PTL DEF Spec

-----------------------------------------------------------------------------
(* One caller.                                                             *)

Alone == \A c, d \in InFlight : c = d

DepthInside(c) == IF c \in Block THEN 1 ELSE 0

(***************************************************************************)
(* What holds at each place of the one call that is in flight: the depth   *)
(* says whether it is a block that is inside its transaction, and a reader *)
(* sees what is durable and the rows of the call that it has not committed.*)
(***************************************************************************)
Stage(c) ==
    /\ pc[c] = "ready" => written[c] = 0
    /\ pc[c] \in {"begin", "begun"} =>
           c \in Block /\ depth = 0 /\ written[c] = 0 /\ work = durable
    /\ pc[c] = "body" =>
           /\ depth = DepthInside(c)
           /\ c \in Block => work = durable \cup WrittenRows(c)
           /\ c \notin Block => work = durable
    /\ pc[c] = "check" =>
           /\ depth = DepthInside(c) /\ written[c] \in 1 .. LastRow(c)
           /\ work = durable \cup WrittenRows(c)
    /\ pc[c] = "commit" =>
           /\ c \notin Block /\ depth = 0 /\ written[c] = 1
           /\ work = durable \cup WrittenRows(c)
    /\ pc[c] = "raised" => c \in Block /\ depth = 1
    /\ pc[c] \in {"reset", "undone"} => c \in Block /\ work = durable

OneCall ==
    /\ nested = {}
    /\ Alone
    /\ NothingPending
    /\ \A c \in Call : Stage(c)

LEMMA StartsAlone ==
    ASSUME Alone, MaxInFlight <= 1, NEW c \in Call, MayStart(c)
    PROVE  InFlight = {}
<1>1. SUFFICES ASSUME NEW d \in InFlight PROVE FALSE
  OBVIOUS
<1>2. InFlight = {d}
  BY <1>1 DEF Alone
<1>3. Cardinality(InFlight) = 1
  BY <1>2, FS_Singleton
<1>4. Cardinality(InFlight) < MaxInFlight /\ MaxInFlight \in Nat
  BY StoreAssumption DEF MayStart
<1>5. QED
  BY <1>3, <1>4

LEMMA ActsAlone ==
    ASSUME TypeOK, OneCall, MaxInFlight <= 1, NEW c \in Call, CallStep(c)
    PROVE  InFlight \subseteq {c}
<1>1. CASE MayStart(c)
  BY <1>1, StartsAlone DEF OneCall
<1>2. CASE pc[c] \notin Ended \cup {"ready"}
  BY <1>2 DEF OneCall, Alone, InFlight
<1>3. QED
  BY <1>1, <1>2
  DEF CallStep, EnterNested, EnterOuter, Begin, BeginRefused, SetDepth,
      StartSingle, Write, FailToWrite, CommitIfNeeded, CommitRow, ReturnSingle,
      ExitNested, CommitBlock, Rollback, ResetDepth, Ended

(* Entering a nested block takes a depth that one caller never meets.      *)
LEMMA NeverNested ==
    ASSUME OneCall, MaxInFlight <= 1, NEW c \in Call
    PROVE  ~EnterNested(c) /\ ~ExitNested(c)
<1>1. ASSUME EnterNested(c) PROVE FALSE
  <2>1. InFlight = {}
    BY <1>1, StartsAlone DEF EnterNested, OneCall
  <2>2. QED
    BY <1>1, <2>1 DEF EnterNested, OneCall, NothingPending
<1>2. QED
  BY <1>1 DEF ExitNested, OneCall

LEMMA NextRow ==
    ASSUME NEW c, NEW n \in Nat
    PROVE  /\ {c} \X (1 .. n + 1) = ({c} \X (1 .. n)) \cup {<<c, n + 1>>}
           /\ {c} \X (1 .. 0) = {}
<1>1. 1 .. n + 1 = (1 .. n) \cup {n + 1} /\ 1 .. 0 = {}
  OBVIOUS
<1>2. QED
  BY <1>1

(* What a step does to the call that takes it.                             *)
Effect(c) ==
    /\ pc' = [pc EXCEPT ![c] = pc'[c]]
    /\ written' = [written EXCEPT ![c] = written'[c]]
    /\ nested' = nested
    /\ pc'[c] # "ready"
    /\ pc'[c] \in Ended => depth' = 0 /\ work' = durable'
    /\ Stage(c)'

LEMMA WriteEffect ==
    ASSUME TypeOK, OneCall, NEW c \in Call, Write(c)
    PROVE  Effect(c)
<1>1. /\ pc \in [Call -> Location] /\ written \in [Call -> 0 .. Statements]
      /\ written[c] \in Nat
  <2>1. Statements \in Nat
    BY StoreAssumption
  <2>2. QED
    BY <2>1 DEF TypeOK
<1>2. /\ depth = DepthInside(c)
      /\ \/ work = durable \cup WrittenRows(c)
         \/ c \notin Block /\ work = durable
  BY DEF Write, OneCall, Stage
<1>3. pc'[c] = "check" /\ written'[c] = written[c] + 1
  BY <1>1 DEF Write, MoveTo
<1>4. work' = durable \cup WrittenRows(c)'
  <2>1. /\ work' = work \cup {<<c, written[c] + 1>>}
        /\ WrittenRows(c)' = {c} \X (1 .. written[c] + 1)
    BY <1>3 DEF Write, WrittenRows
  <2>2. CASE work = durable \cup WrittenRows(c)
    BY <1>1, <2>1, <2>2, NextRow DEF WrittenRows
  <2>3. CASE c \notin Block /\ work = durable
    <3>1. written[c] = 0
      BY <1>1, <2>3 DEF Write, LastRow
    <3>2. WrittenRows(c)' = ({c} \X (1 .. 0)) \cup {<<c, written[c] + 1>>}
      BY <1>1, <2>1, <3>1, NextRow
    <3>3. QED
      BY <2>1, <2>3, <3>2, NextRow
  <2>4. QED
    BY <1>2, <2>2, <2>3
<1>5. written'[c] \in 1 .. LastRow(c)
  BY <1>1, <1>3, RowsAreLastRow, StoreAssumption DEF Write
<1>6. Stage(c)'
  BY <1>2, <1>3, <1>4, <1>5 DEF Stage, Write, DepthInside, LastRow
<1>7. QED
  BY <1>1, <1>3, <1>6 DEF Effect, Write, MoveTo, Ended

LEMMA StepEffect ==
    ASSUME TypeOK, OneCall, MaxInFlight <= 1, NEW c \in Call, CallStep(c)
    PROVE  Effect(c)
<1>1. pc \in [Call -> Location] /\ written \in [Call -> 0 .. Statements]
  BY DEF TypeOK
<1>2. nested = {} /\ Stage(c)
  BY DEF OneCall
<1>3. CASE EnterOuter(c)
  <2>1. depth = 0 /\ work = durable
    BY <1>3, StartsAlone DEF EnterOuter, OneCall, NothingPending
  <2>2. QED
    BY <1>1, <1>2, <1>3, <2>1
    DEF EnterOuter, MayStart, MoveTo, Effect, Stage, Ended
<1>4. CASE Begin(c)
  BY <1>1, <1>2, <1>4 DEF Begin, MoveTo, Effect, Stage, Ended
<1>5. CASE BeginRefused(c)
  BY <1>1, <1>2, <1>5 DEF BeginRefused, MoveTo, Effect, Stage, Ended
<1>6. CASE SetDepth(c)
  <2>1. WrittenRows(c) = {}
    BY <1>2, <1>6, NextRow DEF SetDepth, Stage, WrittenRows
  <2>2. WrittenRows(c)' = WrittenRows(c)
    BY <1>6 DEF SetDepth, WrittenRows
  <2>3. QED
    BY <1>1, <1>2, <1>6, <2>1, <2>2
    DEF SetDepth, MoveTo, Effect, Stage, Ended, DepthInside
<1>7. CASE StartSingle(c)
  <2>1. depth = 0 /\ work = durable
    BY <1>7, StartsAlone DEF StartSingle, OneCall, NothingPending
  <2>2. c \notin Block
    BY <1>7, StoreAssumption DEF StartSingle
  <2>3. QED
    BY <1>1, <1>2, <1>7, <2>1, <2>2
    DEF StartSingle, MayStart, MoveTo, Effect, Stage, Ended, DepthInside
<1>8. CASE Write(c)
  BY <1>8, WriteEffect
<1>9. CASE FailToWrite(c)
  BY <1>1, <1>2, <1>9 DEF FailToWrite, MoveTo, Effect, Stage, Ended, DepthInside
<1>10. CASE CommitIfNeeded(c)
  <2>1. WrittenRows(c)' = WrittenRows(c)
    BY <1>10 DEF CommitIfNeeded, WrittenRows
  <2>2. c \notin Block => written[c] = 1
    BY <1>2, <1>10 DEF CommitIfNeeded, Stage, LastRow
  <2>3. QED
    BY <1>1, <1>2, <1>10, <2>1, <2>2
    DEF CommitIfNeeded, MoveTo, Effect, Stage, Ended, DepthInside
<1>11. CASE CommitRow(c)
  BY <1>1, <1>2, <1>11 DEF CommitRow, MoveTo, Effect, Stage, Ended, DepthInside
<1>12. CASE ReturnSingle(c)
  <2>1. c \notin Block
    BY <1>12, StoreAssumption DEF ReturnSingle
  <2>2. QED
    BY <1>1, <1>2, <1>12, <2>1
    DEF ReturnSingle, MoveTo, Effect, Stage, Ended, DepthInside
<1>13. CASE CommitBlock(c)
  BY <1>1, <1>2, <1>13 DEF CommitBlock, MoveTo, Effect, Stage, Ended
<1>14. CASE Rollback(c)
  BY <1>1, <1>2, <1>14 DEF Rollback, MoveTo, Effect, Stage, Ended
<1>15. CASE ResetDepth(c)
  BY <1>1, <1>2, <1>15 DEF ResetDepth, MoveTo, Effect, Stage, Ended
<1>16. QED
  BY <1>3, <1>4, <1>5, <1>6, <1>7, <1>8, <1>9, <1>10, <1>11, <1>12, <1>13,
     <1>14, <1>15, NeverNested
  DEF CallStep

LEMMA StepOneCall ==
    ASSUME TypeOK, OneCall, MaxInFlight <= 1, NEW c \in Call, CallStep(c)
    PROVE  OneCall'
<1>1. Effect(c) /\ InFlight \subseteq {c} /\ pc \in [Call -> Location]
      /\ written \in [Call -> 0 .. Statements]
  BY StepEffect, ActsAlone DEF TypeOK
<1>2. InFlight' \subseteq {c}
  BY <1>1 DEF Effect, InFlight
<1>3. ASSUME NEW d \in Call, d # c PROVE Stage(d)'
  <2>1. pc'[d] = pc[d] /\ written'[d] = written[d]
    BY <1>1, <1>3 DEF Effect
  <2>2. pc[d] \in Ended \cup {"ready"}
    BY <1>1, <1>3 DEF InFlight
  <2>3. Stage(d)
    BY DEF OneCall
  <2>4. QED
    BY <2>1, <2>2, <2>3 DEF Stage, Ended
<1>4. \A d \in Call : Stage(d)'
  BY <1>1, <1>3 DEF Effect
<1>5. NothingPending'
  <2>1. SUFFICES ASSUME InFlight' = {} PROVE depth' = 0 /\ work' = durable'
    BY DEF NothingPending
  <2>2. pc'[c] \in Ended
    BY <1>1, <2>1 DEF InFlight, Effect
  <2>3. QED
    BY <1>1, <2>2 DEF Effect
<1>6. nested' = {} /\ Alone'
  BY <1>1, <1>2 DEF Effect, OneCall, Alone
<1>7. QED
  BY <1>4, <1>5, <1>6 DEF OneCall

LEMMA NextOneCall ==
    ASSUME TypeOK, OneCall, MaxInFlight <= 1, [Next]_vars
    PROVE  OneCall'
<1>1. ASSUME NEW c \in Call, CallStep(c) PROVE OneCall'
  BY <1>1, StepOneCall
<1>2. CASE Crash
  <2>1. pc \in [Call -> Location]
    BY DEF TypeOK
  <2>2. InFlight' = {}
    BY <1>2, <2>1 DEF Crash, InFlight, Ended
  <2>3. ASSUME NEW c \in Call PROVE Stage(c)'
    <3>1. pc'[c] = "lost" \/ (pc'[c] = pc[c] /\ pc[c] \in Ended \cup {"ready"})
      BY <1>2, <2>1 DEF Crash, InFlight
    <3>2. Stage(c) /\ written' = written
      BY <1>2 DEF OneCall, Crash
    <3>3. QED
      BY <3>1, <3>2 DEF Stage, Ended
  <2>4. QED
    BY <1>2, <2>2, <2>3 DEF Crash, OneCall, Alone, NothingPending
<1>3. CASE UNCHANGED vars
  BY <1>3 DEF vars, OneCall, Alone, InFlight, NothingPending, Stage, WrittenRows
<1>4. QED
  BY <1>1, <1>2, <1>3 DEF Next, CallStep

LEMMA InitOneCall == ASSUME Init PROVE OneCall
<1>1. InFlight = {}
  BY DEF Init, InFlight
<1>2. ASSUME NEW c \in Call PROVE Stage(c)
  BY DEF Init, Stage
<1>3. QED
  BY <1>1, <1>2 DEF Init, OneCall, Alone, NothingPending

(***************************************************************************)
(* With one caller nothing is pending between calls, however each of them  *)
(* ended: returned, raised anywhere, refused, or cut off by a crash.       *)
(***************************************************************************)
THEOREM NothingIsPending ==
    ASSUME MaxInFlight <= 1
    PROVE  Spec => []NothingPending
<1> DEFINE IInv == TypeOK /\ OneCall
<1>1. Init => IInv
  BY InitTypeOK, InitOneCall
<1>2. IInv /\ [Next]_vars => IInv'
  BY NextTypeOK, NextOneCall
<1>3. IInv => NothingPending
  BY DEF OneCall
<1>4. QED
  BY <1>1, <1>2, <1>3, PTL DEF Spec

-----------------------------------------------------------------------------
(* The connection implements the atomic store.                             *)

Outcome == [c \in Call |-> OutcomeOf(c)]

(* What OutcomeOf says, place by place.                                    *)
LEMMA OutcomeCases ==
    ASSUME NEW c \in Call
    PROVE  /\ pc[c] \in {"ready", "ok", "failed", "lost"}
                  => OutcomeOf(c) = pc[c]
           /\ pc[c] = "refused" => OutcomeOf(c) = "failed"
           /\ pc[c] = "reset" => OutcomeOf(c) = "committed"
           /\ pc[c] \in {"begin", "begun", "check", "commit", "raised",
                        "undone"}
                  => OutcomeOf(c) = "running"
           /\ (pc[c] = "body" /\ c \in Single /\ written[c] = LastRow(c))
                  => OutcomeOf(c) = "committed"
           /\ (pc[c] = "body" /\ ~(c \in Single /\ written[c] = LastRow(c)))
                  => OutcomeOf(c) = "running"
BY DEF OutcomeOf

(* What a step of the connection is to the atomic store.                   *)
Maps(c, before, after) ==
    \/ after = before /\ UNCHANGED durable
    \/ before = "ready" /\ after = "running" /\ UNCHANGED durable
    \/ /\ before = "running" /\ after = "committed"
       /\ durable' = durable \cup Rows(c)
    \/ before = "committed" /\ after = "ok" /\ UNCHANGED durable
    \/ before = "running" /\ after = "failed" /\ UNCHANGED durable

LEMMA MapsToStep ==
    ASSUME NEW c \in Call, NEW CONSTANT before, NEW CONSTANT after,
           before = OutcomeOf(c), Outcome' = [Outcome EXCEPT ![c] = after],
           Maps(c, before, after)
    PROVE  [Atomic!Next]_(Atomic!avars)
<1>1. Outcome[c] = before
  BY DEF Outcome
<1>2. CASE after = before /\ UNCHANGED durable
  <2>1. Outcome' = Outcome
    BY <1>1, <1>2 DEF Outcome
  <2>2. QED
    BY <1>2, <2>1 DEF Atomic!avars, Outcome
<1>3. CASE before = "ready" /\ after = "running" /\ UNCHANGED durable
  <2>1. Atomic!Start(c)
    BY <1>1, <1>3 DEF Atomic!Start, Outcome
  <2>2. QED
    BY <2>1 DEF Atomic!Next
<1>4. CASE /\ before = "running" /\ after = "committed"
           /\ durable' = durable \cup Rows(c)
  <2>1. Atomic!Commit(c)
    BY <1>1, <1>4 DEF Atomic!Commit, Outcome
  <2>2. QED
    BY <2>1 DEF Atomic!Next
<1>5. CASE before = "committed" /\ after = "ok" /\ UNCHANGED durable
  <2>1. Atomic!Return(c)
    BY <1>1, <1>5 DEF Atomic!Return, Outcome
  <2>2. QED
    BY <2>1 DEF Atomic!Next
<1>6. CASE before = "running" /\ after = "failed" /\ UNCHANGED durable
  <2>1. Atomic!Raise(c)
    BY <1>1, <1>6 DEF Atomic!Raise, Outcome
  <2>2. QED
    BY <2>1 DEF Atomic!Next
<1>7. QED
  BY <1>2, <1>3, <1>4, <1>5, <1>6 DEF Maps

LEMMA StepMaps ==
    ASSUME TypeOK, OneCall, MaxInFlight <= 1, NEW c \in Call, CallStep(c),
           NEW CONSTANT before, NEW CONSTANT after,
           before = OutcomeOf(c), after = OutcomeOf(c)'
    PROVE  Maps(c, before, after)
<1>1. /\ pc \in [Call -> Location] /\ written \in [Call -> 0 .. Statements]
      /\ Stage(c) /\ (c \in Single <=> c \notin Block)
  BY StoreAssumption DEF TypeOK, OneCall, Call
<1>2. /\ pc[c] \in {"ready", "ok", "failed", "lost"} => before = pc[c]
      /\ pc[c] = "refused" => before = "failed"
      /\ pc[c] = "reset" => before = "committed"
      /\ pc[c] \in {"begin", "begun", "check", "commit", "raised", "undone"}
             => before = "running"
      /\ (pc[c] = "body" /\ c \in Single /\ written[c] = LastRow(c))
             => before = "committed"
      /\ (pc[c] = "body" /\ ~(c \in Single /\ written[c] = LastRow(c)))
             => before = "running"
  BY OutcomeCases
<1>3. /\ pc'[c] \in {"ready", "ok", "failed", "lost"} => after = pc'[c]
      /\ pc'[c] = "refused" => after = "failed"
      /\ pc'[c] = "reset" => after = "committed"
      /\ pc'[c] \in {"begin", "begun", "check", "commit", "raised", "undone"}
             => after = "running"
      /\ (pc'[c] = "body" /\ c \in Single /\ written'[c] = LastRow(c))
             => after = "committed"
      /\ (pc'[c] = "body" /\ ~(c \in Single /\ written'[c] = LastRow(c)))
             => after = "running"
  BY DEF OutcomeOf
<1> USE DEF MoveTo, Maps
<1>4. CASE EnterOuter(c)
  BY <1>1, <1>2, <1>3, <1>4 DEF EnterOuter, MayStart
<1>5. CASE Begin(c)
  BY <1>1, <1>2, <1>3, <1>5 DEF Begin
<1>6. CASE BeginRefused(c)
  BY <1>1, <1>2, <1>3, <1>6 DEF BeginRefused
<1>7. CASE SetDepth(c)
  BY <1>1, <1>2, <1>3, <1>7 DEF SetDepth, Stage
<1>8. CASE StartSingle(c)
  BY <1>1, <1>2, <1>3, <1>8 DEF StartSingle, MayStart, Stage, LastRow
<1>9. CASE Write(c)
  BY <1>1, <1>2, <1>3, <1>9 DEF Write
<1>10. CASE FailToWrite(c)
  BY <1>1, <1>2, <1>3, <1>10 DEF FailToWrite
<1>11. CASE CommitIfNeeded(c)
  BY <1>1, <1>2, <1>3, <1>11 DEF CommitIfNeeded, Stage, DepthInside
<1>12. CASE CommitRow(c)
  <2>1. c \in Single /\ written[c] = LastRow(c) /\ work = durable \cup Rows(c)
    BY <1>1, <1>12, RowsAreLastRow DEF CommitRow, Stage, LastRow, WrittenRows
  <2>2. QED
    BY <1>1, <1>2, <1>3, <1>12, <2>1 DEF CommitRow
<1>13. CASE ReturnSingle(c)
  BY <1>1, <1>2, <1>3, <1>13 DEF ReturnSingle
<1>14. CASE CommitBlock(c)
  <2>1. work = durable \cup Rows(c)
    BY <1>1, <1>14, RowsAreLastRow DEF CommitBlock, Stage, LastRow, WrittenRows
  <2>2. QED
    BY <1>1, <1>2, <1>3, <1>14, <2>1 DEF CommitBlock
<1>15. CASE Rollback(c)
  BY <1>1, <1>2, <1>3, <1>15 DEF Rollback
<1>16. CASE ResetDepth(c)
  BY <1>1, <1>2, <1>3, <1>16 DEF ResetDepth
<1>17. QED
  BY <1>4, <1>5, <1>6, <1>7, <1>8, <1>9, <1>10, <1>11, <1>12, <1>13, <1>14,
     <1>15, <1>16, NeverNested
  DEF CallStep

LEMMA StepIsAtomic ==
    ASSUME TypeOK, OneCall, MaxInFlight <= 1, NEW c \in Call, CallStep(c)
    PROVE  [Atomic!Next]_(Atomic!avars)
<1>1. PICK before, after : before = OutcomeOf(c) /\ after = OutcomeOf(c)'
  OBVIOUS
<1>2. /\ Effect(c)
      /\ pc \in [Call -> Location] /\ written \in [Call -> 0 .. Statements]
  BY StepEffect DEF TypeOK
<1>3. ASSUME NEW d \in Call, d # c PROVE OutcomeOf(d)' = OutcomeOf(d)
  <2>1. pc'[d] = pc[d] /\ written'[d] = written[d]
    BY <1>2, <1>3 DEF Effect
  <2>2. QED
    BY <2>1 DEF OutcomeOf
<1>4. Outcome' = [Outcome EXCEPT ![c] = after]
  BY <1>1, <1>3 DEF Outcome
<1>5. Maps(c, before, after)
  BY <1>1, StepMaps
<1>6. QED
  BY <1>1, <1>4, <1>5, MapsToStep

LEMMA CrashIsAtomic ==
    ASSUME TypeOK, Crash
    PROVE  [Atomic!Next]_(Atomic!avars)
<1>1. pc \in [Call -> Location]
  BY DEF TypeOK
<1>2. ASSUME NEW c \in Call
      PROVE  OutcomeOf(c)' = IF OutcomeOf(c) \in {"running", "committed"}
                             THEN "lost" ELSE OutcomeOf(c)
  <2>1. CASE c \in InFlight
    <3>1. OutcomeOf(c) \in {"running", "committed"}
      BY <1>1, <2>1, OutcomeCases DEF InFlight, Location, Ended
    <3>2. OutcomeOf(c)' = "lost"
      BY <2>1 DEF Crash, OutcomeOf
    <3>3. QED
      BY <3>1, <3>2
  <2>2. CASE c \notin InFlight
    <3>1. OutcomeOf(c) \in {"ready", "ok", "failed", "lost"}
      BY <2>2, OutcomeCases DEF InFlight, Ended
    <3>2. pc'[c] = pc[c] /\ pc[c] \in Ended \cup {"ready"}
      BY <2>2 DEF Crash, InFlight
    <3>3. OutcomeOf(c)' = OutcomeOf(c)
      BY <3>2 DEF OutcomeOf, Ended
    <3>4. QED
      BY <3>1, <3>3
  <2>3. QED
    BY <2>1, <2>2
<1>3. Outcome' = [c \in Call |-> IF Outcome[c] \in {"running", "committed"}
                                 THEN "lost" ELSE Outcome[c]]
  BY <1>2 DEF Outcome
<1>4. Atomic!Crash
  BY <1>3 DEF Crash, Atomic!Crash, Outcome
<1>5. QED
  BY <1>4 DEF Atomic!Next

(***************************************************************************)
(* With one caller the connection implements the atomic store: whatever    *)
(* raises and wherever the process dies, a call commits all of its rows in *)
(* one step or none of them, and nothing committed is taken back.          *)
(***************************************************************************)
THEOREM OneCallerIsAtomic ==
    ASSUME MaxInFlight <= 1
    PROVE  Spec => IsAtomicStore
<1> DEFINE IInv == TypeOK /\ OneCall
<1>1. Init => IInv /\ Atomic!Init
  BY InitTypeOK, InitOneCall, OutcomeCases DEF Init, Atomic!Init
<1>2. IInv /\ [Next]_vars => IInv'
  BY NextTypeOK, NextOneCall
<1>3. IInv /\ [Next]_vars => [Atomic!Next]_(Atomic!avars)
  <2>1. SUFFICES ASSUME IInv, [Next]_vars PROVE [Atomic!Next]_(Atomic!avars)
    OBVIOUS
  <2>2. ASSUME NEW c \in Call, CallStep(c) PROVE [Atomic!Next]_(Atomic!avars)
    BY <2>1, <2>2, StepIsAtomic
  <2>3. CASE Crash
    BY <2>1, <2>3, CrashIsAtomic
  <2>4. CASE UNCHANGED vars
    BY <2>4 DEF vars, Atomic!avars, OutcomeOf
  <2>5. QED
    BY <2>1, <2>2, <2>3, <2>4 DEF Next, CallStep
<1>4. QED
  BY <1>1, <1>2, <1>3, PTL DEF Spec, IsAtomicStore, Atomic!Spec

-----------------------------------------------------------------------------
(* Several threads.                                                        *)

(* The course of a call, whatever the others do.                           *)
Course(c) ==
    /\ pc[c] = "ready" => written[c] = 0
    /\ pc[c] \in {"ready", "begin", "begun"} => c \notin nested
    /\ pc[c] \in {"begin", "begun", "raised", "reset", "undone"} => c \in Block
    /\ pc[c] \in {"reset", "ok"} => written[c] = LastRow(c)

LEMMA NextCourse ==
    ASSUME TypeOK, \A c \in Call : Course(c), [Next]_vars
    PROVE  \A c \in Call : Course(c)'
<1> USE DEF Course, MoveTo
<1>1. /\ pc \in [Call -> Location] /\ written \in [Call -> 0 .. Statements]
      /\ \A c \in Call : c \in Single <=> c \notin Block
  BY StoreAssumption DEF TypeOK, Call
<1>2. ASSUME NEW c \in Call, EnterNested(c) PROVE \A d \in Call : Course(d)'
  BY <1>1, <1>2 DEF EnterNested, MayStart
<1>3. ASSUME NEW c \in Call, EnterOuter(c) PROVE \A d \in Call : Course(d)'
  BY <1>1, <1>3 DEF EnterOuter, MayStart
<1>4. ASSUME NEW c \in Call, Begin(c) PROVE \A d \in Call : Course(d)'
  BY <1>1, <1>4 DEF Begin
<1>5. ASSUME NEW c \in Call, BeginRefused(c) PROVE \A d \in Call : Course(d)'
  BY <1>1, <1>5 DEF BeginRefused
<1>6. ASSUME NEW c \in Call, SetDepth(c) PROVE \A d \in Call : Course(d)'
  BY <1>1, <1>6 DEF SetDepth
<1>7. ASSUME NEW c \in Call, StartSingle(c) PROVE \A d \in Call : Course(d)'
  BY <1>1, <1>7 DEF StartSingle, MayStart
<1>8. ASSUME NEW c \in Call, Write(c) PROVE \A d \in Call : Course(d)'
  BY <1>1, <1>8 DEF Write
<1>9. ASSUME NEW c \in Call, FailToWrite(c) PROVE \A d \in Call : Course(d)'
  BY <1>1, <1>9 DEF FailToWrite
<1>10. ASSUME NEW c \in Call, CommitIfNeeded(c) PROVE \A d \in Call : Course(d)'
  BY <1>1, <1>10 DEF CommitIfNeeded
<1>11. ASSUME NEW c \in Call, CommitRow(c) PROVE \A d \in Call : Course(d)'
  BY <1>1, <1>11 DEF CommitRow
<1>12. ASSUME NEW c \in Call, ReturnSingle(c) PROVE \A d \in Call : Course(d)'
  BY <1>1, <1>12 DEF ReturnSingle
<1>13. ASSUME NEW c \in Call, ExitNested(c) PROVE \A d \in Call : Course(d)'
  BY <1>1, <1>13 DEF ExitNested
<1>14. ASSUME NEW c \in Call, CommitBlock(c) PROVE \A d \in Call : Course(d)'
  BY <1>1, <1>14 DEF CommitBlock
<1>15. ASSUME NEW c \in Call, Rollback(c) PROVE \A d \in Call : Course(d)'
  BY <1>1, <1>15 DEF Rollback
<1>16. ASSUME NEW c \in Call, ResetDepth(c) PROVE \A d \in Call : Course(d)'
  BY <1>1, <1>16 DEF ResetDepth
<1>17. CASE Crash
  BY <1>1, <1>17 DEF Crash, InFlight, Ended
<1>18. CASE UNCHANGED vars
  BY <1>18 DEF vars
<1>19. QED
  BY <1>2, <1>3, <1>4, <1>5, <1>6, <1>7, <1>8, <1>9, <1>10, <1>11, <1>12,
     <1>13, <1>14, <1>15, <1>16, <1>17, <1>18
  DEF Next

(* No block has raised and the process has not died.                       *)
NothingLost ==
    /\ crashes = 0
    /\ \A c \in Block : pc[c] \notin {"undone", "failed"}

AllIsThere == NothingLost => \A c \in Call : WrittenRows(c) \subseteq work

LEMMA WriteAddsRow ==
    ASSUME TypeOK, NEW c \in Call, Write(c)
    PROVE  /\ WrittenRows(c)' \subseteq
                  WrittenRows(c) \cup {<<c, written[c] + 1>>}
           /\ \A d \in Call : d # c => WrittenRows(d)' = WrittenRows(d)
<1>1. written \in [Call -> 0 .. Statements] /\ written[c] \in Nat
  BY StoreAssumption DEF TypeOK
<1>2. written'[c] = written[c] + 1
  BY <1>1 DEF Write
<1>3. WrittenRows(c)' = {c} \X (1 .. written[c] + 1)
  BY <1>2 DEF WrittenRows
<1>4. QED
  BY <1>1, <1>3, NextRow DEF WrittenRows, Write

(* No step but a write changes what is written, and one that takes rows    *)
(* away counts as a loss.                                                  *)
KeepsRows ==
    NothingLost' => NothingLost /\ work \subseteq work' /\ written' = written

LEMMA NextKeepsRows ==
    ASSUME TypeOK, \A c \in Call : Course(c), [Next]_vars
    PROVE  KeepsRows \/ \E c \in Call : Write(c)
<1> USE DEF KeepsRows, NothingLost, MoveTo
<1>1. /\ pc \in [Call -> Location] /\ Block \subseteq Call
      /\ \A c \in Call : Course(c)
  BY DEF TypeOK, Call
<1>2. ASSUME NEW c \in Call, EnterNested(c) PROVE KeepsRows
  BY <1>1, <1>2 DEF EnterNested, MayStart
<1>3. ASSUME NEW c \in Call, EnterOuter(c) PROVE KeepsRows
  BY <1>1, <1>3 DEF EnterOuter, MayStart
<1>4. ASSUME NEW c \in Call, Begin(c) PROVE KeepsRows
  BY <1>1, <1>4 DEF Begin
<1>5. ASSUME NEW c \in Call, BeginRefused(c) PROVE KeepsRows
  BY <1>1, <1>5 DEF BeginRefused
<1>6. ASSUME NEW c \in Call, SetDepth(c) PROVE KeepsRows
  BY <1>1, <1>6 DEF SetDepth
<1>7. ASSUME NEW c \in Call, StartSingle(c) PROVE KeepsRows
  BY <1>1, <1>7 DEF StartSingle, MayStart
<1>8. ASSUME NEW c \in Call, FailToWrite(c) PROVE KeepsRows
  BY <1>1, <1>8 DEF FailToWrite
<1>9. ASSUME NEW c \in Call, CommitIfNeeded(c) PROVE KeepsRows
  BY <1>1, <1>9 DEF CommitIfNeeded
<1>10. ASSUME NEW c \in Call, CommitRow(c) PROVE KeepsRows
  BY <1>1, <1>10 DEF CommitRow
<1>11. ASSUME NEW c \in Call, ReturnSingle(c) PROVE KeepsRows
  BY <1>1, <1>11 DEF ReturnSingle
<1>12. ASSUME NEW c \in Call, ExitNested(c) PROVE KeepsRows
  BY <1>1, <1>12 DEF ExitNested
<1>13. ASSUME NEW c \in Call, CommitBlock(c) PROVE KeepsRows
  BY <1>1, <1>13 DEF CommitBlock
<1>14. ASSUME NEW c \in Call, Rollback(c) PROVE KeepsRows
  BY <1>1, <1>14 DEF Rollback, Course
<1>15. ASSUME NEW c \in Call, ResetDepth(c) PROVE KeepsRows
  BY <1>1, <1>15 DEF ResetDepth, Course
<1>16. CASE Crash
  <2>1. crashes \in Nat /\ crashes' = crashes + 1
    BY <1>16, StoreAssumption DEF Crash, TypeOK
  <2>2. QED
    BY <2>1
<1>17. CASE UNCHANGED vars
  BY <1>17 DEF vars
<1>18. QED
  BY <1>2, <1>3, <1>4, <1>5, <1>6, <1>7, <1>8, <1>9, <1>10, <1>11, <1>12,
     <1>13, <1>14, <1>15, <1>16, <1>17
  DEF Next

LEMMA NextAllIsThere ==
    ASSUME TypeOK, \A c \in Call : Course(c), AllIsThere, [Next]_vars
    PROVE  AllIsThere'
<1>1. CASE KeepsRows
  <2>1. written' = written => \A c \in Call : WrittenRows(c)' = WrittenRows(c)
    BY DEF WrittenRows
  <2>2. QED
    BY <1>1, <2>1 DEF KeepsRows, AllIsThere
<1>2. ASSUME NEW c \in Call, Write(c) PROVE AllIsThere'
  <2>1. SUFFICES ASSUME NothingLost', NEW d \in Call
                 PROVE  WrittenRows(d)' \subseteq work'
    BY DEF AllIsThere
  <2>2. NothingLost
    <3>1. pc \in [Call -> Location] /\ Block \subseteq Call
      BY DEF TypeOK, Call
    <3>2. QED
      BY <1>2, <2>1, <3>1 DEF NothingLost, Write, MoveTo
  <2>3. work' = work \cup {<<c, written[c] + 1>>}
    BY <1>2 DEF Write
  <2>4. WrittenRows(d) \subseteq work
    BY <2>2 DEF AllIsThere
  <2>5. WrittenRows(d)' \subseteq WrittenRows(d) \cup {<<c, written[c] + 1>>}
    BY <1>2, WriteAddsRow
  <2>6. QED
    BY <2>3, <2>4, <2>5
<1>3. QED
  BY <1>1, <1>2, NextKeepsRows

(***************************************************************************)
(* Rows that a call has written are lost to a rollback or a crash only.    *)
(***************************************************************************)
THEOREM OnlyRollbacksLoseRows == Spec => []OnlyRollbackLoses
<1> DEFINE IInv == TypeOK /\ (\A c \in Call : Course(c)) /\ AllIsThere
<1>1. Init => IInv
  <2>1. SUFFICES ASSUME Init PROVE IInv
    OBVIOUS
  <2>2. ASSUME NEW c \in Call PROVE Course(c) /\ WrittenRows(c) = {}
    <3>1. pc[c] = "ready" /\ written[c] = 0 /\ nested = {}
      BY <2>1 DEF Init
    <3>2. QED
      BY <3>1, NextRow DEF Course, WrittenRows
  <2>3. QED
    BY <2>1, <2>2, InitTypeOK DEF AllIsThere
<1>2. IInv /\ [Next]_vars => IInv'
  BY NextTypeOK, NextCourse, NextAllIsThere
<1>3. IInv => OnlyRollbackLoses
  <2>1. SUFFICES ASSUME IInv, NothingLost, NEW c \in Call, pc[c] = "ok"
                 PROVE  Rows(c) \subseteq work
    BY DEF OnlyRollbackLoses, NothingLost
  <2>2. Rows(c) = WrittenRows(c)
    BY <2>1, RowsAreLastRow DEF Course, WrittenRows
  <2>3. QED
    BY <2>1, <2>2 DEF AllIsThere
<1>4. QED
  BY <1>1, <1>2, <1>3, PTL DEF Spec

(* A depth above zero has an outer block to it, so that a block that enters*)
(* while no other is in flight is never nested.                            *)
Inside == {"body", "check", "commit", "raised", "reset", "undone"}

DepthHasOwner == depth > 0 => \E c \in Block \ nested : pc[c] \in Inside

LEMMA NextDepthHasOwner ==
    ASSUME TypeOK, \A c \in Call : Course(c), DepthHasOwner, [Next]_vars
    PROVE  DepthHasOwner'
<1> USE DEF DepthHasOwner, Inside, MoveTo
<1>1. /\ pc \in [Call -> Location] /\ Block \subseteq Call /\ depth \in Int
      /\ Block \cap Single = {} /\ \A c \in Call : Course(c)
  BY StoreAssumption DEF TypeOK, Call
<1>2. ASSUME NEW c \in Call, EnterNested(c) PROVE DepthHasOwner'
  BY <1>1, <1>2 DEF EnterNested, MayStart
<1>3. ASSUME NEW c \in Call, EnterOuter(c) PROVE DepthHasOwner'
  BY <1>1, <1>3 DEF EnterOuter, MayStart
<1>4. ASSUME NEW c \in Call, Begin(c) PROVE DepthHasOwner'
  BY <1>1, <1>4 DEF Begin
<1>5. ASSUME NEW c \in Call, BeginRefused(c) PROVE DepthHasOwner'
  BY <1>1, <1>5 DEF BeginRefused
<1>6. ASSUME NEW c \in Call, SetDepth(c) PROVE DepthHasOwner'
  <2>1. c \in Block \ nested
    BY <1>1, <1>6 DEF SetDepth, Course
  <2>2. QED
    BY <1>1, <1>6, <2>1 DEF SetDepth
<1>7. ASSUME NEW c \in Call, StartSingle(c) PROVE DepthHasOwner'
  BY <1>1, <1>7 DEF StartSingle, MayStart
<1>8. ASSUME NEW c \in Call, Write(c) PROVE DepthHasOwner'
  BY <1>1, <1>8 DEF Write
<1>9. ASSUME NEW c \in Call, FailToWrite(c) PROVE DepthHasOwner'
  BY <1>1, <1>9 DEF FailToWrite
<1>10. ASSUME NEW c \in Call, CommitIfNeeded(c) PROVE DepthHasOwner'
  BY <1>1, <1>10 DEF CommitIfNeeded
<1>11. ASSUME NEW c \in Call, CommitRow(c) PROVE DepthHasOwner'
  BY <1>1, <1>11 DEF CommitRow
<1>12. ASSUME NEW c \in Call, ReturnSingle(c) PROVE DepthHasOwner'
  BY <1>1, <1>12 DEF ReturnSingle
<1>13. ASSUME NEW c \in Call, ExitNested(c) PROVE DepthHasOwner'
  BY <1>1, <1>13 DEF ExitNested
<1>14. ASSUME NEW c \in Call, CommitBlock(c) PROVE DepthHasOwner'
  BY <1>1, <1>14 DEF CommitBlock
<1>15. ASSUME NEW c \in Call, Rollback(c) PROVE DepthHasOwner'
  BY <1>1, <1>15 DEF Rollback
<1>16. ASSUME NEW c \in Call, ResetDepth(c) PROVE DepthHasOwner'
  BY <1>1, <1>16 DEF ResetDepth
<1>17. CASE Crash
  BY <1>1, <1>17 DEF Crash
<1>18. CASE UNCHANGED vars
  BY <1>18 DEF vars
<1>19. QED
  BY <1>2, <1>3, <1>4, <1>5, <1>6, <1>7, <1>8, <1>9, <1>10, <1>11, <1>12,
     <1>13, <1>14, <1>15, <1>16, <1>17, <1>18
  DEF Next

(***************************************************************************)
(* A block that no other overlaps: it is alone among the blocks in flight  *)
(* and is not nested, what it wrote is there until it ends, and when it    *)
(* has committed it is durable.                                            *)
(***************************************************************************)
LoneCall(c) ==
    /\ c \in InFlight => c \notin nested /\ \A d \in Block \cap InFlight : d = c
    /\ pc[c] \in {"begin", "begun", "body", "check", "commit"} =>
           WrittenRows(c) \subseteq work
    /\ pc[c] \in {"reset", "ok"} => Rows(c) \subseteq durable

Lone == \A c \in Block \ overlapped : LoneCall(c)

LEMMA NextLone ==
    ASSUME TypeOK, \A c \in Call : Course(c), DepthHasOwner, Lone, [Next]_vars,
           NEW b \in Block \ overlapped'
    PROVE  LoneCall(b)'
<1> USE DEF LoneCall, MoveTo, InFlight, Ended
<1>1. /\ pc \in [Call -> Location] /\ b \in Call /\ Block \subseteq Call
      /\ Block \cap Single = {} /\ durable \subseteq work
      /\ \A c \in Call : Course(c)
      /\ b \notin overlapped => LoneCall(b)
      /\ written' = written => WrittenRows(b)' = WrittenRows(b)
  BY StoreAssumption DEF TypeOK, Call, Lone, WrittenRows
<1>2. ASSUME NEW c \in Call, c \in Block, MayStart(c), Overlap(c)
      PROVE  /\ b \notin overlapped
             /\ b \notin InFlight
             /\ b = c => InFlight \cap Block = {}
  BY <1>1, <1>2 DEF MayStart, Overlap
<1>3. ASSUME NEW c \in Call, EnterNested(c) PROVE LoneCall(b)'
  <2>1. \E d \in Block : d \in InFlight
    BY <1>1, <1>3 DEF EnterNested, DepthHasOwner, Inside
  <2>2. b \notin InFlight /\ b # c /\ b \notin overlapped
    BY <1>2, <1>3, <2>1 DEF EnterNested
  <2>3. QED
    BY <1>1, <1>3, <2>2 DEF EnterNested
<1>4. ASSUME NEW c \in Call, EnterOuter(c) PROVE LoneCall(b)'
  <2>1. b \notin overlapped /\ b \notin InFlight
    BY <1>2, <1>4 DEF EnterOuter
  <2>2. CASE b = c
    <3>1. InFlight \cap Block = {}
      BY <1>2, <1>4, <2>2 DEF EnterOuter
    <3>2. WrittenRows(b)' = {}
      BY <1>1, <1>4, <2>2, NextRow
      DEF EnterOuter, MayStart, Course, WrittenRows
    <3>3. pc'[b] = "begin" /\ b \notin nested'
      BY <1>1, <1>4, <2>2 DEF EnterOuter, MayStart, Course
    <3>4. \A d \in Block : pc'[d] \notin Ended \cup {"ready"} => d = b
      BY <1>1, <1>4, <2>2, <3>1 DEF EnterOuter
    <3>5. QED
      BY <3>2, <3>3, <3>4
  <2>3. CASE b # c
    <3>1. pc'[b] = pc[b] /\ durable' = durable
      BY <1>1, <1>4, <2>3 DEF EnterOuter
    <3>2. pc'[b] \in Ended \cup {"ready"}
      BY <1>1, <2>1, <3>1
    <3>3. pc[b] \in {"reset", "ok"} => Rows(b) \subseteq durable
      BY <1>1, <2>1
    <3>4. QED
      BY <3>1, <3>2, <3>3
  <2>4. QED
    BY <2>2, <2>3
<1>5. ASSUME NEW c \in Call, Write(c) PROVE LoneCall(b)'
  <2>1. WrittenRows(b)' \subseteq WrittenRows(b) \cup {<<c, written[c] + 1>>}
    BY <1>1, <1>5, WriteAddsRow
  <2>2. QED
    BY <1>1, <1>5, <2>1 DEF Write
<1>6. ASSUME NEW c \in Call, CommitBlock(c) PROVE LoneCall(b)'
  <2>1. CASE b = c
    <3>1. Rows(b) = WrittenRows(b)
      BY <1>1, <1>6, <2>1, RowsAreLastRow DEF CommitBlock, WrittenRows
    <3>2. QED
      BY <1>1, <1>6, <2>1, <3>1 DEF CommitBlock
  <2>2. CASE b # c
    BY <1>1, <1>6, <2>2 DEF CommitBlock
  <2>3. QED
    BY <2>1, <2>2
<1>7. ASSUME NEW c \in Call, Begin(c) PROVE LoneCall(b)'
  BY <1>1, <1>7 DEF Begin
<1>8. ASSUME NEW c \in Call, BeginRefused(c) PROVE LoneCall(b)'
  BY <1>1, <1>8 DEF BeginRefused
<1>9. ASSUME NEW c \in Call, SetDepth(c) PROVE LoneCall(b)'
  BY <1>1, <1>9 DEF SetDepth
<1>10. ASSUME NEW c \in Call, StartSingle(c) PROVE LoneCall(b)'
  BY <1>1, <1>10 DEF StartSingle, MayStart
<1>11. ASSUME NEW c \in Call, FailToWrite(c) PROVE LoneCall(b)'
  BY <1>1, <1>11 DEF FailToWrite
<1>12. ASSUME NEW c \in Call, CommitIfNeeded(c) PROVE LoneCall(b)'
  BY <1>1, <1>12 DEF CommitIfNeeded
<1>13. ASSUME NEW c \in Call, CommitRow(c) PROVE LoneCall(b)'
  BY <1>1, <1>13 DEF CommitRow
<1>14. ASSUME NEW c \in Call, ReturnSingle(c) PROVE LoneCall(b)'
  BY <1>1, <1>14 DEF ReturnSingle
<1>15. ASSUME NEW c \in Call, ExitNested(c) PROVE LoneCall(b)'
  BY <1>1, <1>15 DEF ExitNested
<1>16. ASSUME NEW c \in Call, Rollback(c) PROVE LoneCall(b)'
  BY <1>1, <1>16 DEF Rollback, Course
<1>17. ASSUME NEW c \in Call, ResetDepth(c) PROVE LoneCall(b)'
  BY <1>1, <1>17 DEF ResetDepth, Course
<1>18. CASE Crash
  BY <1>1, <1>18 DEF Crash
<1>19. CASE UNCHANGED vars
  BY <1>1, <1>19 DEF vars
<1>20. QED
  BY <1>3, <1>4, <1>5, <1>6, <1>7, <1>8, <1>9, <1>10, <1>11, <1>12, <1>13,
     <1>14, <1>15, <1>16, <1>17, <1>18, <1>19
  DEF Next

(***************************************************************************)
(* A block that no other block overlapped and that returned is durable,    *)
(* for any number of threads and whatever lone records they write.         *)
(***************************************************************************)
THEOREM LoneBlocksAreDurable == Spec => []LoneBlockIsDurable
<1> DEFINE IInv == /\ TypeOK
                   /\ \A c \in Call : Course(c)
                   /\ DepthHasOwner
                   /\ Lone
<1>1. Init => IInv
  <2>1. SUFFICES ASSUME Init PROVE IInv
    OBVIOUS
  <2>2. \A c \in Call : pc[c] = "ready" /\ written[c] = 0 /\ nested = {}
    BY <2>1 DEF Init
  <2>3. ~(depth > 0)
    BY <2>1 DEF Init
  <2>4. QED
    BY <2>1, <2>2, <2>3, InitTypeOK
    DEF Course, DepthHasOwner, Lone, LoneCall, InFlight, Call
<1>2. IInv /\ [Next]_vars => IInv'
  BY NextTypeOK, NextCourse, NextDepthHasOwner, NextLone DEF Lone
<1>3. IInv => LoneBlockIsDurable
  BY DEF Lone, LoneCall, LoneBlockIsDurable
<1>4. QED
  BY <1>1, <1>2, <1>3, PTL DEF Spec
==============================================================================
