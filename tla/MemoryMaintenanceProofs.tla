------------------------ MODULE MemoryMaintenanceProofs ------------------------
(***************************************************************************)
(* Proofs about the maintenance reports and the figures, for every value of*)
(* the constants of MemoryService.  A report is a function of the state, so*)
(* each theorem follows from the lifecycle invariants: the reports are     *)
(* sound because of them.                                                  *)
(***************************************************************************)
EXTENDS MemoryMaintenance, MemoryServiceProofs, FoldLemmas, FiniteSetTheorems

(* The ids of the stored events.                                           *)
LEMMA StoredIds ==
    ASSUME TypeOK
    PROVE  /\ Len(memory_events) \in Nat
           /\ EventIds = 1 .. Len(memory_events)
           /\ IsFiniteSet(EventIds)
<1>1. Len(memory_events) \in Nat /\ EventIds = 1 .. Len(memory_events)
  BY LenProperties DEF TypeOK, EventIds
<1>2. QED
  BY <1>1, FS_Interval

(* The two halves of the audit figure.                                     *)
LEMMA UnauditedAreCorrections ==
    ASSUME TypeOK, UpdatesNameEvents, ChangesAreAudited
    PROVE  /\ \A id \in MissingWrites : IsCorrection(id)
           /\ MissingDeletes = {}
<1>1. ASSUME NEW operation, NEW id, AllowedRecord(operation, {id})
      PROVE  id \in AuditedUnder(operation)
  <2>1. PICK record \in audit_log :
            /\ record.operation = operation
            /\ record.outcome = "allowed"
            /\ id \in record.affected
    BY <1>1 DEF AllowedRecord
  <2>2. QED
    BY <2>1 DEF AuditedUnder
<1>2. ASSUME NEW id \in MissingWrites PROVE IsCorrection(id)
  <2>1. id \in EventIds /\ ~AllowedRecord("write", {id})
    BY <1>1 DEF MissingWrites
  <2>2. PICK old \in memory_events[id].supersedes : id \in CorrectionsOf(old)
    BY <2>1 DEF ChangesAreAudited
  <2>3. old \in Nat /\ id \in Nat
    <3>1. memory_events[id] \in MemoryEvent /\ id \in Nat
      BY <2>1, ElementOfSeq, LenProperties DEF TypeOK, EventIds
    <3>2. QED
      BY <2>2, <3>1 DEF MemoryEvent
  <2>4. old \in EventIds
    BY <2>2, <2>3 DEF CorrectionsOf, UpdatesNameEvents
  <2>5. old \in 1 .. (id - 1)
    BY <2>1, <2>2, <2>4, StoredIds DEF CorrectionsOf
  <2>6. QED
    BY <2>2, <2>5 DEF IsCorrection
<1>3. MissingDeletes = {}
  BY <1>1 DEF MissingDeletes, ChangesAreAudited
<1>4. QED
  BY <1>2, <1>3

(* The deleted events are among the tombstoned ones, and the others were   *)
(* corrected after their deletion.                                         *)
LEMMA DeletionFigures ==
    ASSUME TypeOK, SupersessionIsLinked, DeletionIsRepresented
    PROVE  /\ Tombstoned \cap DeletedEvents = DeletedEvents
           /\ Cardinality(DeletedEvents) < Cardinality(Tombstoned)
                  <=> \E id \in Tombstoned : CorrectionsOf(id) # {}
                                 /\ memory_events[id].state = "superseded"
<1>1. Tombstoned \subseteq EventIds /\ DeletedEvents \subseteq Tombstoned
  BY DEF DeletionIsRepresented, DeletedEvents
<1>2. /\ IsFiniteSet(Tombstoned) /\ IsFiniteSet(DeletedEvents)
      /\ Cardinality(Tombstoned) \in Nat /\ Cardinality(DeletedEvents) \in Nat
  BY <1>1, StoredIds, FS_Subset, FS_CardinalityType
<1>3. /\ Cardinality(DeletedEvents) <= Cardinality(Tombstoned)
      /\ Cardinality(Tombstoned) = Cardinality(DeletedEvents)
             => Tombstoned = DeletedEvents
  BY <1>1, <1>2, FS_Subset
<1>4. Cardinality(DeletedEvents) < Cardinality(Tombstoned)
          <=> Tombstoned # DeletedEvents
  BY <1>2, <1>3
<1>5. \A id \in Tombstoned :
          id \notin DeletedEvents <=> memory_events[id].state = "superseded"
  BY <1>1 DEF DeletionIsRepresented, DeletedEvents
<1>6. \A id \in Tombstoned :
          memory_events[id].state = "superseded" => CorrectionsOf(id) # {}
  BY <1>1 DEF SupersessionIsLinked
<1>7. QED
  BY <1>1, <1>4, <1>5, <1>6

(***************************************************************************)
(* The figures of metrics_snapshot() miss only what was corrected, in every*)
(* state of every instance.  What the audit figure calls unaudited is      *)
(* audited as an update, since every change is audited; and a tombstoned   *)
(* event that is no longer deleted is superseded, hence has a correction.  *)
(***************************************************************************)
THEOREM FiguresMissCorrections == Spec => []FiguresMissOnlyCorrections
<1>1. TypeOK /\ UpdatesNameEvents /\ SupersessionIsLinked
          /\ DeletionIsRepresented /\ ChangesAreAudited
              => FiguresMissOnlyCorrections
  <2> SUFFICES ASSUME TypeOK, UpdatesNameEvents, SupersessionIsLinked,
                      DeletionIsRepresented, ChangesAreAudited
               PROVE  FiguresMissOnlyCorrections
    OBVIOUS
  <2>1. /\ DeletionMetrics.deleted_event_count = Cardinality(DeletedEvents)
        /\ DeletionMetrics.propagated = Cardinality(Tombstoned \cap DeletedEvents)
        /\ DeletionMetrics.expected = Cardinality(Tombstoned)
    BY DEF DeletionMetrics
  <2>2. QED
    BY <2>1, UnauditedAreCorrections, DeletionFigures DEF FiguresMissOnlyCorrections
<1>2. QED
  BY <1>1, TypeCorrect, LinksHold, DeletionRepresented, ChangesAudited, PTL

-----------------------------------------------------------------------------
(***************************************************************************)
(* A lineage names earlier events and, if it is one a caller supplied, ids *)
(* that name none and ids the caller foresaw.  What a correction or a      *)
(* quarantine writes is always stored.                                     *)
(***************************************************************************)
LineageIsEarlier ==
    \A id \in EventIds :
        /\ References(id) \subseteq (0 .. (id - 1)) \cup ForeseenIds
        /\ (memory_events[id].state = "quarantined" \/ IsCorrection(id)) =>
               References(id) \subseteq 1 .. (id - 1)

(* Rows whose lineage is kept, and that become neither quarantined nor     *)
(* corrections.                                                            *)
LEMMA LineageStays ==
    ASSUME LineageIsEarlier, NEW id \in EventIds,
           SameParts(memory_events'[id], memory_events[id]),
           memory_events'[id].state = "quarantined" =>
               memory_events[id].state = "quarantined",
           IsCorrection(id)' => IsCorrection(id)
    PROVE  /\ References(id)' \subseteq (0 .. (id - 1)) \cup ForeseenIds
           /\ (memory_events'[id].state = "quarantined" \/ IsCorrection(id)') =>
                  References(id)' \subseteq 1 .. (id - 1)
<1>1. References(id)' = References(id)
  BY DEF References, SameParts
<1>2. QED
  BY <1>1 DEF LineageIsEarlier

(* An insertion makes no correction.                                       *)
LEMMA InsertKeepsLineage ==
    ASSUME TypeOK, UpdatesNameEvents, LineageIsEarlier, UpdatesKept,
           NEW new, new = Len(memory_events) + 1,
           NEW stored, RowsAfterRecord(new, stored),
           stored.parents \cup stored.derived_from \cup stored.supersedes
               \subseteq EventIds \cup ForeseenIds \cup {UnstoredId},
           stored.state = "quarantined" =>
               stored.parents \cup stored.derived_from \cup stored.supersedes
                   \subseteq EventIds
    PROVE  LineageIsEarlier'
<1>1. /\ new \in Nat /\ new \notin EventIds /\ EventIds = 1 .. (new - 1)
      /\ EventIds' = EventIds \cup {new} /\ memory_events'[new] = stored
      /\ \A i \in EventIds : memory_events'[i] = memory_events[i]
  BY StoredIds DEF RowsAfterRecord
<1>2. /\ \A i \in EventIds : CorrectionsOf(i)' = CorrectionsOf(i)
      /\ CorrectionsOf(new)' = {}
  <2>1. EventIds \subseteq Nat /\ \A i \in EventIds : i < new
    BY <1>1
  <2>2. QED
    BY <1>1, <2>1, CorrectionsKept
<1>3. ~IsCorrection(new)'
  <2>1. \A i \in EventIds : new \notin CorrectionsOf(i)
    BY <1>1 DEF CorrectionsOf
  <2>2. \A i \in 1 .. (new - 1) : new \notin CorrectionsOf(i)'
    BY <1>1, <1>2, <2>1
  <2>3. QED
    BY <2>2 DEF IsCorrection
<1>4. ASSUME NEW id \in EventIds PROVE IsCorrection(id)' => IsCorrection(id)
  <2>1. 1 .. (id - 1) \subseteq EventIds
    BY <1>1
  <2>2. QED
    BY <1>2, <2>1 DEF IsCorrection
<1>5. ASSUME NEW id \in EventIds
      PROVE  /\ References(id)' \subseteq (0 .. (id - 1)) \cup ForeseenIds
             /\ (memory_events'[id].state = "quarantined" \/ IsCorrection(id)') =>
                    References(id)' \subseteq 1 .. (id - 1)
  BY <1>1, <1>4, LineageStays DEF SameParts
<1>6. /\ References(new)' \subseteq (0 .. (new - 1)) \cup ForeseenIds
      /\ memory_events'[new].state = "quarantined" =>
             References(new)' \subseteq 1 .. (new - 1)
  BY <1>1 DEF References, UnstoredId
<1>7. QED
  BY <1>1, <1>3, <1>5, <1>6 DEF LineageIsEarlier

(* A correction is made of a stored event.                                 *)
LEMMA SupersedeKeepsLineage ==
    ASSUME TypeOK, UpdatesNameEvents, LineageIsEarlier, NEW id \in EventIds,
           NEW new, new = Len(memory_events) + 1,
           RowsAfterCorrect(id, new), UpdateAdded(id, new)
    PROVE  LineageIsEarlier'
<1>1. /\ new \in Nat /\ new \notin EventIds /\ EventIds = 1 .. (new - 1)
      /\ EventIds' = EventIds \cup {new}
  BY StoredIds DEF RowsAfterCorrect
<1>2. \A i \in EventIds :
          /\ SameParts(memory_events'[i], memory_events[i])
          /\ memory_events'[i].state \in {memory_events[i].state, "superseded"}
  BY DEF RowsAfterCorrect
<1>3. References(new)' = {id}
  BY DEF RowsAfterCorrect, References
<1>4. /\ \A i \in EventIds \ {id} : CorrectionsOf(i)' = CorrectionsOf(i)
      /\ CorrectionsOf(id)' = CorrectionsOf(id) \cup {new}
  <2>1. EventIds \subseteq Nat /\ \A i \in EventIds : i < new
    BY <1>1
  <2>2. QED
    BY <1>1, <2>1, CorrectionAdded
<1>5. ASSUME NEW i \in EventIds PROVE IsCorrection(i)' => IsCorrection(i)
  <2>1. 1 .. (i - 1) \subseteq EventIds
    BY <1>1
  <2>2. QED
    BY <1>1, <1>4, <2>1 DEF IsCorrection
<1>6. ASSUME NEW i \in EventIds
      PROVE  /\ References(i)' \subseteq (0 .. (i - 1)) \cup ForeseenIds
             /\ (memory_events'[i].state = "quarantined" \/ IsCorrection(i)') =>
                    References(i)' \subseteq 1 .. (i - 1)
  BY <1>2, <1>5, LineageStays
<1>7. References(new)' \subseteq (0 .. (new - 1)) \cup ForeseenIds /\ References(new)' \subseteq 1 .. (new - 1)
  BY <1>1, <1>3
<1>8. QED
  BY <1>1, <1>6, <1>7 DEF LineageIsEarlier

(* What leaves the rows their lineage and makes no correction.             *)
LEMMA OthersKeepLineage ==
    ASSUME TypeOK, UpdatesNameEvents, LineageIsEarlier, UpdatesKept,
           EventIds' = EventIds,
           \A i \in EventIds :
               /\ SameParts(memory_events'[i], memory_events[i])
               /\ memory_events'[i].state \in {memory_events[i].state, "deleted"}
    PROVE  LineageIsEarlier'
<1>1. EventIds \subseteq Nat /\ \A i \in EventIds : 1 .. (i - 1) \subseteq EventIds
  BY StoredIds
<1>2. \A i \in EventIds : CorrectionsOf(i)' = CorrectionsOf(i)
  BY <1>1, CorrectionsKept
<1>3. \A i \in EventIds : IsCorrection(i)' => IsCorrection(i)
  BY <1>1, <1>2 DEF IsCorrection
<1>4. ASSUME NEW i \in EventIds
      PROVE  /\ References(i)' \subseteq (0 .. (i - 1)) \cup ForeseenIds
             /\ (memory_events'[i].state = "quarantined" \/ IsCorrection(i)') =>
                    References(i)' \subseteq 1 .. (i - 1)
  BY <1>3, LineageStays
<1>5. QED
  BY <1>4 DEF LineageIsEarlier

LEMMA EarlierLineage == Spec => []LineageIsEarlier
<1>1. Init => LineageIsEarlier
  BY DEF Init, LineageIsEarlier, EventIds
<1>2. TypeOK /\ UpdatesNameEvents /\ LineageIsEarlier /\ [Next]_vars
          => LineageIsEarlier'
  <2> SUFFICES ASSUME TypeOK, UpdatesNameEvents, LineageIsEarlier, [Next]_vars
               PROVE  LineageIsEarlier'
    OBVIOUS
  <2>1. PICK new : new = Len(memory_events) + 1
    OBVIOUS
  <2>2. ASSUME NEW caller \in Caller, NEW candidate \in Candidates,
               RecordNew(caller, candidate)
        PROVE  LineageIsEarlier'
    <3> DEFINE event == Construct(candidate)
    <3> DEFINE stored == QuarantineIfContradictory(event)
    <3>1. RowsAfterRecord(new, stored)
      BY <2>1, <2>2, RecordRows
    <3>2. event \in MemoryEvent /\ event.state = "active"
      BY ConstructedEvent
    <3>3. event.parents \cup event.derived_from \cup event.supersedes
              \subseteq EventIds \cup ForeseenIds \cup {UnstoredId}
      BY <2>2 DEF RecordNew, CanName, Construct
    <3>4. UpdatesKept
      <4>1. Audit("write", caller, "allowed", {Len(memory_events) + 1})
        BY <2>2 DEF RecordNew
      <4>2. QED
        BY <4>1, OtherAudit
    <3> HIDE DEF event
    <3>5. \/ stored = event
          \/ /\ stored.derived_from = {} /\ stored.supersedes = {}
             /\ stored.parents \subseteq EventIds
      <4>1. Contradictions(event) \subseteq EventIds
        BY DEF Contradictions, ActiveEvents
      <4>2. \/ stored = event
            \/ /\ stored.derived_from = {} /\ stored.supersedes = {}
               /\ \E evidence \in Contradictions(event) : stored.parents = {evidence}
        BY <3>2, QuarantinedEvent
      <4> HIDE DEF stored
      <4>3. QED
        BY <4>1, <4>2
    <3> HIDE DEF stored
    <3>6. QED
      BY <2>1, <3>1, <3>2, <3>3, <3>4, <3>5, InsertKeepsLineage
  <2>3. ASSUME NEW caller \in Caller, NEW id \in EventIds, NEW patch \in Patches,
               CorrectAllowed(caller, id, patch)
        PROVE  LineageIsEarlier'
    <3>1. Audit("update", caller, "allowed", {id, new})
      BY <2>1, <2>3 DEF CorrectAllowed
    <3>2. QED
      BY <2>1, <2>3, <3>1, CorrectRows, UpdateAudit, SupersedeKeepsLineage
  <2>4. ASSUME NEW caller \in Caller, NEW selector \in Selectors,
               DeleteAllowed(caller, selector)
        PROVE  LineageIsEarlier'
    <3>1. RowsAfterDelete(QueryEvents(selector)) /\ UpdatesKept
      BY <2>4, DeleteRows, OtherAudit DEF DeleteAllowed
    <3>2. QED
      BY <3>1, OthersKeepLineage DEF RowsAfterDelete
  <2>5. CASE QuietStep
    BY <2>5, OthersKeepLineage DEF QuietStep, EventIds, SameParts
  <2>6. QED
    BY <2>2, <2>3, <2>4, <2>5, StepCases
<1>3. QED
  BY <1>1, <1>2, TypeCorrect, LinksHold, PTL DEF Spec

-----------------------------------------------------------------------------
(***************************************************************************)
(* The walk along the successors of a superseded event.                    *)
(***************************************************************************)
(* One turn of the loop.                                                   *)
Extended(order, chain) ==
    IF Last(chain) \in Superseded /\ order[Last(chain)] # UnstoredId
    THEN Append(chain, order[Last(chain)])
    ELSE chain

Started == {chain \in Seq(EventIds) : chain # <<>>}

LEMMA ExtendedIsStarted ==
    ASSUME NEW order \in Orders, NEW chain \in Started
    PROVE  Extended(order, chain) \in Started
<1>1. chain \in Seq(EventIds) /\ chain # <<>>
  BY DEF Started
<1>2. Superseded \subseteq EventIds
  BY DEF Superseded
<1>3. ASSUME Last(chain) \in Superseded, order[Last(chain)] # UnstoredId
      PROVE  order[Last(chain)] \in EventIds
  BY <1>2, <1>3 DEF Orders
<1>4. \A id \in EventIds :
          Append(chain, id) \in Seq(EventIds) /\ Append(chain, id) # <<>>
  BY <1>1, AppendProperties
<1>5. CASE Last(chain) \in Superseded /\ order[Last(chain)] # UnstoredId
  BY <1>3, <1>4, <1>5 DEF Extended, Started
<1>6. CASE ~(Last(chain) \in Superseded /\ order[Last(chain)] # UnstoredId)
  BY <1>6 DEF Extended
<1>7. QED
  BY <1>5, <1>6

(* The fold is the loop: the chain after each turn, from the one before.   *)
LEMMA ChainUnrolls ==
    ASSUME TypeOK, NEW order \in Orders, NEW id \in Superseded,
           NEW n, n = Len(memory_events)
    PROVE  \E after :
               /\ after[0] = <<id>>
               /\ \A k \in 1 .. n : after[k] = Extended(order, after[k - 1])
               /\ Chain(order, id) = after[n]
<1> DEFINE steps == [step \in 1 .. Len(memory_events) |-> step]
           Fold(g) == [s \in SUBSET (DOMAIN steps) |->
                          IF s = {} THEN <<id>>
                          ELSE Extended(order, g[s \ {Max(s)}])]
           fold == CHOOSE g : g = Fold(g)
<1>1. Chain(order, id) = fold[DOMAIN steps]
  BY Zenon DEF Chain, FoldLeft, MapThenFoldSet, Extended
<1>2. n \in Nat /\ DOMAIN steps = 1 .. n
  BY StoredIds
<1>3. \E g : g = Fold(g)
  <2> DEFINE turn == [arg \in (1 .. n) \X Started |-> Extended(order, arg[2])]
  <2>1. <<id>> \in Started
    BY DEF Superseded, Started
  <2>2. turn \in [(1 .. n) \X Started -> Started]
    BY ExtendedIsStarted
  <2>3. PICK g : IsFold(g, n, Started, <<id>>, turn)
    <3> HIDE DEF turn
    <3>1. QED
      BY <1>2, <2>1, <2>2, FoldExists
  <2>4. ASSUME NEW s \in SUBSET (1 .. n), s # {}
        PROVE  turn[<<Max(s), g[s \ {Max(s)}]>>] = Extended(order, g[s \ {Max(s)}])
    <3>1. Max(s) \in 1 .. n
      BY <1>2, <2>4, LargestIsOne
    <3>2. g[s \ {Max(s)}] \in Started
      BY <2>3 DEF IsFold
    <3>3. QED
      BY <3>1, <3>2
  <2> HIDE DEF turn
  <2>5. g = Fold(g)
    BY <1>2, <2>3, <2>4 DEF IsFold
  <2>6. QED
    BY <2>5
<1> HIDE DEF steps
<1>4. fold = Fold(fold)
  <2> HIDE DEF Fold
  <2>1. QED
    BY <1>3
<1> HIDE DEF fold
<1>5. /\ fold[1 .. 0] = <<id>>
      /\ \A k \in 1 .. n : fold[1 .. k] = Extended(order, fold[1 .. (k - 1)])
  <2>1. 1 .. 0 = {} /\ {} \in SUBSET (1 .. n)
    OBVIOUS
  <2>2. ASSUME NEW k \in 1 .. n
        PROVE  /\ 1 .. k \in SUBSET (1 .. n) /\ 1 .. k # {}
               /\ Max(1 .. k) = k /\ (1 .. k) \ {k} = 1 .. (k - 1)
    BY <1>2, LargestOfFirst
  <2>3. \A s \in SUBSET (1 .. n) :
            fold[s] = IF s = {} THEN <<id>>
                      ELSE Extended(order, fold[s \ {Max(s)}])
    BY <1>2, <1>4
  <2> HIDE DEF Fold
  <2>4. fold[1 .. 0] = <<id>>
    BY <2>1, <2>3, Zenon
  <2>5. ASSUME NEW k \in 1 .. n
        PROVE  fold[1 .. k] = Extended(order, fold[1 .. (k - 1)])
    <3>1. fold[1 .. k] = Extended(order, fold[(1 .. k) \ {Max(1 .. k)}])
      BY <2>2, <2>3, Zenon
    <3>2. (1 .. k) \ {Max(1 .. k)} = 1 .. (k - 1)
      BY <2>2
    <3>3. QED
      BY <3>1, <3>2, Zenon
  <2>6. QED
    BY <2>4, <2>5
<1>6. QED
  <2> DEFINE after == [k \in 0 .. n |-> fold[1 .. k]]
  <2>1. /\ after[0] = <<id>>
        /\ \A k \in 1 .. n : after[k] = Extended(order, after[k - 1])
        /\ Chain(order, id) = after[n]
    BY <1>1, <1>2, <1>5
  <2>2. QED
    BY <2>1

(* What holds of the chain after k turns: it starts with id and goes up    *)
(* along supersession, every event but the last is superseded, and it has  *)
(* not stopped before an event that is not.                                *)
Climbs(chain) ==
    /\ \A i \in DOMAIN chain : i <= chain[i]
    /\ \A i, j \in DOMAIN chain : i < j => chain[i] < chain[j]

FollowsSupersession(chain) ==
    \A i \in 1 .. (Len(chain) - 1) :
        /\ chain[i] \in Superseded
        /\ chain[i] \in memory_events[chain[i + 1]].supersedes

WalkedFrom(id, k, chain) ==
    /\ chain \in Seq(EventIds) /\ Len(chain) \in 1 .. (k + 1)
    /\ chain[1] = id
    /\ Climbs(chain)
    /\ FollowsSupersession(chain)
    /\ Len(chain) = k + 1 \/ Last(chain) \notin Superseded

(* A superseded event has a successor to go on to, and whoever claims to   *)
(* supersede an event is a later row.                                      *)
LEMMA SuccessorIsLater ==
    ASSUME TypeOK, SupersessionIsEarlier, SupersessionIsLinked,
           NEW order \in Orders, NEW old \in Superseded
    PROVE  /\ order[old] # UnstoredId
           /\ order[old] \in EventIds
           /\ old \in memory_events[order[old]].supersedes
           /\ old < order[old]
<1>1. old \in EventIds /\ EventsSuperseding(old) # {}
  <2>1. old \in EventIds /\ CorrectionsOf(old) # {}
    BY DEF Superseded, SupersessionIsLinked
  <2>2. CorrectionsOf(old) \subseteq EventsSuperseding(old)
    BY <2>1 DEF SupersessionIsLinked, EventsSuperseding, CorrectionsOf
  <2>3. QED
    BY <2>1, <2>2
<1>2. order[old] \in EventsSuperseding(old)
  BY <1>1 DEF Orders
<1>3. order[old] \in EventIds /\ old \in memory_events[order[old]].supersedes
  BY <1>2 DEF EventsSuperseding
<1>4. old \in 0 .. (order[old] - 1)
  BY <1>3 DEF SupersessionIsEarlier
<1>5. order[old] \in Nat /\ order[old] # 0
  BY <1>3, StoredIds
<1>6. QED
  BY <1>3, <1>4, <1>5 DEF UnstoredId

(* A turn of the loop keeps it.                                            *)
LEMMA TurnKeepsWalk ==
    ASSUME TypeOK, SupersessionIsEarlier, SupersessionIsLinked,
           NEW order \in Orders, NEW id \in EventIds, NEW k \in Nat,
           NEW chain, WalkedFrom(id, k, chain)
    PROVE  WalkedFrom(id, k + 1, Extended(order, chain))
<1>1. /\ chain \in Seq(EventIds) /\ Len(chain) \in Nat /\ Len(chain) >= 1
      /\ Len(chain) <= k + 1 /\ chain[1] = id
      /\ DOMAIN chain = 1 .. Len(chain)
      /\ \A i \in DOMAIN chain : chain[i] \in EventIds
  BY LenProperties, ElementOfSeq DEF WalkedFrom
<1>2. \A i \in EventIds : i \in Nat
  BY StoredIds
<1>3. CASE Last(chain) \notin Superseded
  <2>1. Extended(order, chain) = chain
    BY <1>3 DEF Extended
  <2>2. Len(chain) \in 1 .. ((k + 1) + 1)
    BY <1>1
  <2>3. QED
    BY <1>1, <1>3, <2>1, <2>2 DEF WalkedFrom
<1>4. CASE Last(chain) \in Superseded
  <2>1. PICK last, next : last = Last(chain) /\ next = order[last]
    OBVIOUS
  <2>2. /\ next # UnstoredId /\ next \in EventIds
        /\ last \in memory_events[next].supersedes /\ last < next
    BY <1>4, <2>1, SuccessorIsLater
  <2>3. Extended(order, chain) = Append(chain, next)
    BY <1>4, <2>1, <2>2 DEF Extended
  <2>4. PICK longer, n : longer = Append(chain, next) /\ n = Len(chain)
    OBVIOUS
  <2>5. /\ longer \in Seq(EventIds) /\ Len(longer) = n + 1
        /\ DOMAIN longer = 1 .. (n + 1)
        /\ \A i \in 1 .. n : longer[i] = chain[i]
        /\ longer[n + 1] = next
    BY <1>1, <2>2, <2>4, AppendProperties, LenProperties
  <2>6. n \in Nat /\ n >= 1 /\ n = k + 1 /\ last = chain[n] /\ last \in Nat /\ next \in Nat
    <3>1. Len(chain) = k + 1
      BY <1>4 DEF WalkedFrom
    <3>2. last = chain[Len(chain)]
      BY <2>1 DEF Last
    <3>3. QED
      BY <1>1, <1>2, <2>2, <2>4, <3>1, <3>2
  <2>7. Climbs(longer)
    <3>1. \A i \in 1 .. n : chain[i] \in Nat /\ i <= chain[i] /\ chain[i] <= last
      <4>1. \A i \in 1 .. n : i <= chain[i] /\ (i < n => chain[i] < chain[n])
        BY <1>1, <2>4, <2>6 DEF WalkedFrom, Climbs
      <4>2. \A i \in 1 .. n : chain[i] \in Nat
        BY <1>1, <1>2, <2>4
      <4>3. QED
        BY <2>6, <4>1, <4>2
    <3>2. \A i, j \in 1 .. n : i < j => chain[i] < chain[j]
      BY <1>1, <2>4 DEF WalkedFrom, Climbs
    <3>3. n <= last
      BY <2>6, <3>1
    <3>4. \A i \in 1 .. (n + 1) : i <= longer[i]
      <4>1. n + 1 <= next
        BY <2>2, <2>6, <3>3
      <4>2. QED
        BY <2>5, <2>6, <3>1, <4>1
    <3>5. ASSUME NEW i \in 1 .. (n + 1), NEW j \in 1 .. (n + 1), i < j
          PROVE  longer[i] < longer[j]
      <4>1. CASE j = n + 1
        <5>1. i \in 1 .. n /\ longer[i] = chain[i] /\ longer[j] = next
          BY <2>5, <2>6, <3>5, <4>1
        <5>2. chain[i] \in Nat /\ chain[i] <= last
          BY <3>1, <5>1
        <5>3. QED
          BY <2>2, <2>6, <5>1, <5>2
      <4>2. CASE j # n + 1
        BY <2>5, <2>6, <3>2, <3>5, <4>2
      <4>3. QED
        BY <4>1, <4>2
    <3>6. QED
      BY <2>5, <3>4, <3>5 DEF Climbs
  <2>8. FollowsSupersession(longer)
    <3>1. ASSUME NEW i \in 1 .. n
          PROVE  /\ longer[i] \in Superseded
                 /\ longer[i] \in memory_events[longer[i + 1]].supersedes
      <4>1. CASE i = n
        BY <1>4, <2>1, <2>2, <2>5, <2>6, <4>1
      <4>2. CASE i # n
        <5>1. i \in 1 .. (n - 1) /\ i \in 1 .. n /\ i + 1 \in 1 .. n
          BY <2>6, <4>2
        <5>2. /\ chain[i] \in Superseded
              /\ chain[i] \in memory_events[chain[i + 1]].supersedes
          BY <2>4, <5>1 DEF WalkedFrom, FollowsSupersession
        <5>3. QED
          BY <2>5, <5>1, <5>2
      <4>3. QED
        BY <4>1, <4>2
    <3>2. Len(longer) - 1 = n
      BY <2>5, <2>6
    <3>3. QED
      BY <3>1, <3>2 DEF FollowsSupersession
  <2>9. longer[1] = id /\ Len(longer) = (k + 1) + 1 /\ Len(longer) \in 1 .. ((k + 1) + 1)
    BY <1>1, <2>5, <2>6
  <2>10. QED
    BY <2>3, <2>4, <2>5, <2>7, <2>8, <2>9 DEF WalkedFrom
<1>5. QED
  BY <1>3, <1>4

(* The chain of a superseded event after the whole loop.                   *)
LEMMA ChainIsWalked ==
    ASSUME TypeOK, SupersessionIsEarlier, SupersessionIsLinked,
           NEW order \in Orders, NEW id \in Superseded
    PROVE  WalkedFrom(id, Len(memory_events), Chain(order, id))
<1>1. PICK n : n = Len(memory_events)
  OBVIOUS
<1>2. n \in Nat /\ id \in EventIds
  BY <1>1, StoredIds DEF Superseded
<1>3. PICK after :
          /\ after[0] = <<id>>
          /\ \A k \in 1 .. n : after[k] = Extended(order, after[k - 1])
          /\ Chain(order, id) = after[n]
  BY <1>1, ChainUnrolls
<1> DEFINE S == {k \in 0 .. n : WalkedFrom(id, k, after[k])}
<1>4. 0 \in S
  <2>1. /\ <<id>> \in Seq(EventIds) /\ Len(<<id>>) = 1 /\ <<id>>[1] = id
        /\ DOMAIN <<id>> = {1}
    BY <1>2
  <2>2. id \in Nat /\ 1 <= id
    BY <1>2, StoredIds
  <2>3. Climbs(<<id>>) /\ FollowsSupersession(<<id>>)
    BY <2>1, <2>2 DEF Climbs, FollowsSupersession
  <2>4. WalkedFrom(id, 0, <<id>>)
    BY <2>1, <2>3 DEF WalkedFrom
  <2>5. QED
    BY <1>2, <1>3, <2>4
<1>5. ASSUME NEW k \in 1 .. n, k - 1 \in S PROVE k \in S
  <2>1. k - 1 \in Nat /\ (k - 1) + 1 = k /\ k \in 0 .. n
    BY <1>2
  <2>2. WalkedFrom(id, k - 1, after[k - 1])
    BY <1>5
  <2>3. WalkedFrom(id, (k - 1) + 1, Extended(order, after[k - 1]))
    BY <1>2, <2>1, <2>2, TurnKeepsWalk
  <2>4. after[k] = Extended(order, after[k - 1])
    BY <1>3
  <2>5. WalkedFrom(id, k, after[k])
    BY <2>1, <2>3, <2>4
  <2>6. QED
    BY <2>1, <2>5
<1>6. n \in S
  <2> HIDE DEF S
  <2>1. QED
    BY <1>2, <1>4, <1>5, EveryTurn
<1>7. QED
  BY <1>1, <1>3, <1>6

(* The loop has as many turns as there are events, and a chain that climbs *)
(* is no longer than that, so it has stopped.                              *)
LEMMA ChainsEnd ==
    ASSUME TypeOK, SupersessionIsEarlier, SupersessionIsLinked
    PROVE  ChainsEndAtAVersion
<1> SUFFICES ASSUME NEW order \in Orders, NEW id \in Superseded,
                    NEW chain, chain = Chain(order, id)
             PROVE  /\ IsInjective(chain)
                    /\ Len(chain) > 1
                    /\ Last(chain) \notin Superseded
                    /\ ToSet(Front(chain)) \subseteq Superseded
                    /\ \A i \in 1 .. (Len(chain) - 1) :
                          chain[i] \in memory_events[chain[i + 1]].supersedes
  BY DEF ChainsEndAtAVersion
<1>1. PICK n : n = Len(memory_events) /\ n \in Nat /\ EventIds = 1 .. n
  BY StoredIds
<1>2. WalkedFrom(id, n, chain)
  BY <1>1, ChainIsWalked
<1>3. /\ chain \in Seq(EventIds) /\ Len(chain) \in Nat /\ Len(chain) >= 1
      /\ DOMAIN chain = 1 .. Len(chain) /\ chain[1] = id
      /\ \A i \in DOMAIN chain : chain[i] \in 1 .. n
      /\ Len(chain) = n + 1 \/ Last(chain) \notin Superseded
  BY <1>1, <1>2, LenProperties, ElementOfSeq DEF WalkedFrom
<1>4. Len(chain) # n + 1
  <2> SUFFICES ASSUME Len(chain) = n + 1 PROVE FALSE
    OBVIOUS
  <2>1. n + 1 \in DOMAIN chain
    BY <1>1, <1>3
  <2>2. n + 1 <= chain[n + 1]
    BY <1>2, <2>1 DEF WalkedFrom, Climbs
  <2>3. QED
    BY <1>1, <1>3, <2>1, <2>2
<1>5. Last(chain) \notin Superseded
  BY <1>3, <1>4
<1>6. Len(chain) > 1
  <2>1. Len(chain) = 1 => Last(chain) = id
    BY <1>3 DEF Last
  <2>2. QED
    BY <1>3, <1>5, <2>1
<1>7. IsInjective(chain)
  <2>1. \A i, j \in DOMAIN chain : i < j => chain[i] < chain[j]
    BY <1>2 DEF WalkedFrom, Climbs
  <2>2. ASSUME NEW i \in DOMAIN chain, NEW j \in DOMAIN chain, chain[i] = chain[j]
        PROVE  i = j
    <3>1. i \in Nat /\ j \in Nat /\ chain[i] \in Nat /\ chain[j] \in Nat
      BY <1>3
    <3>2. QED
      BY <2>1, <2>2, <3>1
  <2>3. QED
    BY <2>2 DEF IsInjective
<1>8. \A i \in 1 .. (Len(chain) - 1) :
          /\ chain[i] \in Superseded
          /\ chain[i] \in memory_events[chain[i + 1]].supersedes
  BY <1>2 DEF WalkedFrom, FollowsSupersession
<1>9. ToSet(Front(chain)) \subseteq Superseded
  <2>1. /\ DOMAIN Front(chain) = 1 .. (Len(chain) - 1)
        /\ \A i \in 1 .. (Len(chain) - 1) : Front(chain)[i] = chain[i]
    BY <1>3, <1>6, SubSeqProperties DEF Front
  <2>2. QED
    BY <1>8, <2>1 DEF ToSet
<1>10. QED
  BY <1>5, <1>6, <1>7, <1>8, <1>9

-----------------------------------------------------------------------------
(* Of the events of a duplicate group at most one is not a correction.     *)
LEMMA GroupsHoldCorrections ==
    ASSUME TypeOK, OnlyCorrectionsConflict, NEW group \in DuplicateEventGroups
    PROVE  Cardinality({id \in group : ~IsCorrection(id)}) <= 1
<1> DEFINE recorded == {id \in group : ~IsCorrection(id)}
<1>1. PICK key \in EventIds :
          group = {id \in EventIds :
                      /\ memory_events[id].state = "active"
                      /\ IsDuplicate(memory_events[id], memory_events[key])}
  BY DEF DuplicateEventGroups
<1>2. ASSUME NEW a \in recorded, NEW b \in recorded, a < b PROVE FALSE
  <2>1. /\ a \in EventIds /\ b \in EventIds
        /\ memory_events[a].state = "active" /\ memory_events[b].state = "active"
        /\ ~IsCorrection(b)
    BY <1>1
  <2>2. IsDuplicate(memory_events[a], memory_events[b])
    BY <1>1 DEF IsDuplicate
  <2>3. QED
    BY <1>2, <2>1, <2>2 DEF OnlyCorrectionsConflict
<1>3. \A a, b \in recorded : a = b
  <2>1. \A a \in recorded : a \in Nat
    BY <1>1, StoredIds
  <2> HIDE DEF recorded
  <2>2. QED
    BY <1>2, <2>1
<1>4. recorded = {} \/ \E a : recorded = {a}
  <2> HIDE DEF recorded
  <2>1. ASSUME NEW a \in recorded PROVE recorded = {a}
    BY <1>3
  <2>2. QED
    BY <2>1
<1>5. Cardinality(recorded) \in {0, 1}
  <2> HIDE DEF recorded
  <2>1. QED
    BY <1>4, FS_EmptySet, FS_Singleton
<1>6. QED
  BY <1>5

(* A proposal is made from active events, and a corrected event is none.   *)
LEMMA ProposalsCountOnce ==
    ASSUME SupersessionIsLinked, NEW evidence \in SemanticProposals,
           NEW old \in evidence, NEW new \in evidence
    PROVE  new \notin CorrectionsOf(old)
<1>1. old \in EventIds /\ memory_events[old].state = "active"
  BY DEF SemanticProposals
<1>2. QED
  BY <1>1 DEF SupersessionIsLinked

(* A missing reference is of a recorded event and has not named an event   *)
(* yet.                                                                    *)
LEMMA MissingWasSupplied ==
    ASSUME TypeOK, LineageIsEarlier, NEW entry \in MissingLineage
    PROVE  /\ entry[2] \in ForeseenIds \cup {UnstoredId}
           /\ memory_events[entry[1]].state # "quarantined"
           /\ ~IsCorrection(entry[1])
<1>1. PICK id \in EventIds :
          entry \in {<<id, missing>> : missing \in References(id) \ EventIds}
  BY DEF MissingLineage
<1>2. PICK missing \in References(id) \ EventIds : entry = <<id, missing>>
  BY <1>1
<1>3. /\ id \in Nat /\ 1 .. (id - 1) \subseteq EventIds
      /\ (0 .. (id - 1)) \cup ForeseenIds \subseteq EventIds \cup ForeseenIds \cup {0}
  BY StoredIds
<1>4. QED
  BY <1>2, <1>3 DEF LineageIsEarlier, UnstoredId

(***************************************************************************)
(* The maintenance reports are sound in every state of every instance, with*)
(* any number of events and corrections of corrections and whatever callers*)
(* say of lineage: each part of the report rests on one or two invariants, *)
(* and the chains on the loop that walks them.                             *)
(***************************************************************************)
THEOREM ReportsSound == Spec => []ReportsAreSound
<1>1. TypeOK /\ LineageIsEarlier /\ SupersessionIsLinked
          /\ OnlyCorrectionsConflict /\ EdgesFollowEvents
              => ReportsAreSound
  <2> SUFFICES ASSUME TypeOK, LineageIsEarlier, SupersessionIsLinked,
                      OnlyCorrectionsConflict, EdgesFollowEvents
               PROVE  ReportsAreSound
    OBVIOUS
  <2>1. \A entry \in MissingLineage :
            /\ entry[2] \in ForeseenIds \cup {UnstoredId}
            /\ memory_events[entry[1]].state # "quarantined"
            /\ ~IsCorrection(entry[1])
    BY MissingWasSupplied
  <2>2. OrphanedProjectionEdges = {}
    BY DEF OrphanedProjectionEdges, EdgesFollowEvents
  <2>3. QED
    BY <2>1, <2>2, ChainsEnd, GroupsHoldCorrections, ProposalsCountOnce
    DEF ReportsAreSound
<1>2. QED
  BY <1>1, TypeCorrect, EarlierLineage, SupersededIsLinked,
     ConflictsAreCorrections, ProjectionFollows, PTL

(***************************************************************************)
(* Where callers cannot name an event that is still to come, as with random*)
(* ids, every walk along superseded events ends, whatever lineages they    *)
(* supply.                                                                 *)
(***************************************************************************)
THEOREM ChainsAlwaysEnd ==
    ASSUME ForeseenIds = {}
    PROVE  Spec => []ChainsEndAtAVersion
<1>1. TypeOK /\ LineageIsEarlier /\ SupersessionIsLinked => ChainsEndAtAVersion
  <2>1. LineageIsEarlier => SupersessionIsEarlier
    BY DEF LineageIsEarlier, SupersessionIsEarlier, References
  <2>2. QED
    BY <2>1, ChainsEnd
<1>2. QED
  BY <1>1, TypeCorrect, EarlierLineage, SupersededIsLinked, PTL
==============================================================================
