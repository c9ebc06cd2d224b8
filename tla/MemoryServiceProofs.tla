------------------------- MODULE MemoryServiceProofs -------------------------
(***************************************************************************)
(* Proofs about MemoryService, for every value of its constants: the type  *)
(* and what each step does to the rows, then the lifecycle invariants, then*)
(* the authorisation properties.                                           *)
(***************************************************************************)
EXTENDS MemoryService, SequenceTheorems, WellFoundedInduction, TLAPS

(* Writing a state to some rows of a table of events changes nothing else. *)
LEMMA WithStateRows ==
    ASSUME NEW events \in Seq(MemoryEvent), NEW ids, NEW state \in LifecycleState
    PROVE  /\ WithState(events, ids, state) \in Seq(MemoryEvent)
           /\ Len(WithState(events, ids, state)) = Len(events)
           /\ DOMAIN WithState(events, ids, state) = DOMAIN events
           /\ \A id \in DOMAIN events :
                 WithState(events, ids, state)[id] =
                     IF id \in ids THEN [events[id] EXCEPT !.state = state]
                     ELSE events[id]
<1> DEFINE rows == WithState(events, ids, state)
<1>1. /\ Len(events) \in Nat
      /\ DOMAIN events = 1 .. Len(events)
      /\ \A id \in 1 .. Len(events) : events[id] \in MemoryEvent
  BY LenProperties, ElementOfSeq
<1>2. rows \in [1 .. Len(events) -> MemoryEvent]
  BY <1>1 DEF WithState, MemoryEvent
<1>3. rows \in Seq(MemoryEvent) /\ Len(rows) = Len(events)
  BY <1>1, <1>2, SeqDef, LenProperties
<1>4. QED
  BY <1>1, <1>2, <1>3 DEF WithState

(* A constructed event is a well-formed active event, whatever lineage its *)
(* candidate came with.                                                    *)
LEMMA ConstructedEvent ==
    ASSUME TypeOK, NEW candidate \in Candidates
    PROVE  /\ Construct(candidate) \in MemoryEvent
           /\ Construct(candidate).state = "active"
<1>1. candidate \in MemoryCandidate
  BY MemoryServiceAssumption
<1>2. candidate.lineage \in Lineage
  BY <1>1 DEF MemoryCandidate
<1>3. ConstructedLayer(candidate) \in MemoryLayer
  BY <1>1 DEF ConstructedLayer, MemoryCandidate, MemoryLayer
<1>4. ConstructedRelations(candidate) \in SUBSET RelationKind
  BY <1>1 DEF ConstructedRelations, MemoryCandidate, RelationKind
<1>5. (IF candidate.valid_at = NoTime THEN now ELSE candidate.valid_at) \in Nat
  BY <1>1 DEF TypeOK, MemoryCandidate
<1>6. QED
  BY <1>1, <1>2, <1>3, <1>4, <1>5
  DEF Construct, MemoryCandidate, Lineage, MemoryEvent, LifecycleState

(* A nonempty set of naturals has a first element.                         *)
LEMMA FirstIsLeast ==
    ASSUME NEW ids \in SUBSET Nat, ids # {}
    PROVE  First(ids) \in ids /\ \A id \in ids : First(ids) <= id
<1>1. PICK least \in ids : \A id \in ids : ~(<<id, least>> \in OpToRel(<, Nat))
  BY NatLessThanWellFounded, WFMin, Zenon
<1>2. \A id \in ids : ~(id < least)
  <2>1. ASSUME NEW id \in ids, id < least PROVE <<id, least>> \in OpToRel(<, Nat)
    <3>1. id \in Nat /\ least \in Nat
      OBVIOUS
    <3>2. QED
      BY <2>1, <3>1, Zenon DEF OpToRel
  <2>2. QED
    BY <1>1, <2>1
<1>3. \A id \in ids : least <= id
  BY <1>2
<1>4. QED
  BY <1>3 DEF First

(* Quarantining keeps the event well formed; the quarantined event has one *)
(* parent, which is stored, active and contradicts it.                     *)
LEMMA QuarantinedEvent ==
    ASSUME TypeOK, NEW event \in MemoryEvent, event.state = "active",
           NEW stored, stored = QuarantineIfContradictory(event)
    PROVE  /\ stored \in MemoryEvent
           /\ stored = [event EXCEPT !.state = stored.state,
                                     !.parents = stored.parents,
                                     !.derived_from = stored.derived_from,
                                     !.supersedes = stored.supersedes]
           /\ stored.text = event.text
           /\ stored.source_app = event.source_app
           /\ stored.memory_layer = event.memory_layer
           /\ stored.privacy_level = event.privacy_level
           /\ stored.valid_at = event.valid_at
           /\ stored.entities = event.entities
           /\ \/ /\ stored = event
                 /\ Contradictions(event) = {}
              \/ /\ stored.state = "quarantined"
                 /\ stored.derived_from = {}
                 /\ stored.supersedes = {}
                 /\ \E evidence \in Contradictions(event) : stored.parents = {evidence}
<1>1. Contradictions(event) \subseteq EventIds /\ EventIds \subseteq Nat
  BY LenProperties DEF TypeOK, EventIds, Contradictions, ActiveEvents
<1>2. CASE Contradictions(event) = {}
  BY <1>2 DEF QuarantineIfContradictory, MemoryEvent
<1>3. CASE Contradictions(event) # {}
  <2> DEFINE evidence == First(Contradictions(event))
  <2>1. evidence \in Contradictions(event) /\ evidence \in Nat
    BY <1>1, <1>3, FirstIsLeast
  <2>2. stored = [event EXCEPT !.state = "quarantined", !.parents = {evidence},
                               !.derived_from = {}, !.supersedes = {}]
    BY <1>3 DEF QuarantineIfContradictory
  <2> HIDE DEF evidence
  <2>3. "quarantined" \in LifecycleState /\ {evidence} \in SUBSET Nat
    BY <2>1 DEF LifecycleState
  <2>4. /\ stored \in MemoryEvent
        /\ stored.state = "quarantined" /\ stored.parents = {evidence}
        /\ stored.derived_from = {} /\ stored.supersedes = {}
    BY <2>2, <2>3 DEF MemoryEvent
  <2>5. stored = [event EXCEPT !.state = stored.state,
                               !.parents = stored.parents,
                               !.derived_from = stored.derived_from,
                               !.supersedes = stored.supersedes]
    BY <2>2, <2>4
  <2>6. /\ stored.text = event.text
        /\ stored.source_app = event.source_app
        /\ stored.memory_layer = event.memory_layer
        /\ stored.privacy_level = event.privacy_level
        /\ stored.valid_at = event.valid_at
        /\ stored.entities = event.entities
    BY <2>2 DEF MemoryEvent
  <2>7. QED
    BY <2>1, <2>4, <2>5, <2>6
<1>4. QED
  BY <1>2, <1>3

(* The successor of a correction is a well-formed active event whose only  *)
(* lineage is the original.                                                *)
LEMMA CorrectedEvent ==
    ASSUME NEW original \in MemoryEvent, NEW id \in Nat, NEW patch \in Patches
    PROVE  /\ Corrected(original, id, patch) \in MemoryEvent
           /\ Corrected(original, id, patch).state = "active"
           /\ Corrected(original, id, patch).parents = {id}
           /\ Corrected(original, id, patch).derived_from = {}
           /\ Corrected(original, id, patch).supersedes = {id}
<1>1. patch \in Patch
  BY MemoryServiceAssumption
<1>2. QED
  BY <1>1 DEF Corrected, MemoryEvent, LifecycleState, Patch

(* A grant of a scope is a well-formed row.                                *)
LEMMA OperationIndexType ==
    ASSUME NEW scope \in PermissionScope
    PROVE  OperationIndexValue(scope) \in AuditOperation \cup {AnyOperation}
BY DEF OperationIndexValue

(* Appending an event adds one row, named by the new length.               *)
LEMMA AppendedRows ==
    ASSUME NEW events \in Seq(MemoryEvent), NEW event \in MemoryEvent
    PROVE  /\ Append(events, event) \in Seq(MemoryEvent)
           /\ Len(events) + 1 \in Nat
           /\ Len(events) + 1 \notin DOMAIN events
           /\ DOMAIN Append(events, event) = DOMAIN events \cup {Len(events) + 1}
           /\ Append(events, event)[Len(events) + 1] = event
           /\ \A id \in DOMAIN events :
                 /\ id \in Nat
                 /\ id < Len(events) + 1
                 /\ Append(events, event)[id] = events[id]
<1>1. Len(events) \in Nat /\ DOMAIN events = 1 .. Len(events)
  BY LenProperties
<1>2. QED
  BY <1>1, AppendProperties

(* An audit record of well-formed parts keeps the log well formed.         *)
LEMMA AuditedType ==
    ASSUME audit_log \subseteq AuditRecord,
           NEW operation \in AuditOperation, NEW caller \in Caller \cup {System},
           NEW outcome \in {"allowed", "denied"}, NEW affected \in SUBSET Nat,
           Audit(operation, caller, outcome, affected)
    PROVE  audit_log' \subseteq AuditRecord
<1> DEFINE record == [operation |-> operation, caller |-> caller,
                      outcome |-> outcome, affected |-> affected]
<1>1. record \in AuditRecord
  BY DEF AuditRecord
<1>2. audit_log' = audit_log \cup {record}
  BY DEF Audit
<1> HIDE DEF record
<1>3. QED
  BY <1>1, <1>2

(* A revocation is audited under the system's name.                        *)
LEMMA RevocationAuditedType ==
    ASSUME audit_log \subseteq AuditRecord, Audit("revoke", System, "allowed", {})
    PROVE  audit_log' \subseteq AuditRecord
<1>1. "revoke" \in AuditOperation
  BY DEF AuditOperation
<1>2. System \in Caller \cup {System} /\ "allowed" \in {"allowed", "denied"}
      /\ {} \in SUBSET Nat
  OBVIOUS
<1>3. QED
  BY <1>1, <1>2, AuditedType

(* Writing a state to the edges of some events keeps the projection well   *)
(* formed.                                                                 *)
LEMMA EdgesWithStateType ==
    ASSUME relation_edges \in [DOMAIN relation_edges -> LifecycleState],
           NEW ids, NEW state \in LifecycleState
    PROVE  /\ DOMAIN EdgesWithState(ids, state) = DOMAIN relation_edges
           /\ EdgesWithState(ids, state) \in [DOMAIN relation_edges -> LifecycleState]
BY DEF EdgesWithState

-----------------------------------------------------------------------------
(* Type correctness, action by action.  The empty store is well formed.    *)
LEMMA InitTyped == Init => TypeOK
BY EmptySeq DEF Init, TypeOK, AuditRecord

(* The parts of TypeOK a denied call can disturb.                          *)
LEMMA DenyTyped ==
    ASSUME TypeOK, NEW operation \in AuditOperation, NEW caller \in Caller,
           NEW id \in Nat, Deny(operation, caller, id)
    PROVE  TypeOK'
<1>1. audit_log' \subseteq AuditRecord
  BY AuditedType DEF TypeOK, Deny
<1>2. QED
  BY <1>1 DEF TypeOK, Deny

(* A record, denied, found again or stored, keeps the tables well formed.  *)
LEMMA RecordTyped ==
    ASSUME TypeOK, NEW caller \in Caller, NEW candidate \in Candidates,
           Record(caller, candidate)
    PROVE  TypeOK'
<1> DEFINE event == Construct(candidate)
<1>1. event \in MemoryEvent /\ event.state = "active"
  BY ConstructedEvent
<1>2. memory_events \in Seq(MemoryEvent) /\ Len(memory_events) \in Nat
      /\ EventIds \subseteq Nat
  BY LenProperties DEF TypeOK, EventIds
<1>3. CASE RecordDenied(caller, candidate)
  BY <1>3, DenyTyped DEF RecordDenied, UnstoredId, AuditOperation
<1>4. CASE RecordDuplicate(caller, candidate)
  <2>1. Duplicates(event) \subseteq EventIds /\ Duplicates(event) # {}
    BY <1>4 DEF RecordDuplicate, Duplicates, ActiveEvents
  <2>2. First(Duplicates(event)) \in Nat
    BY <1>2, <2>1, FirstIsLeast
  <2>3. audit_log' \subseteq AuditRecord
    BY <1>4, <2>2, AuditedType DEF TypeOK, RecordDuplicate, AuditOperation
  <2>4. QED
    BY <1>4, <2>3 DEF TypeOK, RecordDuplicate
<1>5. CASE RecordNew(caller, candidate)
  <2>1. QuarantineIfContradictory(event) \in MemoryEvent
    BY <1>1, QuarantinedEvent
  <2>2. memory_events' \in Seq(MemoryEvent)
    BY <1>2, <1>5, <2>1, AppendedRows DEF RecordNew
  <2>3. audit_log' \subseteq AuditRecord
    BY <1>2, <1>5, AuditedType DEF TypeOK, RecordNew, AuditOperation
  <2>4. QED
    BY <1>5, <2>2, <2>3 DEF TypeOK, RecordNew
<1>6. QED
  BY <1>3, <1>4, <1>5 DEF Record

(* A correction keeps the tables well formed.                              *)
LEMMA CorrectTyped ==
    ASSUME TypeOK, NEW caller \in Caller, NEW id \in EventIds, NEW patch \in Patches,
           CorrectAllowed(caller, id, patch)
    PROVE  TypeOK'
<1> DEFINE successor == Corrected(memory_events[id], id, patch)
<1> DEFINE appended == Append(memory_events, successor)
<1>1. /\ memory_events \in Seq(MemoryEvent) /\ Len(memory_events) \in Nat
      /\ id \in Nat /\ memory_events[id] \in MemoryEvent
  BY LenProperties, ElementOfSeq DEF TypeOK, EventIds
<1>2. successor \in MemoryEvent
  BY <1>1, CorrectedEvent
<1>3. appended \in Seq(MemoryEvent)
  BY <1>1, <1>2, AppendedRows
<1>4. memory_events' \in Seq(MemoryEvent)
  <2> HIDE DEF appended
  <2>1. "superseded" \in LifecycleState
    BY DEF LifecycleState
  <2>2. memory_events' = WithState(appended, {id}, "superseded")
    BY DEF CorrectAllowed, appended
  <2>3. QED
    BY <1>3, <2>1, <2>2, WithStateRows
<1>5. relation_edges' \in [DOMAIN relation_edges' -> LifecycleState]
  BY EdgesWithStateType DEF TypeOK, CorrectAllowed, LifecycleState
<1>6. audit_log' \subseteq AuditRecord
  BY <1>1, AuditedType DEF TypeOK, CorrectAllowed, AuditOperation
<1>7. QED
  BY <1>4, <1>5, <1>6 DEF TypeOK, CorrectAllowed

(* A deletion keeps the tables well formed.                                *)
LEMMA DeleteTyped ==
    ASSUME TypeOK, NEW caller \in Caller, NEW selector \in Selectors,
           DeleteAllowed(caller, selector)
    PROVE  TypeOK'
<1> DEFINE selected == QueryEvents(selector)
<1>1. selected \in SUBSET Nat /\ selector \in MemorySelector
  BY LenProperties, MemoryServiceAssumption DEF TypeOK, QueryEvents, EventIds
<1>2. "deleted" \in LifecycleState
  BY DEF LifecycleState
<1>3. memory_events' \in Seq(MemoryEvent)
  BY <1>2, WithStateRows DEF TypeOK, DeleteAllowed
<1>4. relation_edges' \in [DOMAIN relation_edges' -> LifecycleState]
  BY <1>2, EdgesWithStateType DEF TypeOK, DeleteAllowed
<1>5. tombstones' \subseteq [event_id: Nat, selector: MemorySelector]
  <2>1. \A id \in selected :
            [event_id |-> id, selector |-> selector]
                \in [event_id: Nat, selector: MemorySelector]
    BY <1>1
  <2>2. QED
    BY <2>1 DEF TypeOK, DeleteAllowed
<1>6. audit_log' \subseteq AuditRecord
  BY <1>1, AuditedType DEF TypeOK, DeleteAllowed, AuditOperation
<1>7. QED
  BY <1>3, <1>4, <1>5, <1>6 DEF TypeOK, DeleteAllowed

(* A grant keeps the tables well formed.                                   *)
LEMMA GrantTyped ==
    ASSUME TypeOK, NEW caller \in Caller, NEW scope \in Scopes,
           NEW duration \in Durations, Grant(caller, scope, duration)
    PROVE  TypeOK'
<1> DEFINE grant == [caller |-> caller, scope |-> scope, granted_at |-> now,
                     expires_at |-> now + duration, revoked |-> FALSE,
                     operation |-> OperationIndexValue(scope)]
<1>1. scope \in PermissionScope /\ duration \in Int /\ now \in Nat
  BY MemoryServiceAssumption DEF TypeOK
<1>2. OperationIndexValue(scope) \in AuditOperation \cup {AnyOperation}
  BY <1>1, OperationIndexType
<1>3. grant \in PermissionGrant
  BY <1>1, <1>2 DEF PermissionGrant
<1>4. permissions' \in Seq(PermissionGrant)
  <2>1. permissions' = Append(permissions, grant)
    BY DEF Grant
  <2> HIDE DEF grant
  <2>2. QED
    BY <1>3, <2>1, AppendProperties DEF TypeOK
<1>5. audit_log' \subseteq AuditRecord
  BY AuditedType DEF TypeOK, Grant, AuditOperation
<1>6. QED
  BY <1>4, <1>5 DEF TypeOK, Grant

(* A revocation keeps the tables well formed.                              *)
LEMMA RevokeTyped ==
    ASSUME TypeOK, NEW grant \in DOMAIN permissions, Revoke(grant)
    PROVE  TypeOK'
<1>1. /\ Len(permissions) \in Nat /\ DOMAIN permissions = 1 .. Len(permissions)
      /\ \A g \in 1 .. Len(permissions) : permissions[g] \in PermissionGrant
  BY LenProperties, ElementOfSeq DEF TypeOK
<1>2. [permissions[grant] EXCEPT !.revoked = TRUE] \in PermissionGrant
  BY <1>1 DEF PermissionGrant
<1>3. permissions' =
          [permissions EXCEPT ![grant] = [permissions[grant] EXCEPT !.revoked = TRUE]]
  BY DEF Revoke
<1>4. permissions' \in [1 .. Len(permissions) -> PermissionGrant]
  BY <1>1, <1>2, <1>3
<1>5. permissions' \in Seq(PermissionGrant)
  BY <1>1, <1>4, SeqDef
<1>6. audit_log' \subseteq AuditRecord
  BY RevocationAuditedType DEF TypeOK, Revoke
<1>7. QED
  BY <1>5, <1>6 DEF TypeOK, Revoke

(***************************************************************************)
(* Type correctness: from the empty store, whatever callers record,        *)
(* correct, delete, grant and revoke, every table holds well-formed rows.  *)
(***************************************************************************)
THEOREM TypeCorrect == Spec => []TypeOK
<1>1. TypeOK /\ [Next]_vars => TypeOK'
  <2> SUFFICES ASSUME TypeOK, [Next]_vars PROVE TypeOK'
    OBVIOUS
  <2>1. ASSUME NEW caller \in Caller, NEW candidate \in Candidates,
               Record(caller, candidate)
        PROVE  TypeOK'
    BY <2>1, RecordTyped
  <2>2. ASSUME NEW caller \in Caller, CorrectNotFound(caller) PROVE TypeOK'
    BY <2>2, DenyTyped DEF CorrectNotFound, UnstoredId, AuditOperation
  <2>3. ASSUME NEW caller \in Caller, NEW id \in EventIds, CorrectDenied(caller, id)
        PROVE  TypeOK'
    <3>1. id \in Nat
      BY LenProperties DEF TypeOK, EventIds
    <3>2. QED
      BY <2>3, <3>1, DenyTyped DEF CorrectDenied, AuditOperation
  <2>4. ASSUME NEW caller \in Caller, NEW id \in EventIds, NEW patch \in Patches,
               CorrectAllowed(caller, id, patch)
        PROVE  TypeOK'
    BY <2>4, CorrectTyped
  <2>5. ASSUME NEW caller \in Caller, NEW selector \in Selectors,
               DeleteDenied(caller, selector)
        PROVE  TypeOK'
    <3> DEFINE denied == DeniedForDelete(caller, selector)
    <3>1. denied \in SUBSET Nat /\ denied # {}
      BY <2>5, LenProperties
      DEF TypeOK, DeleteDenied, DeniedForDelete, QueryEvents, EventIds
    <3>2. First(denied) \in Nat
      BY <3>1, FirstIsLeast
    <3>3. QED
      BY <2>5, <3>2, DenyTyped DEF DeleteDenied, AuditOperation
  <2>6. ASSUME NEW caller \in Caller, NEW selector \in Selectors,
               DeleteAllowed(caller, selector)
        PROVE  TypeOK'
    BY <2>6, DeleteTyped
  <2>7. ASSUME NEW caller \in Caller, NEW scope \in Scopes, NEW duration \in Durations,
               Grant(caller, scope, duration)
        PROVE  TypeOK'
    BY <2>7, GrantTyped
  <2>8. ASSUME NEW grant \in DOMAIN permissions, Revoke(grant) PROVE TypeOK'
    BY <2>8, RevokeTyped
  <2>9. CASE RevokeUnknown
    <3>1. audit_log' \subseteq AuditRecord
      BY <2>9, RevocationAuditedType DEF TypeOK, RevokeUnknown
    <3>2. QED
      BY <2>9, <3>1 DEF TypeOK, RevokeUnknown
  <2>10. CASE RebuildRelationProjection
    BY <2>10 DEF TypeOK, RebuildRelationProjection, LifecycleState
  <2>11. CASE Tick
    BY <2>11 DEF TypeOK, Tick
  <2>12. CASE UNCHANGED vars
    BY <2>12 DEF TypeOK, vars
  <2>13. QED
    BY <2>1, <2>2, <2>3, <2>4, <2>5, <2>6, <2>7, <2>8, <2>9, <2>10, <2>11, <2>12
    DEF Next
<1>2. QED
  BY InitTyped, <1>1, PTL DEF Spec
-----------------------------------------------------------------------------
(***************************************************************************)
(* What a step does to the corrections there are.  They are read off the   *)
(* audit log, whose allowed updates name stored events only; a correction  *)
(* adds one pair, and no other step adds any.                              *)
(***************************************************************************)
UpdatesNameEvents ==
    \A ids \in SUBSET Nat : AllowedRecord("update", ids) => ids \subseteq EventIds

UpdatesKept ==
    \A ids \in SUBSET Nat : AllowedRecord("update", ids)' <=> AllowedRecord("update", ids)

UpdateAdded(id, new) ==
    \A ids \in SUBSET Nat :
        AllowedRecord("update", ids)'
            <=> AllowedRecord("update", ids) \/ ids \subseteq {id, new}

(* The log only grows, so what it allowed stays allowed.                   *)
LEMMA AllowedStays ==
    ASSUME audit_log \subseteq audit_log', NEW operation, NEW ids,
           AllowedRecord(operation, ids)
    PROVE  AllowedRecord(operation, ids)'
BY DEF AllowedRecord

(* An allowed operation leaves the record of all it affected.              *)
LEMMA AllowedWhenAudited ==
    ASSUME NEW operation, NEW caller, NEW affected,
           Audit(operation, caller, "allowed", affected),
           NEW ids, ids \subseteq affected
    PROVE  AllowedRecord(operation, ids)' /\ audit_log \subseteq audit_log'
<1> DEFINE record == [operation |-> operation, caller |-> caller,
                      outcome |-> "allowed", affected |-> affected]
<1>1. record \in audit_log' /\ audit_log \subseteq audit_log'
  BY DEF Audit
<1>2. record.operation = operation /\ record.outcome = "allowed"
      /\ ids \subseteq record.affected
  OBVIOUS
<1> HIDE DEF record
<1>3. QED
  BY <1>1, <1>2 DEF AllowedRecord

(* The record of anything but an allowed update adds no update.            *)
LEMMA OtherAudit ==
    ASSUME NEW operation, NEW caller, NEW outcome, NEW affected,
           Audit(operation, caller, outcome, affected),
           operation # "update" \/ outcome # "allowed"
    PROVE  UpdatesKept /\ audit_log \subseteq audit_log'
<1> DEFINE added == [operation |-> operation, caller |-> caller,
                     outcome |-> outcome, affected |-> affected]
<1>1. audit_log' = audit_log \cup {added}
  BY DEF Audit
<1>2. ~(added.operation = "update" /\ added.outcome = "allowed")
  OBVIOUS
<1> HIDE DEF added
<1>3. QED
  BY <1>1, <1>2 DEF UpdatesKept, AllowedRecord

LEMMA UpdateAudit ==
    ASSUME NEW caller, NEW id, NEW new, Audit("update", caller, "allowed", {id, new})
    PROVE  UpdateAdded(id, new) /\ audit_log \subseteq audit_log'
<1> DEFINE added == [operation |-> "update", caller |-> caller,
                     outcome |-> "allowed", affected |-> {id, new}]
<1>1. audit_log' = audit_log \cup {added}
  BY DEF Audit
<1>2. added.operation = "update" /\ added.outcome = "allowed"
      /\ added.affected = {id, new}
  OBVIOUS
<1> HIDE DEF added
<1>3. QED
  BY <1>1, <1>2 DEF UpdateAdded, AllowedRecord

(* What was a correction stays one, of the same event.                     *)
LEMMA CorrectionStays ==
    ASSUME audit_log \subseteq audit_log', EventIds \subseteq EventIds'
    PROVE  /\ \A id, new : new \in CorrectionsOf(id) => new \in CorrectionsOf(id)'
           /\ \A new : IsCorrection(new) => IsCorrection(new)'
<1>1. ASSUME NEW id, NEW new, new \in CorrectionsOf(id)
      PROVE  new \in CorrectionsOf(id)'
  BY <1>1, AllowedStays DEF CorrectionsOf
<1>2. QED
  BY <1>1 DEF IsCorrection

(* An audited update of an event and a later one makes that a correction.  *)
LEMMA CorrectionMade ==
    ASSUME NEW id \in Nat \ {0}, NEW new \in Nat, id < new, new \in EventIds',
           NEW caller, Audit("update", caller, "allowed", {id, new})
    PROVE  new \in CorrectionsOf(id)' /\ IsCorrection(new)'
<1>1. new \in CorrectionsOf(id)'
  BY AllowedWhenAudited DEF CorrectionsOf
<1>2. id \in 1 .. (new - 1)
  OBVIOUS
<1>3. QED
  BY <1>1, <1>2 DEF IsCorrection

(* Where no update is added, the corrections of stored events are those    *)
(* there were, and a new event neither is one nor has one.                 *)
LEMMA CorrectionsKept ==
    ASSUME EventIds \subseteq Nat, UpdatesNameEvents, UpdatesKept,
           \/ EventIds' = EventIds
           \/ \E new \in Nat \ EventIds : /\ EventIds' = EventIds \cup {new}
                                          /\ \A i \in EventIds : i < new
    PROVE  /\ UpdatesNameEvents'
           /\ \A i \in EventIds : CorrectionsOf(i)' = CorrectionsOf(i)
           /\ \A i \in EventIds' \ EventIds : CorrectionsOf(i)' = {}
<1>1. UpdatesNameEvents'
  BY DEF UpdatesNameEvents, UpdatesKept
<1>2. ASSUME NEW i \in EventIds', NEW j \in EventIds'
      PROVE  /\ {i, j} \in SUBSET Nat
             /\ AllowedRecord("update", {i, j})' => i \in EventIds /\ j \in EventIds
  BY DEF UpdatesNameEvents, UpdatesKept
<1>3. QED
  BY <1>1, <1>2 DEF CorrectionsOf, UpdatesKept

(* A correction is one more correction of the event it corrects.           *)
LEMMA CorrectionAdded ==
    ASSUME EventIds \subseteq Nat, UpdatesNameEvents, NEW id \in EventIds,
           NEW new \in Nat \ EventIds, UpdateAdded(id, new),
           EventIds' = EventIds \cup {new}, \A i \in EventIds : i < new
    PROVE  /\ UpdatesNameEvents'
           /\ \A i \in EventIds \ {id} : CorrectionsOf(i)' = CorrectionsOf(i)
           /\ CorrectionsOf(id)' = CorrectionsOf(id) \cup {new}
           /\ CorrectionsOf(new)' = {}
<1>1. UpdatesNameEvents'
  BY DEF UpdatesNameEvents, UpdateAdded
<1>2. ASSUME NEW i \in EventIds', NEW j \in EventIds', i < j
      PROVE  AllowedRecord("update", {i, j})'
                 <=> \/ AllowedRecord("update", {i, j}) /\ i \in EventIds /\ j \in EventIds
                     \/ i = id /\ j = new
  <2>1. {i, j} \in SUBSET Nat /\ id < new /\ id \in Nat
    OBVIOUS
  <2>2. AllowedRecord("update", {i, j})'
            <=> AllowedRecord("update", {i, j}) \/ {i, j} \subseteq {id, new}
    BY <2>1 DEF UpdateAdded
  <2>3. AllowedRecord("update", {i, j}) => i \in EventIds /\ j \in EventIds
    BY <2>1 DEF UpdatesNameEvents
  <2>4. {i, j} \subseteq {id, new} <=> i = id /\ j = new
    BY <1>2, <2>1
  <2>5. QED
    BY <2>2, <2>3, <2>4
<1>3. QED
  BY <1>1, <1>2 DEF CorrectionsOf

-----------------------------------------------------------------------------
(***************************************************************************)
(* What a step does to the rows of memory_events.  Only three actions      *)
(* change them: a record that is not a duplicate appends one row, a        *)
(* correction appends one and supersedes one, a deletion changes states.   *)
(***************************************************************************)
(* The rows after a new one is appended to those already stored.           *)
RowsAfterRecord(new, stored) ==
    /\ new \in Nat /\ new \notin EventIds
    /\ EventIds' = EventIds \cup {new}
    /\ \A i \in EventIds : /\ i \in Nat /\ i < new
                           /\ memory_events[i] \in MemoryEvent
                           /\ memory_events'[i] = memory_events[i]
    /\ memory_events'[new] = stored

LEMMA AppendRows ==
    ASSUME TypeOK, NEW stored \in MemoryEvent,
           memory_events' = Append(memory_events, stored),
           NEW new, new = Len(memory_events) + 1
    PROVE  RowsAfterRecord(new, stored)
<1>1. memory_events \in Seq(MemoryEvent)
  BY DEF TypeOK
<1>2. \A i \in DOMAIN memory_events : memory_events[i] \in MemoryEvent
  BY <1>1, ElementOfSeq, LenProperties
<1>3. QED
  BY <1>1, <1>2, AppendedRows DEF EventIds, RowsAfterRecord

(* A record that is neither denied nor a duplicate appends one row.        *)
LEMMA RecordRows ==
    ASSUME TypeOK, NEW caller \in Caller, NEW candidate \in Candidates,
           RecordNew(caller, candidate),
           NEW new, new = Len(memory_events) + 1
    PROVE  RowsAfterRecord(new,
               QuarantineIfContradictory(Construct(candidate)))
<1> DEFINE stored == QuarantineIfContradictory(Construct(candidate))
<1>1. stored \in MemoryEvent
  BY ConstructedEvent, QuarantinedEvent
<1>2. memory_events' = Append(memory_events, stored)
  BY DEF RecordNew
<1> HIDE DEF stored
<1>3. QED
  BY <1>1, <1>2, AppendRows DEF stored

(* What the state of a row does not touch.                                 *)
SameParts(event, other) ==
    /\ event.text = other.text
    /\ event.source_app = other.source_app
    /\ event.memory_layer = other.memory_layer
    /\ event.entities = other.entities
    /\ event.parents = other.parents
    /\ event.derived_from = other.derived_from
    /\ event.supersedes = other.supersedes

(* A row whose state is written keeps its other parts.                     *)
LEMMA StateAlone ==
    ASSUME NEW event \in MemoryEvent, NEW state
    PROVE  /\ [event EXCEPT !.state = state].state = state
           /\ SameParts([event EXCEPT !.state = state], event)
BY DEF MemoryEvent, SameParts

(* The rows after a correction of id by the event new.                     *)
RowsAfterCorrect(id, new) ==
    /\ new \in Nat /\ new \notin EventIds
    /\ EventIds' = EventIds \cup {new}
    /\ \A i \in EventIds : /\ i \in Nat /\ i < new
                           /\ memory_events[i] \in MemoryEvent
    /\ \A i \in EventIds \ {id} : memory_events'[i] = memory_events[i]
    /\ memory_events'[id] = [memory_events[id] EXCEPT !.state = "superseded"]
    /\ memory_events'[id].state = "superseded"
    /\ \A i \in EventIds : SameParts(memory_events'[i], memory_events[i])
    /\ memory_events'[new].state = "active"
    /\ memory_events'[new].parents = {id}
    /\ memory_events'[new].derived_from = {}
    /\ memory_events'[new].supersedes = {id}

LEMMA SupersedeRows ==
    ASSUME TypeOK, NEW id \in EventIds, NEW original \in MemoryEvent,
           NEW patch \in Patches,
           memory_events' =
               WithState(Append(memory_events, Corrected(original, id, patch)),
                         {id}, "superseded"),
           NEW new, new = Len(memory_events) + 1
    PROVE  RowsAfterCorrect(id, new)
<1> DEFINE successor == Corrected(original, id, patch)
<1> DEFINE appended == Append(memory_events, successor)
<1>1. memory_events \in Seq(MemoryEvent)
  BY DEF TypeOK
<1>2. \A i \in EventIds : i \in Nat /\ memory_events[i] \in MemoryEvent
  BY <1>1, ElementOfSeq, LenProperties DEF EventIds
<1>3. /\ successor \in MemoryEvent /\ successor.state = "active"
      /\ successor.parents = {id} /\ successor.derived_from = {}
      /\ successor.supersedes = {id}
  BY <1>2, CorrectedEvent
<1>4. memory_events' = WithState(appended, {id}, "superseded")
  BY DEF successor, appended
<1> HIDE DEF successor
<1>5. /\ appended \in Seq(MemoryEvent)
      /\ new \in Nat /\ new \notin EventIds
      /\ DOMAIN appended = EventIds \cup {new}
      /\ \A i \in EventIds : i < new /\ appended[i] = memory_events[i]
      /\ appended[new] = successor
  BY <1>1, <1>3, AppendedRows DEF EventIds
<1> HIDE DEF appended
<1>6. /\ DOMAIN memory_events' = DOMAIN appended
      /\ \A i \in DOMAIN appended :
            memory_events'[i] = IF i \in {id}
                                THEN [appended[i] EXCEPT !.state = "superseded"]
                                ELSE appended[i]
  BY <1>4 DEF WithState
<1>7. /\ \A i \in EventIds \ {id} : memory_events'[i] = memory_events[i]
      /\ memory_events'[id] = [memory_events[id] EXCEPT !.state = "superseded"]
      /\ memory_events'[new] = successor
  BY <1>5, <1>6
<1>8. /\ memory_events'[id].state = "superseded"
      /\ \A i \in EventIds : SameParts(memory_events'[i], memory_events[i])
  <2>1. \A i \in EventIds : SameParts(memory_events[i], memory_events[i])
    BY DEF SameParts
  <2>2. /\ [memory_events[id] EXCEPT !.state = "superseded"].state = "superseded"
        /\ SameParts([memory_events[id] EXCEPT !.state = "superseded"],
                     memory_events[id])
    BY <1>2, StateAlone
  <2>3. QED
    BY <1>7, <2>1, <2>2
<1>9. QED
  BY <1>2, <1>3, <1>5, <1>6, <1>7, <1>8 DEF EventIds, RowsAfterCorrect

(* A correction appends one row and supersedes one.                        *)
LEMMA CorrectRows ==
    ASSUME TypeOK, NEW caller \in Caller, NEW id \in EventIds, NEW patch \in Patches,
           CorrectAllowed(caller, id, patch),
           NEW new, new = Len(memory_events) + 1
    PROVE  RowsAfterCorrect(id, new)
<1>1. memory_events[id] \in MemoryEvent
  BY ElementOfSeq, LenProperties DEF TypeOK, EventIds
<1>2. QED
  BY <1>1, SupersedeRows DEF CorrectAllowed

(* The rows after the events ids are deleted.                              *)
RowsAfterDelete(ids) ==
    /\ EventIds' = EventIds
    /\ \A i \in EventIds : i \in Nat /\ memory_events[i] \in MemoryEvent
    /\ \A i \in EventIds \ ids :
          memory_events'[i] = memory_events[i]
    /\ \A i \in ids :
          /\ i \in EventIds
          /\ memory_events'[i] = [memory_events[i] EXCEPT !.state = "deleted"]
          /\ memory_events'[i].state = "deleted"
    /\ \A i \in EventIds : SameParts(memory_events'[i], memory_events[i])

LEMMA DeletedRows ==
    ASSUME TypeOK, NEW ids \in SUBSET EventIds,
           memory_events' = WithState(memory_events, ids, "deleted")
    PROVE  RowsAfterDelete(ids)
<1>1. memory_events \in Seq(MemoryEvent)
  BY DEF TypeOK
<1>2. \A i \in EventIds : i \in Nat /\ memory_events[i] \in MemoryEvent
  BY <1>1, ElementOfSeq, LenProperties DEF EventIds
<1>3. /\ DOMAIN memory_events' = DOMAIN memory_events
      /\ \A i \in DOMAIN memory_events :
            memory_events'[i] = IF i \in ids
                                THEN [memory_events[i] EXCEPT !.state = "deleted"]
                                ELSE memory_events[i]
  BY DEF WithState
<1>4. /\ \A i \in EventIds \ ids : memory_events'[i] = memory_events[i]
      /\ \A i \in ids :
            memory_events'[i] = [memory_events[i] EXCEPT !.state = "deleted"]
  BY <1>3 DEF EventIds
<1>5. /\ \A i \in ids : memory_events'[i].state = "deleted"
      /\ \A i \in EventIds : SameParts(memory_events'[i], memory_events[i])
  <2>1. \A i \in EventIds : SameParts(memory_events[i], memory_events[i])
    BY DEF SameParts
  <2>2. ASSUME NEW i \in EventIds
        PROVE  /\ [memory_events[i] EXCEPT !.state = "deleted"].state = "deleted"
               /\ SameParts([memory_events[i] EXCEPT !.state = "deleted"],
                            memory_events[i])
    BY <1>2, StateAlone
  <2>3. QED
    BY <1>4, <2>1, <2>2
<1>6. QED
  BY <1>2, <1>3, <1>4, <1>5 DEF EventIds, RowsAfterDelete

(* A deletion writes the state of what its selector reaches.               *)
LEMMA DeleteRows ==
    ASSUME TypeOK, NEW caller \in Caller, NEW selector \in Selectors,
           DeleteAllowed(caller, selector)
    PROVE  RowsAfterDelete(QueryEvents(selector))
<1>1. QueryEvents(selector) \in SUBSET EventIds
  BY DEF QueryEvents
<1>2. QED
  BY <1>1, DeletedRows DEF DeleteAllowed

(* The other steps: they keep the events and the tombstones, and change    *)
(* the projection only by rebuilding it.                                   *)
QuietStep ==
    /\ UNCHANGED <<memory_events, tombstones>>
    /\ \/ UNCHANGED relation_edges
       \/ RebuildRelationProjection
    /\ audit_log \subseteq audit_log'
    /\ UpdatesKept
    /\ \/ UNCHANGED permissions
       \/ \E grant \in DOMAIN permissions : Revoke(grant)
       \/ \E caller \in Caller, scope \in Scopes, duration \in Durations :
              Grant(caller, scope, duration)

(* Every step is one of the three or a quiet one.                          *)
LEMMA StepCases ==
    ASSUME [Next]_vars
    PROVE  \/ \E caller \in Caller, candidate \in Candidates :
                  RecordNew(caller, candidate)
           \/ \E caller \in Caller, id \in EventIds, patch \in Patches :
                  CorrectAllowed(caller, id, patch)
           \/ \E caller \in Caller, selector \in Selectors :
                  DeleteAllowed(caller, selector)
           \/ QuietStep
<1>1. ASSUME NEW operation, NEW caller, NEW id, Deny(operation, caller, id)
      PROVE  QuietStep
  BY <1>1, OtherAudit DEF Deny, QuietStep
<1>2. ASSUME NEW caller \in Caller, NEW candidate \in Candidates,
             Record(caller, candidate)
      PROVE  QuietStep \/ RecordNew(caller, candidate)
  <2>1. CASE RecordDenied(caller, candidate)
    BY <1>1, <2>1 DEF RecordDenied
  <2>2. CASE RecordDuplicate(caller, candidate)
    BY <2>2, OtherAudit DEF RecordDuplicate, QuietStep
  <2>3. QED
    BY <1>2, <2>1, <2>2 DEF Record
<1>3. ASSUME NEW caller \in Caller, CorrectNotFound(caller) PROVE QuietStep
  BY <1>1, <1>3 DEF CorrectNotFound
<1>4. ASSUME NEW caller \in Caller, NEW id \in EventIds, CorrectDenied(caller, id)
      PROVE  QuietStep
  BY <1>1, <1>4 DEF CorrectDenied
<1>5. ASSUME NEW caller \in Caller, NEW selector \in Selectors,
             DeleteDenied(caller, selector)
      PROVE  QuietStep
  BY <1>1, <1>5 DEF DeleteDenied
<1>6. ASSUME NEW caller \in Caller, NEW scope \in Scopes, NEW duration \in Durations,
             Grant(caller, scope, duration)
      PROVE  QuietStep
  BY <1>6, OtherAudit DEF Grant, QuietStep
<1>7. ASSUME NEW grant \in DOMAIN permissions, Revoke(grant) PROVE QuietStep
  BY <1>7, OtherAudit DEF Revoke, QuietStep
<1>8. CASE RevokeUnknown
  BY <1>8, OtherAudit DEF RevokeUnknown, QuietStep
<1>9. CASE RebuildRelationProjection
  BY <1>9 DEF RebuildRelationProjection, QuietStep, UpdatesKept, AllowedRecord
<1>10. CASE Tick \/ UNCHANGED vars
  BY <1>10 DEF Tick, vars, QuietStep, UpdatesKept, AllowedRecord
<1>11. QED
  BY <1>2, <1>3, <1>4, <1>5, <1>6, <1>7, <1>8, <1>9, <1>10 DEF Next

-----------------------------------------------------------------------------
(***************************************************************************)
(* The lifecycle invariants.  Each theorem adds one named part to the      *)
(* inductive invariant and uses the parts proved before it: the type, the  *)
(* links of supersession with what the updates of the audit log name, the  *)
(* tombstones, then the rest.  No part says anything of the lineage a      *)
(* caller supplied.                                                        *)
(***************************************************************************)

(* What the steps do to the links between an event and its corrections.    *)
LEMMA InsertKeepsLinks ==
    ASSUME UpdatesNameEvents, SupersessionIsLinked,
           NEW new, NEW stored, RowsAfterRecord(new, stored), UpdatesKept,
           stored.state \in {"active", "quarantined"}
    PROVE  UpdatesNameEvents' /\ SupersessionIsLinked'
<1>1. /\ new \in Nat \ EventIds /\ EventIds' = EventIds \cup {new}
      /\ EventIds \subseteq Nat /\ \A i \in EventIds : i < new
      /\ \A i \in EventIds : memory_events'[i] = memory_events[i]
      /\ memory_events'[new] = stored
  BY DEF RowsAfterRecord
<1>2. /\ UpdatesNameEvents'
      /\ \A i \in EventIds : CorrectionsOf(i)' = CorrectionsOf(i)
      /\ CorrectionsOf(new)' = {}
  BY <1>1, CorrectionsKept
<1>3. \A i \in EventIds : CorrectionsOf(i) \subseteq EventIds
  BY DEF CorrectionsOf
<1>4. ASSUME NEW i \in EventIds
      PROVE  /\ memory_events'[i].state = "superseded" => CorrectionsOf(i)' # {}
             /\ \A c \in CorrectionsOf(i)' :
                   /\ memory_events'[i].state \in {"superseded", "deleted"}
                   /\ memory_events'[c].parents = {i}
                   /\ memory_events'[c].supersedes = {i}
  <2>1. CorrectionsOf(i)' = CorrectionsOf(i) /\ CorrectionsOf(i) \subseteq EventIds
    BY <1>2, <1>3
  <2>2. /\ memory_events[i].state = "superseded" => CorrectionsOf(i) # {}
        /\ \A c \in CorrectionsOf(i) :
              /\ memory_events[i].state \in {"superseded", "deleted"}
              /\ memory_events[c].parents = {i}
              /\ memory_events[c].supersedes = {i}
    BY DEF SupersessionIsLinked
  <2>3. QED
    BY <1>1, <2>1, <2>2
<1>5. QED
  BY <1>1, <1>2, <1>4 DEF SupersessionIsLinked

LEMMA SupersedeKeepsLinks ==
    ASSUME UpdatesNameEvents, SupersessionIsLinked,
           NEW id \in EventIds, NEW new, RowsAfterCorrect(id, new),
           UpdateAdded(id, new)
    PROVE  UpdatesNameEvents' /\ SupersessionIsLinked'
<1>1. /\ new \in Nat \ EventIds /\ EventIds' = EventIds \cup {new}
      /\ EventIds \subseteq Nat /\ \A i \in EventIds : i < new
      /\ \A i \in EventIds \ {id} : memory_events'[i] = memory_events[i]
  BY DEF RowsAfterCorrect
<1>2. /\ memory_events'[id].state = "superseded"
      /\ memory_events'[id].parents = memory_events[id].parents
      /\ memory_events'[id].supersedes = memory_events[id].supersedes
  BY DEF RowsAfterCorrect, SameParts
<1>3. /\ memory_events'[new].state = "active"
      /\ memory_events'[new].parents = {id}
      /\ memory_events'[new].supersedes = {id}
  BY DEF RowsAfterCorrect
<1>4. /\ UpdatesNameEvents'
      /\ \A i \in EventIds \ {id} : CorrectionsOf(i)' = CorrectionsOf(i)
      /\ CorrectionsOf(id)' = CorrectionsOf(id) \cup {new}
      /\ CorrectionsOf(new)' = {}
  BY <1>1, CorrectionAdded
<1>5. \A i \in EventIds : CorrectionsOf(i) \subseteq EventIds
  BY DEF CorrectionsOf
<1>6. \A i \in EventIds :
          /\ memory_events'[i].parents = memory_events[i].parents
          /\ memory_events'[i].supersedes = memory_events[i].supersedes
  BY <1>1, <1>2
<1>7. ASSUME NEW i \in EventIds
      PROVE  /\ memory_events'[i].state = "superseded" => CorrectionsOf(i)' # {}
             /\ \A c \in CorrectionsOf(i)' :
                   /\ memory_events'[i].state \in {"superseded", "deleted"}
                   /\ memory_events'[c].parents = {i}
                   /\ memory_events'[c].supersedes = {i}
  <2>1. CASE i = id
    BY <1>2, <1>3, <1>4, <1>5, <1>6, <2>1 DEF SupersessionIsLinked
  <2>2. CASE i # id
    BY <1>1, <1>4, <1>5, <1>6, <2>2 DEF SupersessionIsLinked
  <2>3. QED
    BY <2>1, <2>2
<1>8. QED
  BY <1>1, <1>3, <1>4, <1>7 DEF SupersessionIsLinked

LEMMA DeleteKeepsLinks ==
    ASSUME UpdatesNameEvents, SupersessionIsLinked,
           NEW ids, RowsAfterDelete(ids), UpdatesKept
    PROVE  UpdatesNameEvents' /\ SupersessionIsLinked'
<1>1. /\ EventIds' = EventIds /\ EventIds \subseteq Nat
      /\ \A i \in EventIds :
            /\ memory_events'[i].parents = memory_events[i].parents
            /\ memory_events'[i].supersedes = memory_events[i].supersedes
            /\ memory_events'[i].state \in {memory_events[i].state, "deleted"}
  BY DEF RowsAfterDelete, SameParts
<1>2. /\ UpdatesNameEvents'
      /\ \A i \in EventIds : CorrectionsOf(i)' = CorrectionsOf(i)
  BY <1>1, CorrectionsKept
<1>3. \A i \in EventIds : CorrectionsOf(i) \subseteq EventIds
  BY DEF CorrectionsOf
<1>4. ASSUME NEW i \in EventIds
      PROVE  /\ memory_events'[i].state = "superseded" => CorrectionsOf(i)' # {}
             /\ \A c \in CorrectionsOf(i)' :
                   /\ memory_events'[i].state \in {"superseded", "deleted"}
                   /\ memory_events'[c].parents = {i}
                   /\ memory_events'[c].supersedes = {i}
  BY <1>1, <1>2, <1>3 DEF SupersessionIsLinked
<1>5. QED
  BY <1>1, <1>2, <1>4 DEF SupersessionIsLinked

LEMMA QuietKeepsLinks ==
    ASSUME EventIds \subseteq Nat, UpdatesNameEvents, SupersessionIsLinked, QuietStep
    PROVE  UpdatesNameEvents' /\ SupersessionIsLinked'
<1>1. memory_events' = memory_events /\ EventIds' = EventIds /\ UpdatesKept
  BY DEF QuietStep, EventIds
<1>2. /\ UpdatesNameEvents'
      /\ \A i \in EventIds : CorrectionsOf(i)' = CorrectionsOf(i)
  BY <1>1, CorrectionsKept
<1>3. QED
  BY <1>1, <1>2 DEF SupersessionIsLinked

(* Before the first event nothing is linked and no update is audited.      *)
LEMMA InitLinked == Init => UpdatesNameEvents /\ SupersessionIsLinked
BY DEF Init, UpdatesNameEvents, AllowedRecord, SupersessionIsLinked, EventIds

(* The links are inductive together with what the updates name: else the   *)
(* id of an event recorded later might already be named as a correction.   *)
LEMMA LinksHold == Spec => [](UpdatesNameEvents /\ SupersessionIsLinked)
<1>1. TypeOK /\ UpdatesNameEvents /\ SupersessionIsLinked /\ [Next]_vars
          => (UpdatesNameEvents /\ SupersessionIsLinked)'
  <2> SUFFICES ASSUME TypeOK, UpdatesNameEvents, SupersessionIsLinked, [Next]_vars
               PROVE  UpdatesNameEvents' /\ SupersessionIsLinked'
    OBVIOUS
  <2>1. PICK new : new = Len(memory_events) + 1
    OBVIOUS
  <2>2. ASSUME NEW caller \in Caller, NEW candidate \in Candidates,
               RecordNew(caller, candidate)
        PROVE  UpdatesNameEvents' /\ SupersessionIsLinked'
    <3> DEFINE event == Construct(candidate)
    <3> DEFINE stored == QuarantineIfContradictory(event)
    <3>1. RowsAfterRecord(new, stored)
      BY <2>1, <2>2, RecordRows
    <3>2. event \in MemoryEvent /\ event.state = "active"
      BY ConstructedEvent
    <3> HIDE DEF event
    <3>3. stored.state \in {"active", "quarantined"}
      BY <3>2, QuarantinedEvent
    <3> HIDE DEF stored
    <3>4. Audit("write", caller, "allowed", {Len(memory_events) + 1})
      BY <2>2 DEF RecordNew
    <3>5. QED
      BY <3>1, <3>3, <3>4, OtherAudit, InsertKeepsLinks
  <2>3. ASSUME NEW caller \in Caller, NEW id \in EventIds, NEW patch \in Patches,
               CorrectAllowed(caller, id, patch)
        PROVE  UpdatesNameEvents' /\ SupersessionIsLinked'
    <3>1. Audit("update", caller, "allowed", {id, new})
      BY <2>1, <2>3 DEF CorrectAllowed
    <3>2. QED
      BY <2>1, <2>3, <3>1, CorrectRows, UpdateAudit, SupersedeKeepsLinks
  <2>4. ASSUME NEW caller \in Caller, NEW selector \in Selectors,
               DeleteAllowed(caller, selector)
        PROVE  UpdatesNameEvents' /\ SupersessionIsLinked'
    <3>1. Audit("delete", caller, "allowed", QueryEvents(selector))
      BY <2>4 DEF DeleteAllowed
    <3>2. QED
      BY <2>4, <3>1, DeleteRows, OtherAudit, DeleteKeepsLinks
  <2>5. CASE QuietStep
    BY <2>5, LenProperties, QuietKeepsLinks DEF TypeOK, EventIds
  <2>6. QED
    BY <2>2, <2>3, <2>4, <2>5, StepCases
<1>2. QED
  BY InitLinked, <1>1, TypeCorrect, PTL DEF Spec

(***************************************************************************)
(* Supersession is linked in every state, whatever lineages callers supply:*)
(* the step that supersedes an event audits the correction and stores its  *)
(* lineage, and no later step rewrites a row or makes an event active.     *)
(***************************************************************************)
THEOREM SupersededIsLinked == Spec => []SupersessionIsLinked
<1>1. UpdatesNameEvents /\ SupersessionIsLinked => SupersessionIsLinked
  OBVIOUS
<1>2. QED
  BY <1>1, LinksHold, PTL

(* What the steps do to what the tombstones say.                           *)
LEMMA InsertKeepsTombstones ==
    ASSUME DeletionIsRepresented, NEW new, NEW stored,
           RowsAfterRecord(new, stored), stored.state # "deleted",
           UNCHANGED tombstones
    PROVE  DeletionIsRepresented'
<1>1. /\ EventIds' = EventIds \cup {new}
      /\ \A i \in EventIds : memory_events'[i] = memory_events[i]
      /\ memory_events'[new] = stored
  BY DEF RowsAfterRecord
<1>2. Tombstoned' = Tombstoned
  BY DEF Tombstoned
<1>3. QED
  BY <1>1, <1>2 DEF DeletionIsRepresented

LEMMA SupersedeKeepsTombstones ==
    ASSUME DeletionIsRepresented, NEW id \in EventIds, NEW new,
           RowsAfterCorrect(id, new), UNCHANGED tombstones
    PROVE  DeletionIsRepresented'
<1>1. /\ EventIds' = EventIds \cup {new}
      /\ \A i \in EventIds \ {id} : memory_events'[i] = memory_events[i]
  BY DEF RowsAfterCorrect
<1>2. memory_events'[id].state = "superseded" /\ memory_events'[new].state = "active"
  BY DEF RowsAfterCorrect
<1>3. Tombstoned' = Tombstoned
  BY DEF Tombstoned
<1>4. QED
  BY <1>1, <1>2, <1>3 DEF DeletionIsRepresented

LEMMA DeleteKeepsTombstones ==
    ASSUME DeletionIsRepresented, NEW ids, RowsAfterDelete(ids), NEW selector,
           tombstones' = tombstones \cup
               {[event_id |-> id, selector |-> selector] : id \in ids}
    PROVE  DeletionIsRepresented'
<1>1. /\ EventIds' = EventIds
      /\ ids \subseteq EventIds
      /\ \A i \in EventIds \ ids : memory_events'[i] = memory_events[i]
      /\ \A i \in ids : memory_events'[i].state = "deleted"
  BY DEF RowsAfterDelete
<1>2. Tombstoned' = Tombstoned \cup ids
  <2>1. \A row \in tombstones' : row \in tombstones \/ row.event_id \in ids
    OBVIOUS
  <2>2. ASSUME NEW id \in ids PROVE \E row \in tombstones' : row.event_id = id
    <3>1. [event_id |-> id, selector |-> selector] \in tombstones'
      OBVIOUS
    <3>2. [event_id |-> id, selector |-> selector].event_id = id
      OBVIOUS
    <3>3. QED
      BY <3>1, <3>2
  <2>3. QED
    BY <2>1, <2>2 DEF Tombstoned
<1>3. QED
  BY <1>1, <1>2 DEF DeletionIsRepresented

(***************************************************************************)
(* Deletion is represented in every state: an event reaches the deleted    *)
(* state together with its tombstone, and no step makes an event active    *)
(* that was not.                                                           *)
(***************************************************************************)
THEOREM DeletionRepresented == Spec => []DeletionIsRepresented
<1>1. Init => DeletionIsRepresented
  BY DEF Init, DeletionIsRepresented, EventIds, Tombstoned
<1>2. TypeOK /\ DeletionIsRepresented /\ [Next]_vars => DeletionIsRepresented'
  <2> SUFFICES ASSUME TypeOK, DeletionIsRepresented, [Next]_vars
               PROVE  DeletionIsRepresented'
    OBVIOUS
  <2>0. PICK new : new = Len(memory_events) + 1
    OBVIOUS
  <2>1. ASSUME NEW caller \in Caller, NEW candidate \in Candidates,
               RecordNew(caller, candidate)
        PROVE  DeletionIsRepresented'
    <3> DEFINE event == Construct(candidate)
    <3> DEFINE stored == QuarantineIfContradictory(event)
    <3>0. RowsAfterRecord(new, stored)
      BY <2>0, <2>1, RecordRows
    <3>1. stored.state # "deleted"
      <4>1. event \in MemoryEvent /\ event.state = "active"
        BY ConstructedEvent
      <4> HIDE DEF event
      <4>2. QED
        BY <4>1, QuarantinedEvent
    <3> HIDE DEF stored
    <3>2. QED
      BY <2>1, <3>0, <3>1, InsertKeepsTombstones DEF RecordNew
  <2>2. ASSUME NEW caller \in Caller, NEW id \in EventIds, NEW patch \in Patches,
               CorrectAllowed(caller, id, patch)
        PROVE  DeletionIsRepresented'
    <3>1. RowsAfterCorrect(id, new) /\ UNCHANGED tombstones
      BY <2>0, <2>2, CorrectRows DEF CorrectAllowed
    <3>2. QED
      BY <3>1, SupersedeKeepsTombstones
  <2>3. ASSUME NEW caller \in Caller, NEW selector \in Selectors,
               DeleteAllowed(caller, selector)
        PROVE  DeletionIsRepresented'
    <3> DEFINE ids == QueryEvents(selector)
    <3>1. RowsAfterDelete(ids)
      BY <2>3, DeleteRows
    <3>2. tombstones' = tombstones \cup
              {[event_id |-> id, selector |-> selector] : id \in ids}
      BY <2>3 DEF DeleteAllowed
    <3> HIDE DEF ids
    <3>3. QED
      BY <3>1, <3>2, DeleteKeepsTombstones
  <2>4. CASE QuietStep
    BY <2>4 DEF QuietStep, DeletionIsRepresented, Tombstoned, EventIds
  <2>5. QED
    BY <2>1, <2>2, <2>3, <2>4, StepCases
<1>3. QED
  BY <1>1, <1>2, TypeCorrect, PTL DEF Spec

(* An event that passed both checks conflicts with no active event.        *)
LEMMA PassedChecks ==
    ASSUME NEW event,
           Duplicates(event) = {}, Contradictions(event) = {},
           NEW old \in EventIds, memory_events[old].state = "active"
    PROVE  /\ ~IsDuplicate(memory_events[old], event)
           /\ ~IsContradiction(memory_events[old], event)
<1>1. ASSUME IsDuplicate(memory_events[old], event) PROVE FALSE
  <2>1. old \in ActiveEvents(event)
    BY <1>1 DEF ActiveEvents, IsDuplicate
  <2>2. QED
    BY <1>1, <2>1 DEF Duplicates
<1>2. ASSUME IsContradiction(memory_events[old], event) PROVE FALSE
  <2>1. old \in ActiveEvents(event)
    BY <1>2 DEF ActiveEvents, IsContradiction
  <2>2. QED
    BY <1>2, <2>1 DEF Contradictions
<1>3. QED
  BY <1>1, <1>2

(* What two events conflict over does not depend on their states.          *)
Comparable(event, other) ==
    /\ event.text = other.text
    /\ event.source_app = other.source_app
    /\ event.memory_layer = other.memory_layer
    /\ event.entities = other.entities

(* Whether two events conflict depends on what is compared alone.          *)
LEMMA ConflictOfParts ==
    ASSUME NEW old, NEW new, NEW old2, NEW new2,
           Comparable(old, old2), Comparable(new, new2)
    PROVE  /\ IsDuplicate(old, new) = IsDuplicate(old2, new2)
           /\ IsContradiction(old, new) = IsContradiction(old2, new2)
BY DEF Comparable, IsDuplicate, IsContradiction

(* Stored events that conflict after a step did so before, and the later   *)
(* one was a correction before.                                            *)
LEMMA ConflictsStay ==
    ASSUME OnlyCorrectionsConflict,
           audit_log \subseteq audit_log', EventIds \subseteq EventIds',
           \A i \in EventIds :
               /\ Comparable(memory_events[i], memory_events'[i])
               /\ memory_events'[i].state = "active" => memory_events[i].state = "active",
           NEW old \in EventIds, NEW new \in EventIds, old < new,
           memory_events'[old].state = "active",
           memory_events'[new].state = "active",
           \/ IsDuplicate(memory_events'[old], memory_events'[new])
           \/ IsContradiction(memory_events'[old], memory_events'[new])
    PROVE  IsCorrection(new)'
<1>1. IsCorrection(new)
  BY ConflictOfParts DEF OnlyCorrectionsConflict
<1>2. QED
  BY <1>1, CorrectionStays

(***************************************************************************)
(* Read before write, in every state: a record that passed the duplicate   *)
(* and contradiction checks conflicts with no active event, and no later   *)
(* step makes an event active or changes what was compared.                *)
(***************************************************************************)
THEOREM ConflictsAreCorrections == Spec => []OnlyCorrectionsConflict
<1>1. Init => OnlyCorrectionsConflict
  BY DEF Init, OnlyCorrectionsConflict, EventIds
<1>2. TypeOK /\ OnlyCorrectionsConflict /\ [Next]_vars => OnlyCorrectionsConflict'
  <2> SUFFICES ASSUME TypeOK, OnlyCorrectionsConflict, [Next]_vars
               PROVE  OnlyCorrectionsConflict'
    OBVIOUS
  <2>0. PICK row : row = Len(memory_events) + 1
    OBVIOUS
  <2>1. ASSUME NEW caller \in Caller, NEW candidate \in Candidates,
               RecordNew(caller, candidate)
        PROVE  OnlyCorrectionsConflict'
    <3> DEFINE event == Construct(candidate)
    <3> DEFINE stored == QuarantineIfContradictory(event)
    <3>0. RowsAfterRecord(row, stored)
      BY <2>0, <2>1, RecordRows
    <3>1. event \in MemoryEvent /\ event.state = "active"
      BY ConstructedEvent
    <3>2. Duplicates(event) = {}
      BY <2>1 DEF RecordNew
    <3>3. /\ row \in Nat /\ EventIds' = EventIds \cup {row}
          /\ \A i \in EventIds : i < row /\ i \in Nat /\ memory_events'[i] = memory_events[i]
          /\ memory_events'[row] = stored
      BY <3>0 DEF RowsAfterRecord
    <3> HIDE DEF event
    <3>4. stored.state = "active" => stored = event /\ Contradictions(event) = {}
      BY <3>1, QuarantinedEvent
    <3> HIDE DEF stored
    <3>5. ASSUME NEW old \in EventIds', NEW new \in EventIds', old < new,
                 memory_events'[old].state = "active",
                 memory_events'[new].state = "active",
                 \/ IsDuplicate(memory_events'[old], memory_events'[new])
                 \/ IsContradiction(memory_events'[old], memory_events'[new])
          PROVE  IsCorrection(new)'
      <4>1. CASE new = row
        <5>1. old \in EventIds
          BY <3>3, <3>5, <4>1
        <5>2. /\ memory_events'[new] = event /\ Contradictions(event) = {}
              /\ memory_events'[old] = memory_events[old]
          BY <3>3, <3>4, <3>5, <4>1, <5>1
        <5>3. QED
          BY <3>2, <3>5, <5>1, <5>2, PassedChecks
      <4>2. CASE new # row
        <5>1. old \in EventIds /\ new \in EventIds
          BY <3>3, <3>5, <4>2
        <5>2. /\ audit_log \subseteq audit_log' /\ EventIds \subseteq EventIds'
              /\ \A i \in EventIds : Comparable(memory_events[i], memory_events'[i])
          <6>1. Audit("write", caller, "allowed", {Len(memory_events) + 1})
            BY <2>1 DEF RecordNew
          <6>2. audit_log \subseteq audit_log'
            BY <6>1, OtherAudit
          <6>3. QED
            BY <3>3, <6>2 DEF Comparable
        <5>3. QED
          BY <3>3, <3>5, <5>1, <5>2, ConflictsStay
      <4>3. QED
        BY <4>1, <4>2
    <3>6. QED
      BY <3>5 DEF OnlyCorrectionsConflict, IsDuplicate, IsContradiction
  <2>2. ASSUME NEW caller \in Caller, NEW id \in EventIds, NEW patch \in Patches,
               CorrectAllowed(caller, id, patch)
        PROVE  OnlyCorrectionsConflict'
    <3>0. RowsAfterCorrect(id, row)
      BY <2>0, <2>2, CorrectRows
    <3>1. /\ row \in Nat /\ EventIds' = EventIds \cup {row}
          /\ \A i \in EventIds : i < row /\ i \in Nat
      BY <3>0 DEF RowsAfterCorrect, SameParts
    <3>2. Audit("update", caller, "allowed", {id, row})
      BY <2>0, <2>2 DEF CorrectAllowed
    <3>3. \A i \in EventIds :
              /\ Comparable(memory_events[i], memory_events'[i])
              /\ memory_events'[i].state = "active" => memory_events[i].state = "active"
      <4>1. /\ \A i \in EventIds \ {id} : memory_events'[i] = memory_events[i]
            /\ memory_events'[id].state = "superseded"
        BY <3>0 DEF RowsAfterCorrect
      <4>2. \A i \in EventIds : Comparable(memory_events[i], memory_events'[i])
        BY <3>0 DEF RowsAfterCorrect, SameParts, Comparable
      <4>3. QED
        BY <4>1, <4>2
    <3>4. audit_log \subseteq audit_log'
      BY <3>2, UpdateAudit
    <3>5. IsCorrection(row)'
      <4>1. id \in Nat \ {0}
        BY LenProperties DEF TypeOK, EventIds
      <4>2. QED
        BY <3>1, <3>2, <4>1, CorrectionMade
    <3>6. ASSUME NEW old \in EventIds', NEW new \in EventIds', old < new,
                 memory_events'[old].state = "active",
                 memory_events'[new].state = "active",
                 \/ IsDuplicate(memory_events'[old], memory_events'[new])
                 \/ IsContradiction(memory_events'[old], memory_events'[new])
          PROVE  IsCorrection(new)'
      <4>1. new # row => old \in EventIds /\ new \in EventIds
        BY <3>1, <3>6
      <4>2. QED
        BY <3>1, <3>3, <3>4, <3>5, <3>6, <4>1, ConflictsStay
    <3>7. QED
      BY <3>6 DEF OnlyCorrectionsConflict, IsDuplicate, IsContradiction
  <2>3. ASSUME NEW caller \in Caller, NEW selector \in Selectors,
               DeleteAllowed(caller, selector)
        PROVE  OnlyCorrectionsConflict'
    <3>0. RowsAfterDelete(QueryEvents(selector))
      BY <2>3, DeleteRows
    <3>1. EventIds' = EventIds
      BY <3>0 DEF RowsAfterDelete
    <3>2. \A i \in EventIds :
              /\ Comparable(memory_events[i], memory_events'[i])
              /\ memory_events'[i].state = "active" => memory_events[i].state = "active"
      BY <3>0 DEF RowsAfterDelete, SameParts, Comparable
    <3>3. audit_log \subseteq audit_log'
      BY <2>3, OtherAudit DEF DeleteAllowed
    <3>4. ASSUME NEW old \in EventIds, NEW new \in EventIds, old < new,
                 memory_events'[old].state = "active",
                 memory_events'[new].state = "active",
                 \/ IsDuplicate(memory_events'[old], memory_events'[new])
                 \/ IsContradiction(memory_events'[old], memory_events'[new])
          PROVE  IsCorrection(new)'
      BY <3>1, <3>2, <3>3, <3>4, ConflictsStay
    <3>5. QED
      BY <3>1, <3>4 DEF OnlyCorrectionsConflict, IsDuplicate, IsContradiction
  <2>4. CASE QuietStep
    <3>1. /\ memory_events' = memory_events /\ EventIds' = EventIds
          /\ audit_log \subseteq audit_log'
      BY <2>4 DEF QuietStep, EventIds
    <3>2. \A new : IsCorrection(new) => IsCorrection(new)'
      BY <3>1, CorrectionStays
    <3>3. QED
      BY <3>1, <3>2 DEF OnlyCorrectionsConflict, IsDuplicate, IsContradiction
  <2>5. QED
    BY <2>1, <2>2, <2>3, <2>4, StepCases
<1>3. QED
  BY <1>1, <1>2, TypeCorrect, PTL DEF Spec

(* A quarantined event keeps its evidence while rows change their state    *)
(* alone and nothing becomes quarantined.                                  *)
LEMMA EvidenceStays ==
    ASSUME TypeOK, QuarantineHasEvidence,
           NEW id \in EventIds, memory_events'[id].state = "quarantined",
           \A i \in EventIds :
               /\ SameParts(memory_events'[i], memory_events[i])
               /\ memory_events'[i].state = "quarantined" =>
                      memory_events[i].state = "quarantined"
    PROVE  \E evidence \in 1 .. (id - 1) :
               /\ memory_events'[id].parents = {evidence}
               /\ IsContradiction(memory_events'[evidence], memory_events'[id])
<1>1. PICK evidence \in 1 .. (id - 1) :
          /\ memory_events[id].parents = {evidence}
          /\ IsContradiction(memory_events[evidence], memory_events[id])
  BY DEF QuarantineHasEvidence
<1>2. evidence \in EventIds
  BY LenProperties DEF TypeOK, EventIds
<1>3. /\ SameParts(memory_events'[evidence], memory_events[evidence])
      /\ SameParts(memory_events'[id], memory_events[id])
  BY <1>2
<1>4. IsContradiction(memory_events'[evidence], memory_events'[id])
  BY <1>1, <1>3 DEF SameParts, IsContradiction
<1>5. QED
  BY <1>1, <1>3, <1>4 DEF SameParts

LEMMA InsertKeepsEvidence ==
    ASSUME TypeOK, QuarantineHasEvidence,
           NEW new, new = Len(memory_events) + 1, NEW stored,
           RowsAfterRecord(new, stored),
           stored.state = "quarantined" =>
               \E evidence \in EventIds :
                   /\ stored.parents = {evidence}
                   /\ IsContradiction(memory_events[evidence], stored)
    PROVE  QuarantineHasEvidence'
<1>1. /\ EventIds' = EventIds \cup {new}
      /\ memory_events'[new] = stored
      /\ \A i \in EventIds : memory_events'[i] = memory_events[i]
  BY DEF RowsAfterRecord
<1>2. EventIds = 1 .. (new - 1)
  BY LenProperties DEF TypeOK, EventIds
<1>3. \A i \in EventIds : SameParts(memory_events'[i], memory_events[i])
  BY <1>1 DEF SameParts
<1>4. ASSUME NEW id \in EventIds', memory_events'[id].state = "quarantined"
      PROVE  \E evidence \in 1 .. (id - 1) :
                 /\ memory_events'[id].parents = {evidence}
                 /\ IsContradiction(memory_events'[evidence], memory_events'[id])
  <2>1. CASE id = new
    BY <1>1, <1>2, <1>4, <2>1
  <2>2. CASE id \in EventIds
    BY <1>1, <1>3, <1>4, <2>2, EvidenceStays
  <2>3. QED
    BY <1>1, <2>1, <2>2
<1>5. QED
  BY <1>4 DEF QuarantineHasEvidence, IsContradiction

LEMMA SupersedeKeepsEvidence ==
    ASSUME TypeOK, QuarantineHasEvidence, NEW id \in EventIds, NEW new,
           RowsAfterCorrect(id, new)
    PROVE  QuarantineHasEvidence'
<1>1. /\ EventIds' = EventIds \cup {new}
      /\ memory_events'[new].state = "active"
      /\ \A i \in EventIds :
            /\ SameParts(memory_events'[i], memory_events[i])
            /\ memory_events'[i].state = "quarantined" =>
                   memory_events[i].state = "quarantined"
  BY DEF RowsAfterCorrect
<1>2. QED
  BY <1>1, EvidenceStays DEF QuarantineHasEvidence, IsContradiction

LEMMA DeleteKeepsEvidence ==
    ASSUME TypeOK, QuarantineHasEvidence, NEW ids, RowsAfterDelete(ids)
    PROVE  QuarantineHasEvidence'
<1>1. /\ EventIds' = EventIds
      /\ \A i \in EventIds :
            /\ SameParts(memory_events'[i], memory_events[i])
            /\ memory_events'[i].state = "quarantined" =>
                   memory_events[i].state = "quarantined"
  BY DEF RowsAfterDelete
<1>2. QED
  BY <1>1, EvidenceStays DEF QuarantineHasEvidence, IsContradiction

(* What the contradiction check makes of an event comes with evidence.     *)
LEMMA QuarantinedOnEvidence ==
    ASSUME TypeOK, NEW event \in MemoryEvent, event.state = "active",
           QuarantineIfContradictory(event).state = "quarantined"
    PROVE  \E evidence \in EventIds :
               /\ QuarantineIfContradictory(event).parents = {evidence}
               /\ IsContradiction(memory_events[evidence],
                                  QuarantineIfContradictory(event))
<1> DEFINE stored == QuarantineIfContradictory(event)
<1>1. PICK evidence \in Contradictions(event) : stored.parents = {evidence}
  BY QuarantinedEvent
<1>2. evidence \in EventIds /\ IsContradiction(memory_events[evidence], event)
  BY DEF Contradictions, ActiveEvents
<1>3. /\ stored.text = event.text /\ stored.source_app = event.source_app
      /\ stored.entities = event.entities
  BY QuarantinedEvent
<1>4. IsContradiction(memory_events[evidence], stored)
  BY <1>2, <1>3 DEF IsContradiction
<1>5. QED
  BY <1>1, <1>2, <1>4

(***************************************************************************)
(* A contradiction stays traceable in every state: the parent a quarantine *)
(* writes is stored at that moment, and neither its text nor that of the   *)
(* quarantined event ever changes.                                         *)
(***************************************************************************)
THEOREM QuarantineEvidenced == Spec => []QuarantineHasEvidence
<1>1. Init => QuarantineHasEvidence
  BY DEF Init, QuarantineHasEvidence, EventIds
<1>2. TypeOK /\ QuarantineHasEvidence /\ [Next]_vars => QuarantineHasEvidence'
  <2> SUFFICES ASSUME TypeOK, QuarantineHasEvidence, [Next]_vars
               PROVE  QuarantineHasEvidence'
    OBVIOUS
  <2>1. PICK new : new = Len(memory_events) + 1
    OBVIOUS
  <2>2. ASSUME NEW caller \in Caller, NEW candidate \in Candidates,
               RecordNew(caller, candidate)
        PROVE  QuarantineHasEvidence'
    <3> DEFINE event == Construct(candidate)
    <3> DEFINE stored == QuarantineIfContradictory(event)
    <3>1. RowsAfterRecord(new, stored)
      BY <2>1, <2>2, RecordRows
    <3>2. event \in MemoryEvent /\ event.state = "active"
      BY ConstructedEvent
    <3> HIDE DEF event
    <3>3. stored.state = "quarantined" =>
              \E evidence \in EventIds :
                  /\ stored.parents = {evidence}
                  /\ IsContradiction(memory_events[evidence], stored)
      BY <3>2, QuarantinedOnEvidence
    <3> HIDE DEF stored
    <3>4. QED
      BY <2>1, <3>1, <3>3, InsertKeepsEvidence
  <2>3. ASSUME NEW caller \in Caller, NEW id \in EventIds, NEW patch \in Patches,
               CorrectAllowed(caller, id, patch)
        PROVE  QuarantineHasEvidence'
    BY <2>1, <2>3, CorrectRows, SupersedeKeepsEvidence
  <2>4. ASSUME NEW caller \in Caller, NEW selector \in Selectors,
               DeleteAllowed(caller, selector)
        PROVE  QuarantineHasEvidence'
    BY <2>4, DeleteRows, DeleteKeepsEvidence
  <2>5. CASE QuietStep
    BY <2>5 DEF QuietStep, QuarantineHasEvidence, EventIds, IsContradiction
  <2>6. QED
    BY <2>2, <2>3, <2>4, <2>5, StepCases
<1>3. QED
  BY <1>1, <1>2, TypeCorrect, PTL DEF Spec

(***************************************************************************)
(* The projection follows the lifecycle in every state: the two actions    *)
(* that move a state write it to the edges in the same step, and a rebuild *)
(* starts from the active events.                                          *)
(***************************************************************************)
THEOREM ProjectionFollows == Spec => []EdgesFollowEvents
<1>1. Init => EdgesFollowEvents
  BY DEF Init, EdgesFollowEvents
<1>2. TypeOK /\ EdgesFollowEvents /\ [Next]_vars => EdgesFollowEvents'
  <2> SUFFICES ASSUME TypeOK, EdgesFollowEvents, [Next]_vars
               PROVE  EdgesFollowEvents'
    OBVIOUS
  <2>1. PICK row : row = Len(memory_events) + 1
    OBVIOUS
  <2>2. ASSUME NEW caller \in Caller, NEW candidate \in Candidates,
               RecordNew(caller, candidate)
        PROVE  EdgesFollowEvents'
    <3> DEFINE stored == QuarantineIfContradictory(Construct(candidate))
    <3>1. RowsAfterRecord(row, stored)
      BY <2>1, <2>2, RecordRows
    <3> HIDE DEF stored
    <3>2. relation_edges' = relation_edges
      BY <2>2 DEF RecordNew
    <3>3. /\ EventIds' = EventIds \cup {row}
          /\ \A i \in EventIds : memory_events'[i] = memory_events[i]
      BY <3>1 DEF RowsAfterRecord
    <3>4. QED
      BY <3>2, <3>3 DEF EdgesFollowEvents
  <2>3. ASSUME NEW caller \in Caller, NEW id \in EventIds, NEW patch \in Patches,
               CorrectAllowed(caller, id, patch)
        PROVE  EdgesFollowEvents'
    <3>1. RowsAfterCorrect(id, row)
      BY <2>1, <2>3, CorrectRows
    <3>2. relation_edges' = EdgesWithState({id}, "superseded")
      BY <2>3 DEF CorrectAllowed
    <3>3. /\ EventIds' = EventIds \cup {row}
          /\ \A i \in EventIds \ {id} : memory_events'[i] = memory_events[i]
          /\ memory_events'[id].state = "superseded"
      BY <3>1 DEF RowsAfterCorrect
    <3>4. QED
      BY <3>2, <3>3 DEF EdgesFollowEvents, EdgesWithState
  <2>4. ASSUME NEW caller \in Caller, NEW selector \in Selectors,
               DeleteAllowed(caller, selector)
        PROVE  EdgesFollowEvents'
    <3> DEFINE ids == QueryEvents(selector)
    <3>1. RowsAfterDelete(ids)
      BY <2>4, DeleteRows
    <3>2. relation_edges' = EdgesWithState(ids, "deleted")
      BY <2>4 DEF DeleteAllowed
    <3> HIDE DEF ids
    <3>3. /\ EventIds' = EventIds
          /\ \A i \in EventIds \ ids : memory_events'[i] = memory_events[i]
          /\ \A i \in ids : memory_events'[i].state = "deleted"
      BY <3>1 DEF RowsAfterDelete
    <3>4. QED
      BY <3>2, <3>3 DEF EdgesFollowEvents, EdgesWithState
  <2>5. CASE QuietStep
    <3>1. CASE RebuildRelationProjection
      BY <3>1 DEF RebuildRelationProjection, RebuiltIds, EdgesFollowEvents, EventIds
    <3>2. CASE UNCHANGED relation_edges
      BY <2>5, <3>2 DEF QuietStep, EdgesFollowEvents, EventIds
    <3>3. QED
      BY <2>5, <3>1, <3>2 DEF QuietStep
  <2>6. QED
    BY <2>2, <2>3, <2>4, <2>5, StepCases
<1>3. QED
  BY <1>1, <1>2, TypeCorrect, PTL DEF Spec

(* A row that keeps what it supersedes stays audited.                      *)
LEMMA RowStaysAudited ==
    ASSUME ChangesAreAudited, audit_log \subseteq audit_log',
           EventIds \subseteq EventIds', NEW id \in EventIds,
           memory_events'[id].supersedes = memory_events[id].supersedes
    PROVE  \/ AllowedRecord("write", {id})'
           \/ \E old \in memory_events'[id].supersedes : id \in CorrectionsOf(old)'
BY AllowedStays, CorrectionStays DEF ChangesAreAudited

LEMMA InsertKeepsAudited ==
    ASSUME ChangesAreAudited, NEW new, NEW stored, NEW caller,
           RowsAfterRecord(new, stored), UNCHANGED tombstones,
           Audit("write", caller, "allowed", {new})
    PROVE  ChangesAreAudited'
<1>1. /\ EventIds' = EventIds \cup {new}
      /\ \A i \in EventIds : memory_events'[i] = memory_events[i]
  BY DEF RowsAfterRecord
<1>2. AllowedRecord("write", {new})' /\ audit_log \subseteq audit_log'
  BY AllowedWhenAudited
<1>3. Tombstoned' = Tombstoned
  BY DEF Tombstoned
<1>4. \A id \in Tombstoned : AllowedRecord("delete", {id})'
  BY <1>2, AllowedStays DEF ChangesAreAudited
<1>5. QED
  BY <1>1, <1>2, <1>3, <1>4, RowStaysAudited DEF ChangesAreAudited

LEMMA SupersedeKeepsAudited ==
    ASSUME ChangesAreAudited, NEW id \in EventIds, NEW new, NEW caller,
           RowsAfterCorrect(id, new), UNCHANGED tombstones,
           Audit("update", caller, "allowed", {id, new})
    PROVE  ChangesAreAudited'
<1>1. /\ EventIds' = EventIds \cup {new} /\ id < new
      /\ memory_events'[new].supersedes = {id}
      /\ \A i \in EventIds :
            memory_events'[i].supersedes = memory_events[i].supersedes
  BY DEF RowsAfterCorrect, SameParts
<1>2. new \in CorrectionsOf(id)' /\ audit_log \subseteq audit_log'
  BY <1>1, AllowedWhenAudited DEF CorrectionsOf
<1>3. Tombstoned' = Tombstoned
  BY DEF Tombstoned
<1>4. \A i \in Tombstoned : AllowedRecord("delete", {i})'
  BY <1>2, AllowedStays DEF ChangesAreAudited
<1>5. QED
  BY <1>1, <1>2, <1>3, <1>4, RowStaysAudited DEF ChangesAreAudited

LEMMA DeleteKeepsAudited ==
    ASSUME ChangesAreAudited, NEW ids, NEW caller, NEW selector,
           RowsAfterDelete(ids),
           tombstones' = tombstones \cup
               {[event_id |-> id, selector |-> selector] : id \in ids},
           Audit("delete", caller, "allowed", ids)
    PROVE  ChangesAreAudited'
<1>1. /\ EventIds' = EventIds
      /\ \A i \in EventIds :
            memory_events'[i].supersedes = memory_events[i].supersedes
  BY DEF RowsAfterDelete, SameParts
<1>2. /\ audit_log \subseteq audit_log'
      /\ \A i \in ids : AllowedRecord("delete", {i})'
  <2>1. {} \subseteq ids /\ \A i \in ids : {i} \subseteq ids
    OBVIOUS
  <2>2. QED
    BY <2>1, AllowedWhenAudited
<1>3. \A i \in Tombstoned' : i \in Tombstoned \/ i \in ids
  BY DEF Tombstoned
<1>4. \A i \in Tombstoned' : AllowedRecord("delete", {i})'
  BY <1>2, <1>3, AllowedStays DEF ChangesAreAudited
<1>5. QED
  BY <1>1, <1>2, <1>4, RowStaysAudited DEF ChangesAreAudited

(***************************************************************************)
(* Every change of the canonical memory is in the audit log in every state:*)
(* the record is written in the step of the change, and the log only grows.*)
(***************************************************************************)
THEOREM ChangesAudited == Spec => []ChangesAreAudited
<1>1. Init => ChangesAreAudited
  BY DEF Init, ChangesAreAudited, EventIds, Tombstoned
<1>2. TypeOK /\ ChangesAreAudited /\ [Next]_vars => ChangesAreAudited'
  <2> SUFFICES ASSUME TypeOK, ChangesAreAudited, [Next]_vars
               PROVE  ChangesAreAudited'
    OBVIOUS
  <2>1. PICK new : new = Len(memory_events) + 1
    OBVIOUS
  <2>2. ASSUME NEW caller \in Caller, NEW candidate \in Candidates,
               RecordNew(caller, candidate)
        PROVE  ChangesAreAudited'
    <3> DEFINE stored == QuarantineIfContradictory(Construct(candidate))
    <3>1. RowsAfterRecord(new, stored)
      BY <2>1, <2>2, RecordRows
    <3> HIDE DEF stored
    <3>2. UNCHANGED tombstones /\ Audit("write", caller, "allowed", {new})
      BY <2>1, <2>2 DEF RecordNew
    <3>3. QED
      BY <3>1, <3>2, InsertKeepsAudited
  <2>3. ASSUME NEW caller \in Caller, NEW id \in EventIds, NEW patch \in Patches,
               CorrectAllowed(caller, id, patch)
        PROVE  ChangesAreAudited'
    <3>1. RowsAfterCorrect(id, new)
      BY <2>1, <2>3, CorrectRows
    <3>2. UNCHANGED tombstones /\ Audit("update", caller, "allowed", {id, new})
      BY <2>1, <2>3 DEF CorrectAllowed
    <3>3. QED
      BY <3>1, <3>2, SupersedeKeepsAudited
  <2>4. ASSUME NEW caller \in Caller, NEW selector \in Selectors,
               DeleteAllowed(caller, selector)
        PROVE  ChangesAreAudited'
    <3> DEFINE ids == QueryEvents(selector)
    <3>1. RowsAfterDelete(ids)
      BY <2>4, DeleteRows
    <3>2. /\ tombstones' = tombstones \cup
                 {[event_id |-> id, selector |-> selector] : id \in ids}
          /\ Audit("delete", caller, "allowed", ids)
      BY <2>4 DEF DeleteAllowed
    <3> HIDE DEF ids
    <3>3. QED
      BY <3>1, <3>2, DeleteKeepsAudited
  <2>5. CASE QuietStep
    <3>1. /\ EventIds' = EventIds /\ Tombstoned' = Tombstoned
          /\ memory_events' = memory_events
          /\ audit_log \subseteq audit_log'
      BY <2>5 DEF QuietStep, EventIds, Tombstoned
    <3>2. \A i \in Tombstoned : AllowedRecord("delete", {i})'
      BY <3>1, AllowedStays DEF ChangesAreAudited
    <3>3. QED
      BY <3>1, <3>2, RowStaysAudited DEF ChangesAreAudited
  <2>6. QED
    BY <2>2, <2>3, <2>4, <2>5, StepCases
<1>3. QED
  BY <1>1, <1>2, TypeCorrect, PTL DEF Spec

(* Writing the state a row has leaves the row as it is.                    *)
LEMMA StateOfRow ==
    ASSUME TypeOK, NEW i \in EventIds
    PROVE  memory_events[i] =
               [memory_events[i] EXCEPT !.state = memory_events[i].state]
<1>1. memory_events[i] \in MemoryEvent
  BY ElementOfSeq, LenProperties DEF TypeOK, EventIds
<1>2. QED
  BY <1>1 DEF MemoryEvent

LEMMA InsertKeepsHistory ==
    ASSUME TypeOK, NEW new, NEW stored, RowsAfterRecord(new, stored),
           UNCHANGED <<permissions, tombstones>>, audit_log \subseteq audit_log'
    PROVE  KeepsHistory
<1>1. /\ EventIds' = EventIds \cup {new}
      /\ \A i \in EventIds : memory_events'[i] = memory_events[i]
  BY DEF RowsAfterRecord
<1>2. QED
  BY <1>1, StateOfRow DEF KeepsHistory, MayBecome, EventIds

LEMMA SupersedeKeepsHistory ==
    ASSUME TypeOK, NEW id \in EventIds, NEW new, RowsAfterCorrect(id, new),
           UNCHANGED <<permissions, tombstones>>, audit_log \subseteq audit_log'
    PROVE  KeepsHistory
<1>1. /\ EventIds' = EventIds \cup {new}
      /\ \A i \in EventIds \ {id} : memory_events'[i] = memory_events[i]
      /\ memory_events'[id] = [memory_events[id] EXCEPT !.state = "superseded"]
      /\ memory_events'[id].state = "superseded"
  BY DEF RowsAfterCorrect
<1>2. QED
  BY <1>1, StateOfRow DEF KeepsHistory, MayBecome, EventIds

LEMMA DeleteKeepsHistory ==
    ASSUME TypeOK, NEW ids, RowsAfterDelete(ids),
           UNCHANGED permissions, tombstones \subseteq tombstones',
           audit_log \subseteq audit_log'
    PROVE  KeepsHistory
<1>1. /\ EventIds' = EventIds
      /\ \A i \in EventIds \ ids : memory_events'[i] = memory_events[i]
      /\ \A i \in ids :
            /\ memory_events'[i] = [memory_events[i] EXCEPT !.state = "deleted"]
            /\ memory_events'[i].state = "deleted"
  BY DEF RowsAfterDelete
<1>2. QED
  BY <1>1, StateOfRow DEF KeepsHistory, MayBecome, EventIds

LEMMA QuietKeepsHistory ==
    ASSUME TypeOK, QuietStep
    PROVE  KeepsHistory
<1>1. \A g \in DOMAIN permissions : permissions[g].revoked => permissions'[g].revoked
  <2>1. /\ Len(permissions) \in Nat /\ DOMAIN permissions = 1 .. Len(permissions)
        /\ \A g \in DOMAIN permissions : permissions[g] \in PermissionGrant
    BY ElementOfSeq, LenProperties DEF TypeOK
  <2>2. ASSUME NEW grant \in DOMAIN permissions, Revoke(grant),
               NEW g \in DOMAIN permissions, permissions[g].revoked
        PROVE  permissions'[g].revoked
    BY <2>1, <2>2 DEF Revoke, PermissionGrant
  <2>3. ASSUME NEW caller \in Caller, NEW scope \in Scopes,
               NEW duration \in Durations, Grant(caller, scope, duration),
               NEW g \in DOMAIN permissions
        PROVE  permissions'[g] = permissions[g]
    <3>1. PICK grant : permissions' = Append(permissions, grant)
      BY <2>3 DEF Grant
    <3>2. QED
      BY <2>1, <3>1 DEF TypeOK
  <2>4. QED
    BY <2>2, <2>3 DEF QuietStep
<1>2. /\ memory_events' = memory_events /\ tombstones' = tombstones
      /\ audit_log \subseteq audit_log'
  BY DEF QuietStep
<1>3. QED
  BY <1>1, <1>2, StateOfRow DEF KeepsHistory, MayBecome, EventIds

(***************************************************************************)
(* History is kept by every step: no action removes or rewrites an event,  *)
(* an audit record, a tombstone or a revocation.                           *)
(***************************************************************************)
THEOREM HistoryKept == Spec => HistoryIsKept
<1>1. TypeOK /\ [Next]_vars => [KeepsHistory]_vars
  <2> SUFFICES ASSUME TypeOK, [Next]_vars PROVE KeepsHistory
    OBVIOUS
  <2>1. PICK new : new = Len(memory_events) + 1
    OBVIOUS
  <2>2. ASSUME NEW caller \in Caller, NEW candidate \in Candidates,
               RecordNew(caller, candidate)
        PROVE  KeepsHistory
    <3>1. UNCHANGED <<permissions, tombstones>> /\ audit_log \subseteq audit_log'
      BY <2>2 DEF RecordNew, Audit
    <3>2. QED
      BY <2>1, <2>2, <3>1, RecordRows, InsertKeepsHistory
  <2>3. ASSUME NEW caller \in Caller, NEW id \in EventIds, NEW patch \in Patches,
               CorrectAllowed(caller, id, patch)
        PROVE  KeepsHistory
    <3>1. UNCHANGED <<permissions, tombstones>> /\ audit_log \subseteq audit_log'
      BY <2>3 DEF CorrectAllowed, Audit
    <3>2. QED
      BY <2>1, <2>3, <3>1, CorrectRows, SupersedeKeepsHistory
  <2>4. ASSUME NEW caller \in Caller, NEW selector \in Selectors,
               DeleteAllowed(caller, selector)
        PROVE  KeepsHistory
    <3>1. /\ UNCHANGED permissions /\ tombstones \subseteq tombstones'
          /\ audit_log \subseteq audit_log'
      BY <2>4 DEF DeleteAllowed, Audit
    <3>2. QED
      BY <2>4, <3>1, DeleteRows, DeleteKeepsHistory
  <2>5. QED
    BY <2>2, <2>3, <2>4, QuietKeepsHistory, StepCases
<1>2. QED
  BY <1>1, TypeCorrect, PTL DEF Spec, HistoryIsKept

-----------------------------------------------------------------------------
(***************************************************************************)
(* The authorisation properties.                                           *)
(***************************************************************************)

(* A scope that admits an operation is indexed under it or under the       *)
(* wildcard.                                                               *)
LEMMA IndexCoversScope ==
    ASSUME NEW scope \in PermissionScope, NEW operation \in AuditOperation,
           Allows(scope.operations, operation)
    PROVE  OperationIndexValue(scope) \in {operation, AnyOperation}
<1>1. CASE \E only \in AuditOperation : scope.operations = {only}
  <2>1. PICK only \in AuditOperation : scope.operations = {only}
    BY <1>1
  <2>2. only = operation
    BY <2>1 DEF Allows
  <2>3. \A other \in AuditOperation : scope.operations = {other} <=> other = only
    BY <2>1
  <2>4. (CHOOSE other \in AuditOperation : scope.operations = {other}) = only
    BY <2>1, <2>3
  <2>5. QED
    BY <1>1, <2>2, <2>4 DEF OperationIndexValue
<1>2. CASE ~\E only \in AuditOperation : scope.operations = {only}
  BY <1>2 DEF OperationIndexValue
<1>3. QED
  BY <1>1, <1>2

(* Over well-indexed rows the check that reads the index and the reference *)
(* definition of access agree.                                             *)
LEMMA IndexIsExact ==
    ASSUME NEW rows \in Seq(PermissionGrant), WellIndexed(rows),
           NEW caller, NEW operation \in AuditOperation, NEW event, NEW at
    PROVE  CanAccess(rows, caller, operation, event, at)
               <=> HoldsGrant(rows, caller, operation, event, at)
<1>1. CanAccess(rows, caller, operation, event, at)
          => HoldsGrant(rows, caller, operation, event, at)
  BY DEF CanAccess, HoldsGrant, IsCandidateGrant
<1>2. ASSUME HoldsGrant(rows, caller, operation, event, at)
      PROVE  CanAccess(rows, caller, operation, event, at)
  <2>1. PICK g \in DOMAIN rows :
            /\ rows[g].caller = caller
            /\ IsActive(rows[g], at)
            /\ Matches(rows[g].scope, operation, event)
    BY <1>2 DEF HoldsGrant
  <2>2. rows[g].scope \in PermissionScope
    <3>1. rows[g] \in PermissionGrant
      BY ElementOfSeq, LenProperties
    <3>2. QED
      BY <3>1 DEF PermissionGrant
  <2>3. rows[g].operation \in {operation, AnyOperation}
    BY <2>1, <2>2, IndexCoversScope DEF Matches, WellIndexed
  <2>4. rows[g].granted_at <= at /\ rows[g].expires_at >= at /\ ~rows[g].revoked
    BY <2>1 DEF IsActive
  <2>5. IsCandidateGrant(rows[g], caller, operation, at)
    BY <2>1, <2>3, <2>4 DEF IsCandidateGrant
  <2>6. QED
    BY <2>1, <2>5 DEF CanAccess
<1>3. QED
  BY <1>1, <1>2

(* The rows of the permissions table are well indexed: a grant writes the  *)
(* index value of its scope, a revocation touches neither.                 *)
LEMMA RowsWellIndexed == Spec => []WellIndexed(permissions)
<1>1. Init => WellIndexed(permissions)
  BY DEF Init, WellIndexed
<1>2. TypeOK /\ WellIndexed(permissions) /\ [Next]_vars => WellIndexed(permissions)'
  <2> SUFFICES ASSUME TypeOK, WellIndexed(permissions), [Next]_vars
               PROVE  WellIndexed(permissions)'
    OBVIOUS
  <2>1. /\ Len(permissions) \in Nat /\ DOMAIN permissions = 1 .. Len(permissions)
        /\ permissions \in Seq(PermissionGrant)
        /\ \A g \in DOMAIN permissions : permissions[g] \in PermissionGrant
    BY ElementOfSeq, LenProperties DEF TypeOK
  <2>2. CASE UNCHANGED permissions
    BY <2>2 DEF WellIndexed
  <2>3. ASSUME NEW grant \in DOMAIN permissions, Revoke(grant)
        PROVE  WellIndexed(permissions)'
    <3>1. \A g \in DOMAIN permissions :
              /\ permissions'[g].scope = permissions[g].scope
              /\ permissions'[g].operation = permissions[g].operation
      BY <2>1, <2>3 DEF Revoke, PermissionGrant
    <3>2. DOMAIN permissions' = DOMAIN permissions
      BY <2>3 DEF Revoke
    <3>3. QED
      BY <3>1, <3>2 DEF WellIndexed
  <2>4. ASSUME NEW caller \in Caller, NEW scope \in Scopes, NEW duration \in Durations,
               Grant(caller, scope, duration)
        PROVE  WellIndexed(permissions)'
    <3>1. PICK grant : /\ permissions' = Append(permissions, grant)
                       /\ grant.scope = scope
                       /\ grant.operation = OperationIndexValue(scope)
      BY <2>4 DEF Grant
    <3>2. /\ DOMAIN permissions' = 1 .. Len(permissions) + 1
          /\ \A g \in DOMAIN permissions : permissions'[g] = permissions[g]
          /\ permissions'[Len(permissions) + 1] = grant
      BY <2>1, <3>1
    <3>3. QED
      BY <2>1, <3>1, <3>2 DEF WellIndexed
  <2>5. CASE QuietStep
    BY <2>2, <2>3, <2>4, <2>5 DEF QuietStep
  <2>6. QED
    BY <2>2, <2>5, StepCases DEF RecordNew, CorrectAllowed, DeleteAllowed
<1>3. QED
  BY <1>1, <1>2, TypeCorrect, PTL DEF Spec

(***************************************************************************)
(* The index over the permissions table changes no decision, in any state  *)
(* of any instance and for every stored event.                             *)
(***************************************************************************)
THEOREM IndexExact == Spec => []IndexChangesNoDecision
<1>1. TypeOK /\ WellIndexed(permissions) => IndexChangesNoDecision
  BY IndexIsExact DEF TypeOK, IndexChangesNoDecision
<1>2. QED
  BY <1>1, TypeCorrect, RowsWellIndexed, PTL

(* An allowed operation is one the reference definition admits.            *)
LEMMA AllowedHolds ==
    ASSUME NEW caller, NEW operation, NEW event, Allowed(caller, operation, event)
    PROVE  HoldsGrant(permissions, caller, operation, event, now)
BY DEF Allowed, CanAccess, HoldsGrant, IsCandidateGrant

(* Access does not depend on the state or the lineage of an event.         *)
LEMMA AccessOfParts ==
    ASSUME NEW caller, NEW operation, NEW event, NEW stored,
           HoldsGrant(permissions, caller, operation, event, now),
           stored.source_app = event.source_app,
           stored.memory_layer = event.memory_layer,
           stored.privacy_level = event.privacy_level,
           stored.entities = event.entities,
           stored.valid_at = event.valid_at
    PROVE  HoldsGrant(permissions, caller, operation, stored, now)
BY DEF HoldsGrant, Matches

(***************************************************************************)
(* Every effect is authorised as a whole, in every step of every instance: *)
(* what is stored after the contradiction check is what was checked but    *)
(* for its lifecycle, and a deletion touches exactly its preflight's       *)
(* selection.                                                              *)
(***************************************************************************)
THEOREM EffectsAuthorized == Spec => EffectsAreAuthorized
<1>1. TypeOK /\ [Next]_vars => [HasAuthorizedEffects]_vars
  <2> SUFFICES ASSUME TypeOK, [Next]_vars PROVE HasAuthorizedEffects
    OBVIOUS
  <2>1. PICK row : row = Len(memory_events) + 1
    OBVIOUS
  <2>2. ASSUME NEW caller \in Caller, NEW candidate \in Candidates,
               RecordNew(caller, candidate)
        PROVE  AuthorizedBy(caller)
    <3> DEFINE event == Construct(candidate)
    <3> DEFINE stored == QuarantineIfContradictory(event)
    <3>1. RowsAfterRecord(row, stored)
      BY <2>1, <2>2, RecordRows
    <3>2. event \in MemoryEvent /\ event.state = "active"
      BY ConstructedEvent
    <3>3. Allowed(caller, "write", event)
      BY <2>2 DEF RecordNew
    <3> HIDE DEF event
    <3>4. HoldsGrant(permissions, caller, "write", event, now)
      BY <3>3, AllowedHolds
    <3>5. HoldsGrant(permissions, caller, "write", stored, now)
      <4>1. /\ stored.source_app = event.source_app
            /\ stored.memory_layer = event.memory_layer
            /\ stored.privacy_level = event.privacy_level
            /\ stored.entities = event.entities
            /\ stored.valid_at = event.valid_at
        BY <3>2, QuarantinedEvent
      <4> HIDE DEF stored
      <4>2. QED
        BY <3>4, <4>1, AccessOfParts
    <3> HIDE DEF stored
    <3>6. /\ EventIds' = EventIds \cup {row}
          /\ \A i \in EventIds : memory_events'[i] = memory_events[i]
          /\ memory_events'[row] = stored
      BY <3>1 DEF RowsAfterRecord
    <3>7. /\ MovedTo("deleted") = {} /\ MovedTo("superseded") = {}
          /\ Recorded \subseteq {row}
      BY <3>6 DEF MovedTo, Recorded, EventIds
    <3>8. QED
      BY <3>5, <3>6, <3>7 DEF AuthorizedBy
  <2>3. ASSUME NEW caller \in Caller, NEW id \in EventIds, NEW patch \in Patches,
               CorrectAllowed(caller, id, patch)
        PROVE  AuthorizedBy(caller)
    <3>1. RowsAfterCorrect(id, row)
      BY <2>1, <2>3, CorrectRows
    <3>2. HoldsGrant(permissions, caller, "update", memory_events[id], now)
      BY <2>3, AllowedHolds DEF CorrectAllowed
    <3>3. /\ EventIds' = EventIds \cup {row}
          /\ \A i \in EventIds \ {id} : memory_events'[i] = memory_events[i]
          /\ memory_events'[id].state = "superseded"
          /\ row \in Nat /\ id < row
      BY <3>1 DEF RowsAfterCorrect
    <3>4. IsCorrection(row)'
      <4>1. id \in Nat \ {0}
        BY LenProperties DEF TypeOK, EventIds
      <4>2. Audit("update", caller, "allowed", {id, row})
        BY <2>1, <2>3 DEF CorrectAllowed
      <4>3. QED
        BY <3>3, <4>1, <4>2, CorrectionMade
    <3>5. /\ MovedTo("deleted") = {} /\ MovedTo("superseded") \subseteq {id}
          /\ Recorded = {}
      BY <3>3, <3>4 DEF MovedTo, Recorded, EventIds
    <3>6. QED
      BY <3>2, <3>5 DEF AuthorizedBy
  <2>4. ASSUME NEW caller \in Caller, NEW selector \in Selectors,
               DeleteAllowed(caller, selector)
        PROVE  AuthorizedBy(caller)
    <3> DEFINE ids == QueryEvents(selector)
    <3>1. RowsAfterDelete(ids)
      BY <2>4, DeleteRows
    <3>2. \A i \in ids : HoldsGrant(permissions, caller, "delete", memory_events[i], now)
      BY <2>4, AllowedHolds DEF DeleteAllowed, DeniedForDelete
    <3> HIDE DEF ids
    <3>3. /\ EventIds' = EventIds
          /\ \A i \in EventIds \ ids : memory_events'[i] = memory_events[i]
          /\ \A i \in ids : memory_events'[i].state = "deleted"
      BY <3>1 DEF RowsAfterDelete
    <3>4. /\ MovedTo("deleted") \subseteq ids /\ MovedTo("superseded") = {}
          /\ Recorded = {}
      BY <3>3 DEF MovedTo, Recorded, EventIds
    <3>5. QED
      BY <3>2, <3>4 DEF AuthorizedBy
  <2>5. CASE QuietStep
    <3>1. memory_events' = memory_events
      BY <2>5 DEF QuietStep
    <3>2. MovedTo("deleted") = {} /\ MovedTo("superseded") = {} /\ Recorded = {}
      BY <3>1 DEF MovedTo, Recorded, EventIds
    <3>3. QED
      BY <3>2 DEF HasAuthorizedEffects
  <2>6. QED
    BY <2>2, <2>3, <2>4, <2>5, StepCases DEF HasAuthorizedEffects
<1>2. QED
  BY <1>1, TypeCorrect, PTL DEF Spec, EffectsAreAuthorized
==============================================================================
