---------------------------- MODULE MemoryService ----------------------------
(***************************************************************************)
(* The canonical memory store and the operations of PersonalMemoryService  *)
(* that change it: record, correct, delete, grant, revoke, and the         *)
(* rebuilding of the relation projection.  Every operation is one atomic   *)
(* step, which is what the store promises to a single caller;              *)
(* StoreTransactions looks inside that promise.                            *)
(*                                                                         *)
(* Abstractions.  An event is named by its position in memory_events, the  *)
(* order of creation.  A text is a normalised description; the deterministic*)
(* preference parser is the function PreferenceFact.  Typed links, capture *)
(* triggers and the review policy of an event are kept as the kinds of     *)
(* relation it has.  The audit log is the set of its records without time, *)
(* scope and reason: equal records are one.  Lineage edges, entity rows and*)
(* full-text rows are written once with their event and never changed, so  *)
(* they are read off the event.                                            *)
(*                                                                         *)
(* The lineage of a recorded event is whatever its caller says: nothing    *)
(* checks it.  What a caller can say depends on the ids the caller knows:  *)
(* those of stored events, ids that name no event, now or ever, and the    *)
(* ForeseenIds.  These are empty where ids are random, as they are for     *)
(* every service but the one in_memory() makes, which counts them.         *)
(***************************************************************************)
EXTENDS Permissions, FiniteSets, Sequences

CONSTANTS
    Text,            \* normalised semantic descriptions
    PreferenceFact,  \* what the preference parser makes of a text
    NoFact,          \* a text that states no preference
    NoApp,           \* a selector that names no source application
    Topic,           \* topics a selector may name
    Candidates,      \* the memory candidates callers record
    ForeseenIds,     \* ids callers can name before they name an event
    Patches,         \* the patches callers correct events with
    Selectors,       \* the selectors callers delete with
    Scopes,          \* the scopes that are granted
    Durations,       \* the durations scopes are granted for
    MaxEvents, MaxGrants, MaxDenials, MaxClock   \* bounds of the model

LifecycleState == {"active", "superseded", "deleted", "quarantined"}

Attribution == {"user_stated", "agent_inferred", "app_synced", "derived"}

RelationKind == {"link", "capture_trigger", "review_policy"}

Lineage ==
    [parents: SUBSET Nat, derived_from: SUBSET Nat, supersedes: SUBSET Nat]

MemoryCandidate ==
    [text: Text, source_app: App, attribution: Attribution,
     memory_layer: MemoryLayer, entities: SUBSET Entity,
     relations: SUBSET {"link"}, privacy_level: PrivacyLevel,
     valid_at: Nat \cup {NoTime}, capture_triggers: BOOLEAN,
     review_policy: BOOLEAN, confident: BOOLEAN, lineage: Lineage]

(* The parts of an event a patch of correct() replaces; an absent key of   *)
(* the code's patch keeps the part.                                        *)
Patch ==
    [keys: SUBSET {"text", "entities", "relations"}, text: Text,
     entities: SUBSET Entity, relations: SUBSET RelationKind]

MemorySelector ==
    [event_ids: SUBSET Nat, app: App \cup {NoApp}, entities: SUBSET Entity,
     topics: SUBSET Topic, memory_layers: SUBSET MemoryLayer,
     privacy_levels: SUBSET PrivacyLevel,
     lifecycle_states: SUBSET LifecycleState,
     time_start: Nat \cup {NoTime}, time_end: Nat \cup {NoTime}]

MemoryEvent ==
    [text: Text, source_app: App, attribution: Attribution,
     memory_layer: MemoryLayer, entities: SUBSET Entity,
     relations: SUBSET RelationKind, privacy_level: PrivacyLevel,
     valid_at: Nat, parents: SUBSET Nat, derived_from: SUBSET Nat,
     supersedes: SUBSET Nat, state: LifecycleState]

UnstoredId == 0      \* an event id that never names a row of memory_events

System == "system"   \* the caller revocations are audited under

AuditRecord ==
    [operation: AuditOperation, caller: Caller \cup {System},
     outcome: {"allowed", "denied"}, affected: SUBSET Nat]

ASSUME MemoryServiceAssumption ==
    /\ Candidates \subseteq MemoryCandidate
    /\ ForeseenIds \subseteq Nat
    /\ Patches \subseteq Patch
    /\ Selectors \subseteq MemorySelector
    /\ Scopes \subseteq PermissionScope
    /\ Durations \subseteq Int
    /\ MaxEvents \in Nat /\ MaxGrants \in Nat
    /\ MaxDenials \in Nat /\ MaxClock \in Nat

VARIABLES
    memory_events,   \* the canonical events, in order of creation
    permissions,     \* the grants, in order of creation
    tombstones,      \* a row per deleted event and the selector that hit it
    audit_log,       \* the audit records
    relation_edges,  \* the state each projected event's edges carry
    now              \* the clock

vars ==
    <<memory_events, permissions, tombstones, audit_log, relation_edges, now>>

EventIds == DOMAIN memory_events

TypeOK ==
    /\ memory_events \in Seq(MemoryEvent)
    /\ permissions \in Seq(PermissionGrant)
    /\ tombstones \subseteq [event_id: Nat, selector: MemorySelector]
    /\ audit_log \subseteq AuditRecord
    /\ relation_edges \in [DOMAIN relation_edges -> LifecycleState]
    /\ now \in Nat

-----------------------------------------------------------------------------
(* The constructor.                                                        *)

(* A candidate captured from a session enters the semantic or procedural   *)
(* layer only with a review policy and high confidence.                    *)
ConstructedLayer(candidate) ==
    IF /\ candidate.capture_triggers
       /\ candidate.memory_layer \in {"semantic", "procedural"}
       /\ ~(candidate.review_policy /\ candidate.confident)
    THEN "episodic"
    ELSE candidate.memory_layer

ConstructedRelations(candidate) ==
    candidate.relations
        \cup {kind \in {"capture_trigger"} : candidate.capture_triggers}
        \cup {kind \in {"review_policy"} : candidate.review_policy}

(* Mutant: valid_at does not fall back to the creation time.               *)
ConstructWithoutDefaultTime(candidate) ==
    [text |-> candidate.text,
     source_app |-> candidate.source_app,
     attribution |-> candidate.attribution,
     memory_layer |-> ConstructedLayer(candidate),
     entities |-> candidate.entities,
     relations |-> ConstructedRelations(candidate),
     privacy_level |-> candidate.privacy_level,
     valid_at |-> candidate.valid_at,
     parents |-> candidate.lineage.parents,
     derived_from |-> candidate.lineage.derived_from,
     supersedes |-> candidate.lineage.supersedes,
     state |-> "active"]

Construct(candidate) ==
    [text |-> candidate.text,
     source_app |-> candidate.source_app,
     attribution |-> candidate.attribution,
     memory_layer |-> ConstructedLayer(candidate),
     entities |-> candidate.entities,
     relations |-> ConstructedRelations(candidate),
     privacy_level |-> candidate.privacy_level,
     valid_at |-> IF candidate.valid_at = NoTime THEN now ELSE candidate.valid_at,
     parents |-> candidate.lineage.parents,
     derived_from |-> candidate.lineage.derived_from,
     supersedes |-> candidate.lineage.supersedes,
     state |-> "active"]

(* Mutant: the lineage of a correction names the original only as a parent.*)
CorrectedWithoutSupersedes(original, id, patch) ==
    [original EXCEPT
        !.text = IF "text" \in patch.keys THEN patch.text ELSE @,
        !.entities = IF "entities" \in patch.keys THEN patch.entities ELSE @,
        !.parents = {id}, !.derived_from = {}, !.supersedes = {},
        !.state = "active"]

(* The successor a correction constructs: what the patch does not replace  *)
(* it takes from the original, except the lineage.                         *)
Corrected(original, id, patch) ==
    [original EXCEPT
        !.text = IF "text" \in patch.keys THEN patch.text ELSE @,
        !.entities = IF "entities" \in patch.keys THEN patch.entities ELSE @,
        !.relations = IF "relations" \in patch.keys THEN patch.relations ELSE @,
        !.parents = {id}, !.derived_from = {}, !.supersedes = {id},
        !.state = "active"]

-----------------------------------------------------------------------------
(* Reading the store.                                                      *)

First(ids) == CHOOSE i \in ids : \A j \in ids : i <= j

(* SQLiteMemoryStore.query_events.  The topics of a selector do not take   *)
(* part in the query.                                                      *)
IsSelected(selector, id) ==
    LET event == memory_events[id]
    IN  /\ Allows(selector.event_ids, id)
        /\ selector.app \in {NoApp, event.source_app}
        /\ selector.entities # {} => selector.entities \cap event.entities # {}
        /\ Allows(selector.memory_layers, event.memory_layer)
        /\ Allows(selector.privacy_levels, event.privacy_level)
        /\ Allows(selector.lifecycle_states, event.state)
        /\ InWindow(event.valid_at, selector.time_start, selector.time_end)

QueryEvents(selector) == {id \in EventIds : IsSelected(selector, id)}

(* SQLiteMemoryStore.events_superseding: whoever claims it in its lineage, *)
(* a correction or an event some caller recorded.                          *)
EventsSuperseding(id) ==
    {child \in EventIds : id \in memory_events[child].supersedes}

IsDuplicate(existing, event) ==
    /\ existing.source_app = event.source_app
    /\ existing.memory_layer = event.memory_layer
    /\ existing.entities = event.entities
    /\ existing.text = event.text

IsContradiction(existing, event) ==
    LET old == PreferenceFact[existing.text]
        new == PreferenceFact[event.text]
    IN  /\ existing.source_app = event.source_app
        /\ existing.entities \cap event.entities # {}
        /\ old # NoFact
        /\ new # NoFact
        /\ old.context = new.context
        /\ old.value # new.value

(* The active events of the same application that share an entity with the *)
(* new event, or all of them when it has no entity.                        *)
ActiveEvents(event) ==
    {id \in EventIds :
        /\ memory_events[id].state = "active"
        /\ memory_events[id].source_app = event.source_app
        /\ event.entities # {} =>
               event.entities \cap memory_events[id].entities # {}}

Duplicates(event) ==
    {id \in ActiveEvents(event) : IsDuplicate(memory_events[id], event)}

Contradictions(event) ==
    {id \in ActiveEvents(event) : IsContradiction(memory_events[id], event)}

(* Mutant: the quarantined event keeps its own lineage.                    *)
QuarantineWithoutEvidence(event) ==
    IF Contradictions(event) = {}
    THEN event
    ELSE [event EXCEPT !.state = "quarantined"]

QuarantineIfContradictory(event) ==
    IF Contradictions(event) = {}
    THEN event
    ELSE [event EXCEPT !.state = "quarantined",
                       !.parents = {First(Contradictions(event))},
                       !.derived_from = {}, !.supersedes = {}]

-----------------------------------------------------------------------------
(* Writing the store.                                                      *)

Audit(operation, caller, outcome, affected) ==
    audit_log' = audit_log \cup
        {[operation |-> operation, caller |-> caller, outcome |-> outcome,
          affected |-> affected]}

(* A denied call leaves its audit record and nothing else.                 *)
Denials == {record \in audit_log : record.outcome = "denied"}

Deny(operation, caller, id) ==
    /\ Cardinality(Denials) < MaxDenials
    /\ Audit(operation, caller, "denied", {id})
    /\ UNCHANGED <<memory_events, permissions, tombstones, relation_edges, now>>

WithState(events, ids, state) ==
    [id \in DOMAIN events |->
        IF id \in ids THEN [events[id] EXCEPT !.state = state] ELSE events[id]]

(* Mutant: only a deletion reaches the projection.                         *)
EdgesWithStateWhenDeleted(ids, state) ==
    [id \in DOMAIN relation_edges |->
        IF id \in ids /\ state = "deleted" THEN state ELSE relation_edges[id]]

(* update_lifecycle also writes the state to the projected edges.          *)
EdgesWithState(ids, state) ==
    [id \in DOMAIN relation_edges |->
        IF id \in ids THEN state ELSE relation_edges[id]]

Allowed(caller, operation, event) ==
    CanAccess(permissions, caller, operation, event, now)

-----------------------------------------------------------------------------
(* PersonalMemoryService.record.                                           *)

(* All the ids a lineage names are known to the caller.                    *)
CanName(lineage) ==
    (lineage.parents \cup lineage.derived_from \cup lineage.supersedes)
        \subseteq EventIds \cup ForeseenIds \cup {UnstoredId}

RecordDenied(caller, candidate) ==
    /\ CanName(candidate.lineage)
    /\ ~Allowed(caller, "write", Construct(candidate))
    /\ Deny("write", caller, UnstoredId)

RecordDuplicate(caller, candidate) ==
    LET event == Construct(candidate)
    IN  /\ CanName(candidate.lineage)
        /\ Allowed(caller, "write", event)
        /\ Duplicates(event) # {}
        /\ Audit("write", caller, "allowed", {First(Duplicates(event))})
        /\ UNCHANGED <<memory_events, permissions, tombstones, relation_edges, now>>

(* Mutant: the event is inserted without being validated.                  *)
RecordUnvalidated(caller, candidate) ==
    LET event == Construct(candidate)
    IN  /\ Len(memory_events) < MaxEvents
        /\ CanName(candidate.lineage)
        /\ Allowed(caller, "write", event)
        /\ Duplicates(event) = {}
        /\ memory_events' = Append(memory_events, event)
        /\ Audit("write", caller, "allowed", {Len(memory_events) + 1})
        /\ UNCHANGED <<permissions, tombstones, relation_edges, now>>

RecordNew(caller, candidate) ==
    LET event == Construct(candidate)
    IN  /\ Len(memory_events) < MaxEvents
        /\ CanName(candidate.lineage)
        /\ Allowed(caller, "write", event)
        /\ Duplicates(event) = {}
        /\ memory_events' = Append(memory_events, QuarantineIfContradictory(event))
        /\ Audit("write", caller, "allowed", {Len(memory_events) + 1})
        /\ UNCHANGED <<permissions, tombstones, relation_edges, now>>

(* PersonalMemoryService.correct.  The original is looked up by id alone,  *)
(* whatever its state, and the successor is not validated against the      *)
(* active events.                                                          *)

CorrectNotFound(caller) == Deny("update", caller, UnstoredId)

CorrectDenied(caller, id) ==
    /\ ~Allowed(caller, "update", memory_events[id])
    /\ Deny("update", caller, id)

(* Mutant: the event is rewritten in place.                                *)
CorrectInPlace(caller, id, patch) ==
    /\ Allowed(caller, "update", memory_events[id])
    /\ memory_events' = [memory_events EXCEPT
                            ![id] = Corrected(memory_events[id], id, patch)]
    /\ Audit("update", caller, "allowed", {id})
    /\ UNCHANGED <<permissions, tombstones, relation_edges, now>>

(* Mutant: the audit record names the original alone.                      *)
CorrectAuditingOriginal(caller, id, patch) ==
    /\ Len(memory_events) < MaxEvents
    /\ Allowed(caller, "update", memory_events[id])
    /\ memory_events' =
           WithState(Append(memory_events, Corrected(memory_events[id], id, patch)),
                     {id}, "superseded")
    /\ relation_edges' = EdgesWithState({id}, "superseded")
    /\ Audit("update", caller, "allowed", {id})
    /\ UNCHANGED <<permissions, tombstones, now>>

CorrectAllowed(caller, id, patch) ==
    /\ Len(memory_events) < MaxEvents
    /\ Allowed(caller, "update", memory_events[id])
    /\ memory_events' =
           WithState(Append(memory_events, Corrected(memory_events[id], id, patch)),
                     {id}, "superseded")
    /\ relation_edges' = EdgesWithState({id}, "superseded")
    /\ Audit("update", caller, "allowed", {id, Len(memory_events) + 1})
    /\ UNCHANGED <<permissions, tombstones, now>>

(* PersonalMemoryService.delete.  The whole selection is checked before    *)
(* anything is written; the first event in query order that is denied is   *)
(* the one audited.  A blank reason makes mark_deleted raise, and the      *)
(* transaction leaves the store as it was, unless nothing was selected.    *)

(* Mutant: the preflight looks at the first selected event only.           *)
DeniedFirstForDelete(caller, selector) ==
    {id \in QueryEvents(selector) :
        /\ id = First(QueryEvents(selector))
        /\ ~Allowed(caller, "delete", memory_events[id])}

DeniedForDelete(caller, selector) ==
    {id \in QueryEvents(selector) : ~Allowed(caller, "delete", memory_events[id])}

DeleteDenied(caller, selector) ==
    LET denied == DeniedForDelete(caller, selector)
    IN  /\ denied # {}
        /\ Deny("delete", caller, First(denied))

(* Mutant: one tombstone per call instead of one per event.                *)
DeleteWithOneTombstone(caller, selector) ==
    LET selected == QueryEvents(selector)
    IN  /\ DeniedForDelete(caller, selector) = {}
        /\ memory_events' = WithState(memory_events, selected, "deleted")
        /\ relation_edges' = EdgesWithState(selected, "deleted")
        /\ tombstones' = tombstones \cup
               {[event_id |-> id, selector |-> selector] :
                   id \in {i \in selected : i = First(selected)}}
        /\ Audit("delete", caller, "allowed", selected)
        /\ UNCHANGED <<permissions, now>>

DeleteAllowed(caller, selector) ==
    LET selected == QueryEvents(selector)
    IN  /\ DeniedForDelete(caller, selector) = {}
        /\ memory_events' = WithState(memory_events, selected, "deleted")
        /\ relation_edges' = EdgesWithState(selected, "deleted")
        /\ tombstones' = tombstones \cup
               {[event_id |-> id, selector |-> selector] : id \in selected}
        /\ Audit("delete", caller, "allowed", selected)
        /\ UNCHANGED <<permissions, now>>

(* PersonalMemoryService.grant and revoke.                                 *)

Grant(caller, scope, duration) ==
    /\ Len(permissions) < MaxGrants
    /\ permissions' = Append(permissions,
           [caller |-> caller, scope |-> scope, granted_at |-> now,
            expires_at |-> now + duration, revoked |-> FALSE,
            operation |-> OperationIndexValue(scope)])
    /\ Audit("grant", caller, "allowed", {})
    /\ UNCHANGED <<memory_events, tombstones, relation_edges, now>>

Revoke(grant) ==
    /\ permissions' = [permissions EXCEPT ![grant].revoked = TRUE]
    /\ Audit("revoke", System, "allowed", {})
    /\ UNCHANGED <<memory_events, tombstones, relation_edges, now>>

RevokeUnknown ==
    /\ Audit("revoke", System, "allowed", {})
    /\ UNCHANGED <<memory_events, permissions, tombstones, relation_edges, now>>

(* rebuild_relation_projection.  An event has edges when it has a typed    *)
(* link or a lineage.                                                      *)

HasEdges(event) ==
    \/ "link" \in event.relations
    \/ event.parents \cup event.derived_from \cup event.supersedes # {}

RebuiltIds ==
    {id \in EventIds :
        memory_events[id].state = "active" /\ HasEdges(memory_events[id])}

RebuildRelationProjection ==
    /\ relation_edges' = [id \in RebuiltIds |-> "active"]
    /\ UNCHANGED <<memory_events, permissions, tombstones, audit_log, now>>

Tick ==
    /\ now < MaxClock
    /\ now' = now + 1
    /\ UNCHANGED <<memory_events, permissions, tombstones, audit_log, relation_edges>>

-----------------------------------------------------------------------------

Init ==
    /\ memory_events = <<>>
    /\ permissions = <<>>
    /\ tombstones = {}
    /\ audit_log = {}
    /\ relation_edges = [id \in {} |-> "active"]
    /\ now = 0

Record(caller, candidate) ==
    \/ RecordDenied(caller, candidate)
    \/ RecordDuplicate(caller, candidate)
    \/ RecordNew(caller, candidate)

Next ==
    \/ \E caller \in Caller :
        \/ \E candidate \in Candidates : Record(caller, candidate)
        \/ CorrectNotFound(caller)
        \/ \E id \in EventIds :
               \/ CorrectDenied(caller, id)
               \/ \E patch \in Patches : CorrectAllowed(caller, id, patch)
        \/ \E selector \in Selectors :
               \/ DeleteDenied(caller, selector)
               \/ DeleteAllowed(caller, selector)
        \/ \E scope \in Scopes, duration \in Durations :
               Grant(caller, scope, duration)
    \/ \E grant \in DOMAIN permissions : Revoke(grant)
    \/ RevokeUnknown
    \/ RebuildRelationProjection
    \/ Tick

Spec == Init /\ [][Next]_vars
-----------------------------------------------------------------------------
(* Properties.                                                             *)

(* What the audit log says was asked for and done.                         *)
AllowedRecord(operation, ids) ==
    \E record \in audit_log :
        /\ record.operation = operation
        /\ record.outcome = "allowed"
        /\ ids \subseteq record.affected

(* The successors correct() made of an event.  The events whose lineage    *)
(* names it in supersedes may be more: a caller may claim as much in the   *)
(* lineage of any event it records.                                        *)
CorrectionsOf(id) ==
    {new \in EventIds : id < new /\ AllowedRecord("update", {id, new})}

IsCorrection(new) == \E id \in 1 .. (new - 1) : new \in CorrectionsOf(id)

(***************************************************************************)
(* Only corrections supersede, whatever lineages callers supply: an event  *)
(* is superseded only if a correction of it was audited; and an event that *)
(* was corrected, however often and whatever is corrected or deleted       *)
(* afterwards, is never back among the active or quarantined ones, and     *)
(* stays what each of its corrections names, so that explain finds them.   *)
(***************************************************************************)
SupersessionIsLinked ==
    \A id \in EventIds :
        /\ memory_events[id].state = "superseded" => CorrectionsOf(id) # {}
        /\ \A new \in CorrectionsOf(id) :
              /\ memory_events[id].state \in {"superseded", "deleted"}
              /\ memory_events[new].parents = {id}
              /\ memory_events[new].supersedes = {id}

(***************************************************************************)
(* Deletion is represented: a deleted event has a tombstone; and an event  *)
(* that has a tombstone is never active again, hence never retrieved.      *)
(***************************************************************************)
Tombstoned == {tombstone.event_id : tombstone \in tombstones}

DeletionIsRepresented ==
    /\ \A id \in EventIds : memory_events[id].state = "deleted" => id \in Tombstoned
    /\ \A id \in Tombstoned :
           id \in EventIds /\ memory_events[id].state \in {"deleted", "superseded"}

(***************************************************************************)
(* Read before write: of two active events that duplicate or contradict    *)
(* each other the later one is a correction.  record() itself never puts   *)
(* such a pair among the active events, in whatever order events were      *)
(* recorded, corrected and deleted before.                                 *)
(***************************************************************************)
OnlyCorrectionsConflict ==
    \A old, new \in EventIds :
        (/\ old < new
         /\ memory_events[old].state = "active"
         /\ memory_events[new].state = "active"
         /\ \/ IsDuplicate(memory_events[old], memory_events[new])
            \/ IsContradiction(memory_events[old], memory_events[new]))
        => IsCorrection(new)

(***************************************************************************)
(* A contradiction stays traceable: a quarantined event names, as its only *)
(* parent, an earlier event whose preference it contradicts, even when     *)
(* that event has been corrected or deleted since.                         *)
(***************************************************************************)
QuarantineHasEvidence ==
    \A id \in EventIds :
        memory_events[id].state = "quarantined" =>
            \E evidence \in 1 .. (id - 1) :
                /\ memory_events[id].parents = {evidence}
                /\ IsContradiction(memory_events[evidence], memory_events[id])

(***************************************************************************)
(* Every change of the canonical memory can be found in the audit log:     *)
(* each event under an allowed write or update that names it, each         *)
(* supersession under one update that names both events, each tombstone    *)
(* under an allowed delete.                                                *)
(***************************************************************************)
ChangesAreAudited ==
    /\ \A id \in EventIds :
          \/ AllowedRecord("write", {id})
          \/ \E old \in memory_events[id].supersedes : id \in CorrectionsOf(old)
    /\ \A id \in Tombstoned : AllowedRecord("delete", {id})

(***************************************************************************)
(* The relation projection follows the lifecycle: the edges an event has   *)
(* in the projection carry the event's current state, so active reads of   *)
(* the projection never show an event that was superseded or deleted after *)
(* the last rebuild.                                                       *)
(***************************************************************************)
EdgesFollowEvents ==
    \A id \in DOMAIN relation_edges :
        id \in EventIds /\ relation_edges[id] = memory_events[id].state

(***************************************************************************)
(* Memory is append-only but for the lifecycle: no step removes or rewrites*)
(* an event, and the state moves only out of active and quarantined, and   *)
(* between superseded and deleted.  Audit records, tombstones and          *)
(* revocations are never undone.                                           *)
(***************************************************************************)
MayBecome(old, new) ==
    \/ old = new
    \/ new \in {"superseded", "deleted"}

KeepsHistory ==
    /\ \A id \in EventIds :
          /\ id \in DOMAIN memory_events'
          /\ memory_events'[id] =
                 [memory_events[id] EXCEPT !.state = memory_events'[id].state]
          /\ MayBecome(memory_events[id].state, memory_events'[id].state)
    /\ audit_log \subseteq audit_log'
    /\ tombstones \subseteq tombstones'
    /\ \A g \in DOMAIN permissions :
          permissions[g].revoked => permissions'[g].revoked

HistoryIsKept == [][KeepsHistory]_vars

(***************************************************************************)
(* What the documents promise and the code does not keep.  "deleted:       *)
(* hidden from retrieval and represented by a tombstone": an event that    *)
(* has a tombstone is in the deleted state.                                *)
(***************************************************************************)
TombstonedStayDeleted ==
    \A id \in Tombstoned : memory_events[id].state = "deleted"

(***************************************************************************)
(* "Derived memory must keep lineage to source events so correction and    *)
(* deletion can propagate": where every derived candidate names the events *)
(* it was derived from, so does every derived event but a correction.      *)
(***************************************************************************)
DerivedKeepLineage ==
    \A id \in EventIds :
        (memory_events[id].attribution = "derived" /\ ~IsCorrection(id))
        => memory_events[id].derived_from # {}

(***************************************************************************)
(* Looking only at the grants the indexed query returns changes no         *)
(* decision: a caller may do exactly what some grant in force admits.      *)
(***************************************************************************)
IndexChangesNoDecision ==
    \A caller \in Caller, operation \in AuditOperation, id \in EventIds :
        CanAccess(permissions, caller, operation, memory_events[id], now)
            <=> HoldsGrant(permissions, caller, operation, memory_events[id], now)

(***************************************************************************)
(* Every effect is authorised as a whole: for all that one step creates,   *)
(* supersedes or deletes there is one caller who held, at that moment, a   *)
(* grant for it, by the reference definition of access.  A selector that   *)
(* reaches one event the caller may not delete deletes nothing.            *)
(***************************************************************************)
MovedTo(state) ==
    {id \in EventIds :
        memory_events[id].state # state /\ memory_events'[id].state = state}

Recorded ==
    {id \in DOMAIN memory_events' \ EventIds : ~IsCorrection(id)'}

AuthorizedBy(caller) ==
    /\ \A id \in MovedTo("deleted") :
          HoldsGrant(permissions, caller, "delete", memory_events[id], now)
    /\ \A id \in MovedTo("superseded") :
          HoldsGrant(permissions, caller, "update", memory_events[id], now)
    /\ \A id \in Recorded :
          HoldsGrant(permissions, caller, "write", memory_events'[id], now)

HasAuthorizedEffects ==
    MovedTo("deleted") \cup MovedTo("superseded") \cup Recorded # {} =>
        \E caller \in Caller : AuthorizedBy(caller)

EffectsAreAuthorized == [][HasAuthorizedEffects]_vars
==============================================================================
