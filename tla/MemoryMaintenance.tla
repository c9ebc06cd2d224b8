--------------------------- MODULE MemoryMaintenance ---------------------------
(***************************************************************************)
(* The dry-run reports of MemoryMaintenance and the deletion figures of    *)
(* metrics_snapshot(), read off the state of MemoryService.  The filters   *)
(* on confidence, and the proposals made from the wording of one event,    *)
(* are left out: the first only shrink a proposal, and the second name one *)
(* event each.                                                             *)
(***************************************************************************)
EXTENDS MemoryMetrics, SequencesExt

(* _duplicate_groups: the active events that agree in the key.             *)
DuplicateEventGroups ==
    LET Group(event) ==
            {id \in EventIds :
                /\ memory_events[id].state = "active"
                /\ IsDuplicate(memory_events[id], event)}
    IN  {group \in {Group(memory_events[id]) : id \in EventIds} :
            Cardinality(group) > 1}

(* _missing_lineage: the references to events that are not stored.         *)
References(id) ==
    memory_events[id].parents \cup memory_events[id].derived_from
        \cup memory_events[id].supersedes

MissingLineage ==
    UNION {{<<id, missing>> : missing \in References(id) \ EventIds} : id \in EventIds}

(* _orphaned_projection_edges.                                             *)
OrphanedProjectionEdges == DOMAIN relation_edges \ EventIds

Superseded == {id \in EventIds : memory_events[id].state = "superseded"}

(* An event that was corrected twice, or that callers claim to supersede,  *)
(* has several successors.  The chain follows the one whose id sorts first,*)
(* and ids are random: any of them, but the same one whenever the event is *)
(* met.                                                                    *)
Orders ==
    {order \in [EventIds -> EventIds \cup {UnstoredId}] :
        \A id \in EventIds :
            IF EventsSuperseding(id) = {}
            THEN order[id] = UnstoredId
            ELSE order[id] \in EventsSuperseding(id)}

(* Mutant: the walk breaks after the first successor.                      *)
ChainOfOneStep(order, id) ==
    IF order[id] # UnstoredId THEN <<id, order[id]>> ELSE <<id>>

(* The loop of _stale_superseded_chains for one superseded event: on to the*)
(* successor as long as there is one and the event reached is superseded.  *)
(* A walk that meets no event twice is over after as many steps as there   *)
(* are events; one that is not over then never ends.                       *)
Chain(order, id) ==
    LET Walk(chain, step) ==
            IF Last(chain) \in Superseded /\ order[Last(chain)] # UnstoredId
            THEN Append(chain, order[Last(chain)])
            ELSE chain
    IN  FoldLeft(Walk, <<id>>, [step \in 1 .. Len(memory_events) |-> step])

StaleSupersededChains(order) ==
    {chain \in {Chain(order, id) : id \in Superseded} : Len(chain) > 2}

(* _semantic_proposals: active, user-stated, episodic events that name the *)
(* same entities.                                                          *)
SemanticProposals ==
    LET Evidence(entities) ==
            {id \in EventIds :
                /\ memory_events[id].state = "active"
                /\ memory_events[id].memory_layer = "episodic"
                /\ memory_events[id].attribution = "user_stated"
                /\ memory_events[id].entities = entities}
    IN  {evidence \in {Evidence(entities) : entities \in SUBSET Entity} :
            Cardinality(evidence) > 1}

DeletedEvents == {id \in EventIds : memory_events[id].state = "deleted"}

(* Mutant: the rows of tombstones are counted, two for an event that was   *)
(* deleted twice.                                                          *)
DeletionMetricsByRow ==
    [tombstone_count |-> Cardinality(tombstones),
     deleted_event_count |-> Cardinality(DeletedEvents),
     propagated |-> Cardinality(Tombstoned \cap DeletedEvents),
     expected |-> Cardinality(tombstones)]

(* _deletion_metrics; propagation_coverage is propagated / expected.       *)
DeletionMetrics ==
    [tombstone_count |-> Cardinality(tombstones),
     deleted_event_count |-> Cardinality(DeletedEvents),
     propagated |-> Cardinality(Tombstoned \cap DeletedEvents),
     expected |-> Cardinality(Tombstoned)]

-----------------------------------------------------------------------------
(* Properties.                                                             *)

(***************************************************************************)
(* "defrag(): reports ... stale superseded chains": every walk ends.  It   *)
(* goes from one superseded event to the next, never meets an event twice, *)
(* follows what lineages claim, and ends at an event that is not superseded.*)
(***************************************************************************)
ChainsEndAtAVersion ==
    \A order \in Orders : \A id \in Superseded :
        LET chain == Chain(order, id)
        IN  /\ IsInjective(chain)
            /\ Len(chain) > 1
            /\ Last(chain) \notin Superseded
            /\ ToSet(Front(chain)) \subseteq Superseded
            /\ \A i \in 1 .. (Len(chain) - 1) :
                  chain[i] \in memory_events[chain[i + 1]].supersedes

(* Nothing claims to supersede itself or an event that came later, as a    *)
(* recorded event can where its caller foresees an id.                     *)
SupersessionIsEarlier ==
    \A id \in EventIds : memory_events[id].supersedes \subseteq 0 .. (id - 1)

(***************************************************************************)
(* What a maintenance report says can be acted on, after any sequence of   *)
(* records, corrections and deletions: a missing reference was supplied by *)
(* a caller and never named an event (a correction or a quarantine makes   *)
(* none, and no deletion makes one dangle); no edge is orphaned; the walks *)
(* along superseded events end, but for a claim that is not earlier than   *)
(* what it claims; of the events in a duplicate group at most one was      *)
(* recorded, the others are corrections; and a semantic proposal never     *)
(* counts as two memories an event and a correction of it.                 *)
(***************************************************************************)
ReportsAreSound ==
    /\ \A entry \in MissingLineage :
          /\ entry[2] \in ForeseenIds \cup {UnstoredId}
          /\ memory_events[entry[1]].state # "quarantined"
          /\ ~IsCorrection(entry[1])
    /\ OrphanedProjectionEdges = {}
    /\ SupersessionIsEarlier => ChainsEndAtAVersion
    /\ \A group \in DuplicateEventGroups :
          Cardinality({id \in group : ~IsCorrection(id)}) <= 1
    /\ \A evidence \in SemanticProposals : \A old, new \in evidence :
          new \notin CorrectionsOf(old)

(***************************************************************************)
(* What the figures miss, they miss because of corrections alone: an event *)
(* the audit figure counts as unaudited is a correction, since a correction*)
(* is audited as an update; no deletion is ever counted as unaudited; and  *)
(* the deletion figure falls below full coverage exactly when a deleted    *)
(* event was corrected afterwards, however often events were deleted.      *)
(***************************************************************************)
FiguresMissOnlyCorrections ==
    /\ \A id \in MissingWrites : IsCorrection(id)
    /\ MissingDeletes = {}
    /\ DeletionMetrics.deleted_event_count = DeletionMetrics.propagated
    /\ DeletionMetrics.propagated < DeletionMetrics.expected
           <=> \E id \in Tombstoned : CorrectionsOf(id) # {}
                                        /\ memory_events[id].state = "superseded"
==============================================================================
