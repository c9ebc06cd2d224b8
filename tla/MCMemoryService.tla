--------------------------- MODULE MCMemoryService ---------------------------
(***************************************************************************)
(* A small instance of MemoryService: an owner and an agent, one           *)
(* application, one entity, two contradictory preferences and a plain text.*)
(***************************************************************************)
EXTENDS MemoryMaintenance, TLC

CONSTANTS owner, agent, chat, tea, green, black, trip, planning

MCCaller == {owner, agent}
OwnerOnly == {owner}
MCApp == {chat}
MCEntity == {tea}
MCText == {green, black, trip}
MCTopic == {planning}

MCPreferenceFact ==
    [text \in MCText |->
        IF text = trip THEN NoFact ELSE [context |-> "tea", value |-> text]]

(* What callers say of where an event comes from: nothing, or what names   *)
(* the first event, the second, or no event at all.                        *)
NoLineage == [parents |-> {}, derived_from |-> {}, supersedes |-> {}]
FromFirst == [NoLineage EXCEPT !.derived_from = {1}]
FromNowhere == [NoLineage EXCEPT !.derived_from = {UnstoredId}]
InPlaceOfSecond == [NoLineage EXCEPT !.parents = {2}, !.supersedes = {2}]

UserStated ==
    [text |-> green, source_app |-> chat, attribution |-> "user_stated",
     memory_layer |-> "episodic", entities |-> {tea}, relations |-> {"link"},
     privacy_level |-> "personal", valid_at |-> NoTime,
     capture_triggers |-> FALSE, review_policy |-> FALSE, confident |-> TRUE,
     lineage |-> NoLineage]

(* The trip is derived, from the first event or from one that is missing;  *)
(* a black tea may claim to take the place of the second event, before it  *)
(* is there, when it is that event itself, and afterwards.                 *)
Trip ==
    [UserStated EXCEPT !.text = trip, !.attribution = "derived",
                       !.memory_layer = "semantic", !.capture_triggers = TRUE,
                       !.relations = {}]

MCCandidates ==
    {UserStated,
     [UserStated EXCEPT !.text = black],
     [UserStated EXCEPT !.text = black, !.lineage = InPlaceOfSecond],
     [Trip EXCEPT !.lineage = FromFirst],
     [Trip EXCEPT !.lineage = FromNowhere]}

NoPatch == [keys |-> {}, text |-> green, entities |-> {}, relations |-> {}]

MCPatches == {[NoPatch EXCEPT !.keys = {"text"}, !.text = black]}

Everything ==
    [event_ids |-> {}, app |-> NoApp, entities |-> {}, topics |-> {},
     memory_layers |-> {}, privacy_levels |-> {}, lifecycle_states |-> {},
     time_start |-> NoTime, time_end |-> NoTime]

MCSelectors ==
    {[Everything EXCEPT !.event_ids = {1}],
     [Everything EXCEPT !.app = chat, !.lifecycle_states = {"active"}]}

AnyScope ==
    [operations |-> {}, memory_layers |-> {}, privacy_levels |-> {}, apps |-> {},
     entities |-> {}, time_start |-> NoTime, time_end |-> NoTime,
     processing_policies |-> {}]

AnyScopeOnly == {AnyScope}

MCDurations == {0}

(* A derived candidate that may contradict what the owner stated.          *)
DerivedCandidates ==
    {UserStated,
     [UserStated EXCEPT !.text = black, !.attribution = "derived",
                        !.lineage = FromFirst]}

(* Where ids are counted, a caller can foresee the second one.             *)
CountedIds == {2}

(* Ids are random.                                                         *)
NoIds == {}

(* The governance instance: scopes that admit part of what is stored, and  *)
(* grants that expire with the tick after they are given.                  *)
GovernanceCandidates ==
    {UserStated,
     [UserStated EXCEPT !.text = trip, !.privacy_level = "sensitive",
                        !.relations = {}]}

GovernanceSelectors ==
    {[Everything EXCEPT !.app = chat, !.lifecycle_states = {"active"}]}

GovernanceScopes ==
    {[AnyScope EXCEPT !.operations = {"write", "delete"}],
     [AnyScope EXCEPT !.operations = {"delete"},
                      !.processing_policies = {"client_encrypted_sync"}]}

NoPatches == {}

CallersAreAlike == Permutations(MCCaller)
==============================================================================
