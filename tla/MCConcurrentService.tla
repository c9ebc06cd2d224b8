------------------------- MODULE MCConcurrentService -------------------------
(***************************************************************************)
(* Two threads and one caller over a store of up to three events.          *)
(***************************************************************************)
EXTENDS ConcurrentService, TLC

CONSTANTS first, second, owner, chat, tea, green, black, planning

MCThread == {first, second}
MCCaller == {owner}
MCApp == {chat}
MCEntity == {tea}
MCText == {green, black}
MCTopic == {planning}

MCPreferenceFact == [text \in MCText |-> [context |-> "tea", value |-> text]]

Stated ==
    [text |-> green, source_app |-> chat, attribution |-> "user_stated",
     memory_layer |-> "episodic", entities |-> {tea}, relations |-> {"link"},
     privacy_level |-> "personal", valid_at |-> NoTime,
     capture_triggers |-> FALSE, review_policy |-> FALSE, confident |-> TRUE,
     lineage |-> [parents |-> {}, derived_from |-> {}, supersedes |-> {}]]

(* The second candidate claims to take the place of the first event, which *)
(* need not be so, and to come from an event nobody stored.                *)
MCCandidates ==
    {Stated,
     [Stated EXCEPT !.text = black,
                    !.lineage = [parents |-> {1}, derived_from |-> {UnstoredId},
                                 supersedes |-> {1}]]}

NoIds == {}

(* A correction may take the event out of the scope it was made under.     *)
MCPatches ==
    {[keys |-> {"text", "entities"}, text |-> black, entities |-> {},
      relations |-> {}]}

Everything ==
    [event_ids |-> {}, app |-> NoApp, entities |-> {}, topics |-> {},
     memory_layers |-> {}, privacy_levels |-> {}, lifecycle_states |-> {},
     time_start |-> NoTime, time_end |-> NoTime]

MCSelectors == {Everything}

(* All operations, but only on what is about tea.                          *)
AboutTea ==
    [operations |-> {}, memory_layers |-> {}, privacy_levels |-> {}, apps |-> {},
     entities |-> {tea}, time_start |-> NoTime, time_end |-> NoTime,
     processing_policies |-> {}]

MCScopes == {AboutTea}

MCDurations == {1}

ThreadsAreAlike == Permutations(MCThread)
==============================================================================
