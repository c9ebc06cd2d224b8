-------------------------- MODULE MCMemoryLifecycle --------------------------
(***************************************************************************)
(* The lifecycle instance of MemoryService with the reports about its      *)
(* states, and the bounded inputs of retrieval and context assembly: every *)
(* view of four events of five kinds, and every list of five snippets of   *)
(* four kinds.                                                             *)
(***************************************************************************)
EXTENDS MCMemoryService, Retrieval, ContextAssembly

CONSTANTS walk, morning, am

MCTerm == {walk, morning, am}

MCExpansions == [term \in MCTerm |-> IF term = am THEN {morning} ELSE {}]

Unrelated ==
    [terms |-> {walk}, entities |-> {}, bm25 |-> 0, vector |-> 0,
     recency |-> 0, confidence |-> 0, importance |-> 1]

MCIndexed ==
    {Unrelated,
     [Unrelated EXCEPT !.vector = 1],
     [Unrelated EXCEPT !.terms = {morning}],
     [Unrelated EXCEPT !.terms = {morning, walk}, !.recency = 1],
     [Unrelated EXCEPT !.terms = {}, !.entities = {morning}]}

MCViews == [1 .. 4 -> MCIndexed]

MCQueries == {{am}, {walk, morning}}

MCTopK == {-1, 1, 2, 3, 5}

ShortFact ==
    [event_id |-> 1, ascii |-> 10, other |-> 0, procedural |-> FALSE,
     wording |-> {}, user_stated |-> TRUE, confident |-> TRUE,
     derived_from |-> <<>>]

MCSnippets ==
    {ShortFact,
     [ShortFact EXCEPT !.ascii = 70, !.wording = {"decision", "constraint"}],
     [ShortFact EXCEPT !.ascii = 0, !.other = 6, !.wording = {"constraint"}],
     [ShortFact EXCEPT !.ascii = 30, !.procedural = TRUE, !.derived_from = <<1, 9>>]}

MCResults ==
    {[i \in 1 .. 5 |-> [kinds[i] EXCEPT !.event_id = i]] :
        kinds \in [1 .. 5 -> MCSnippets]} \cup {<<>>}

MCPaths == {<<>>, <<8, 2, 8>>}

(* The reserves are those of build_memory_context; the first budget is one *)
(* it raises for, the second leaves nothing for memory.                    *)
MCBudgets ==
    {[max_tokens |-> max_tokens, safety |-> 10, output |-> 30, tool |-> 10] :
        max_tokens \in {49, 50, 72, 100, 160}}

-----------------------------------------------------------------------------
(* Retrieval and context assembly are pure: they are examined once for all *)
(* inputs, in the state that no operation has touched.                     *)
Untouched ==
    /\ memory_events = <<>>
    /\ permissions = <<>>
    /\ audit_log = {}
    /\ now = 0

(***************************************************************************)
(* A search finds what is related to its query and only that, best first,  *)
(* and repetitions give way to other memories of comparable rank, for every*)
(* view, query and number of results (see IsRelevantAndDiverse).           *)
(***************************************************************************)
SearchIsRelevantAndDiverse ==
    Untouched =>
        \A view \in Views, query \in Queries : IsRelevantAndDiverse(query, view)

(***************************************************************************)
(* Every budget that is accepted is kept and used, and nothing that was    *)
(* found is lost without being reported (see FitsTheBudget).               *)
(***************************************************************************)
ContextFitsTheBudget ==
    Untouched =>
        \A results \in Results, paths \in Paths, budget \in Budgets :
            IsContextBudget(budget) => FitsTheBudget(results, paths, budget)
==============================================================================
