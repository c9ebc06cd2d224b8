------------------------------- MODULE Retrieval -------------------------------
(***************************************************************************)
(* LocalMemoryRetriever: how the events a caller may read are scored for a *)
(* query, put in order, and picked for relevance and diversity.  A pure    *)
(* computation over the view; what the view holds, and the audit records   *)
(* of a search, are ConcurrentService's.                                   *)
(*                                                                         *)
(* Abstractions.  A text is the set of its terms.  Entities are single     *)
(* terms.  The ranks of the full-text index and of a vector ranker, and    *)
(* the recency and quality of an event, are numbers on one integer scale.  *)
(* The arithmetic is exact, where the code rounds.                         *)
(***************************************************************************)
EXTENDS Integers, FiniteSets, SequencesExt

CONSTANTS
    Term,       \* the terms of texts, entities and queries
    Expansions, \* DEFAULT_TERM_EXPANSIONS: the synonyms of a term
    Views,      \* the views searched: functions from event ids to events
    Queries,    \* the sets of terms searched for
    TopK        \* the numbers of results asked for

IndexedEvent ==
    [terms: SUBSET Term, entities: SUBSET Term, bm25: Nat, vector: Nat,
     recency: Nat, confidence: Nat, importance: Nat]

IsView(view) ==
    /\ DOMAIN view \subseteq Nat /\ IsFiniteSet(DOMAIN view)
    /\ \A id \in DOMAIN view :
          /\ view[id] \in IndexedEvent
          /\ IsFiniteSet(view[id].terms) /\ IsFiniteSet(view[id].entities)

ASSUME RetrievalAssumption ==
    /\ Expansions \in [Term -> SUBSET Term]
    /\ \A view \in Views : IsView(view)
    /\ Queries \subseteq SUBSET Term
    /\ TopK \subseteq Int

(* _expanded_terms: the synonyms of a term are not expanded again.         *)
ExpandedTerms(query) == query \cup UNION {Expansions[term] : term \in query}

(* _event_terms counts an entity beside the terms of the text, so one that *)
(* the text names too counts twice.                                        *)
LexicalScore(query, event) ==
    Cardinality(ExpandedTerms(query) \cap event.terms)
        + Cardinality(ExpandedTerms(query) \cap event.entities)

EntityScore(query, event) == Cardinality(ExpandedTerms(query) \cap event.entities)

(* _score_event returns no result for an event that nothing relates to the *)
(* query, however recent or important it is.                               *)
IsRelated(query, event) ==
    \/ LexicalScore(query, event) # 0
    \/ EntityScore(query, event) # 0
    \/ event.bm25 # 0
    \/ event.vector # 0

(* _weighted_score with the default HybridRetrievalWeights.                *)
Score(query, event) ==
    10 * LexicalScore(query, event) + 3 * event.bm25 + 7 * event.vector
        + 3 * EntityScore(query, event)
        + event.recency + 2 * event.confidence + 2 * event.importance

(* The results before selection: best score first, then by event id.       *)
Ranked(query, view) ==
    LET related == {id \in DOMAIN view : IsRelated(query, view[id])}
        Precedes(left, right) ==
            \/ Score(query, view[left]) > Score(query, view[right])
            \/ /\ Score(query, view[left]) = Score(query, view[right])
               /\ left < right
    IN  [place \in 1 .. Cardinality(related) |->
            CHOOSE id \in related :
                Cardinality({other \in related : Precedes(other, id)}) = place - 1]

(* Jaccard similarity of two texts, in units of 1/Unit.  Unit is a multiple*)
(* of the number of terms two texts of the model may have.                 *)
Unit == 60

Similarity(left, right) ==
    IF left.terms = {} \/ right.terms = {}
    THEN 0
    ELSE (Unit * Cardinality(left.terms \cap right.terms))
             \div Cardinality(left.terms \cup right.terms)

Largest(numbers) == CHOOSE n \in numbers : \A m \in numbers : m <= n

(* Mutant: only the result chosen last is penalised against.               *)
PenaltyOfLast(view, chosen, id) ==
    IF chosen = <<>> THEN 0 ELSE Similarity(view[id], view[Last(chosen)])

(* The similarity to the most similar of the results chosen so far.        *)
Penalty(view, chosen, id) ==
    Largest({0} \cup {Similarity(view[id], view[other]) : other \in ToSet(chosen)})

(* mmr_lambda is 0.7: relevance, relative to the best score, against       *)
(* similarity; multiplied by 10, Unit and the best score to stay integer.  *)
MarginalRelevance(query, view, chosen, best, id) ==
    7 * Unit * Score(query, view[id]) - 3 * best * Penalty(view, chosen, id)

(* _select_mmr: of equal values the one ranked first is taken.             *)
SelectMMR(query, view, ranked, top_k) ==
    LET best == Largest({1} \cup {Score(query, view[id]) : id \in ToSet(ranked)})
        Value(chosen, i) == MarginalRelevance(query, view, chosen, best, ranked[i])
        Remaining(chosen) ==
            {i \in DOMAIN ranked : ranked[i] \notin ToSet(chosen)}
        Next(chosen) ==
            CHOOSE i \in Remaining(chosen) :
                \A j \in Remaining(chosen) :
                    \/ Value(chosen, j) < Value(chosen, i)
                    \/ Value(chosen, j) = Value(chosen, i) /\ i <= j
        Take(chosen, step) ==
            IF Remaining(chosen) = {}
            THEN chosen
            ELSE Append(chosen, ranked[Next(chosen)])
    IN  FoldLeft(Take, <<>>, [step \in 1 .. top_k |-> step])

(* search() with the view already projected; a negative top_k is zero.     *)
Search(query, view, top_k) ==
    SelectMMR(query, view, Ranked(query, view), top_k)

-----------------------------------------------------------------------------
(* Properties.                                                             *)

(***************************************************************************)
(* What a search promises, whatever the view: it finds as many as it may of*)
(* the events related to the query and only those, each once; the best     *)
(* comes first; asking for fewer results gives the same list cut short; and*)
(* a text that is already in the list is shown again, before a result that *)
(* shares no term with any shown before, only when it scores better by at  *)
(* least three sevenths of the best score: repetitions never crowd out     *)
(* unrelated memories of comparable rank.                                  *)
(***************************************************************************)
FindsTheRelated(query, view, top_k) ==
    LET found == Search(query, view, top_k)
        related == {id \in DOMAIN view :
                        \/ ExpandedTerms(query)
                               \cap (view[id].terms \cup view[id].entities) # {}
                        \/ view[id].bm25 + view[id].vector > 0}
    IN  /\ IsInjective(found)
        /\ ToSet(found) \subseteq related
        /\ top_k >= Cardinality(related) => ToSet(found) = related
        /\ top_k < Cardinality(related) => Len(found) = Largest({0, top_k})

BestComesFirst(query, view, found) ==
    found # <<>> =>
        \A id \in DOMAIN view :
            IsRelated(query, view[id]) =>
                Score(query, view[id]) <= Score(query, view[found[1]])

RepeatsEarlier(view, found, i) ==
    \E j \in 1 .. (i - 1) : Similarity(view[found[i]], view[found[j]]) = Unit

IsNewAt(view, found, i, id) ==
    \A j \in 1 .. (i - 1) : Similarity(view[id], view[found[j]]) = 0

RepetitionYields(query, view, found) ==
    \A i \in DOMAIN found, later \in DOMAIN found :
        (i < later /\ RepeatsEarlier(view, found, i)
             /\ IsNewAt(view, found, i, found[later]))
        => 7 * (Score(query, view[found[i]]) - Score(query, view[found[later]]))
               >= 3 * Score(query, view[found[1]])

IsRelevantAndDiverse(query, view) ==
    LET everything == Search(query, view, Cardinality(DOMAIN view))
    IN  /\ BestComesFirst(query, view, everything)
        /\ RepetitionYields(query, view, everything)
        /\ \A top_k \in TopK :
              /\ FindsTheRelated(query, view, top_k)
              /\ IsPrefix(Search(query, view, top_k), everything)
==============================================================================
