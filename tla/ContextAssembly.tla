---------------------------- MODULE ContextAssembly ----------------------------
(***************************************************************************)
(* ContextAssembler, HotMemoryCapsuleBuilder, ContextBudget and            *)
(* ConservativeTokenCounter: which of the retrieved memories go into a     *)
(* context bundle, which of those are repeated as capsules, and which      *)
(* events the bundle cites.  A pure computation over the results of a      *)
(* search; the audit record of a bundle is ConcurrentService's.            *)
(*                                                                         *)
(* Abstractions.  A text is the number of its ASCII and of its other       *)
(* characters and what its wording states.  The numbers of the counter are *)
(* exact: 13/10 of ascii / 3.5 + other, rounded up, plus 8.                *)
(***************************************************************************)
EXTENDS Integers, FiniteSets, SequencesExt

CONSTANTS
    Results,  \* the sequences of snippets a search returned
    Paths,    \* the sequences of events that relation paths cite
    Budgets   \* the context budgets callers ask for

Snippet ==
    [event_id: Nat, ascii: Nat, other: Nat, procedural: BOOLEAN,
     wording: SUBSET {"decision", "constraint"}, user_stated: BOOLEAN,
     confident: BOOLEAN, derived_from: Seq(Nat)]

ContextBudget == [max_tokens: Int, safety: Nat, output: Nat, tool: Nat]

(* A search returns an event once.                                         *)
ASSUME ContextAssumption ==
    /\ Results \subseteq Seq(Snippet)
    /\ \A results \in Results : \A i, j \in DOMAIN results :
          results[i].event_id = results[j].event_id => i = j
    /\ Paths \subseteq Seq(Nat)
    /\ Budgets \subseteq ContextBudget

Smaller(a, b) == IF a < b THEN a ELSE b

Larger(a, b) == IF a < b THEN b ELSE a

AvailableMemoryTokens(budget) ==
    budget.max_tokens - budget.safety - budget.output - budget.tool

(* __post_init__ raises for every other budget, before anything is read.   *)
IsContextBudget(budget) ==
    budget.max_tokens > 0 /\ AvailableMemoryTokens(budget) >= 0

(* The smallest integer not below 13/10 * (ascii / 3.5 + other), plus 8;   *)
(* an empty text costs nothing.                                            *)
Count(ascii, other) ==
    IF ascii + other = 0 THEN 0 ELSE (26 * ascii + 91 * other + 69) \div 70 + 8

EstimateTokens(snippet) == Count(snippet.ascii, snippet.other)

(* Mutant: the loop stops at the first memory that does not fit.           *)
PackUntilFull(costs, budget) ==
    LET Place(packed, i) ==
            IF packed.omitted # <<>> \/ packed.used + costs[i] > budget
            THEN [packed EXCEPT !.omitted = Append(@, i)]
            ELSE [packed EXCEPT !.kept = Append(@, i), !.used = @ + costs[i]]
    IN  FoldLeftDomain(Place, [kept |-> <<>>, omitted |-> <<>>, used |-> 0], costs)

(* The loop of build_context, and of the capsule builder: whole items, in  *)
(* order; one that does not fit is left out and the next one is tried.     *)
Pack(costs, budget) ==
    LET Place(packed, i) ==
            IF packed.used + costs[i] > budget
            THEN [packed EXCEPT !.omitted = Append(@, i)]
            ELSE [packed EXCEPT !.kept = Append(@, i), !.used = @ + costs[i]]
    IN  FoldLeftDomain(Place, [kept |-> <<>>, omitted |-> <<>>, used |-> 0], costs)

(* _category: the layer decides before the wording, and the wording before *)
(* the attribution.                                                        *)
Category(snippet) ==
    CASE snippet.procedural -> "procedural_candidate"
      [] ~snippet.procedural /\ "decision" \in snippet.wording -> "recent_decision"
      [] ~snippet.procedural /\ snippet.wording = {"constraint"} -> "active_constraint"
      [] ~snippet.procedural /\ snippet.wording = {} ->
            IF snippet.user_stated /\ snippet.confident
            THEN "stable_user_confirmed_fact"
            ELSE "recent_memory"

(* The characters of "capsule:" and the text of the category.              *)
CapsuleLength(category) ==
    CASE category = "stable_user_confirmed_fact" -> 13
      [] category = "recent_decision" -> 17
      [] category = "procedural_candidate" -> 18
      [] category = "active_constraint" -> 19
      [] category = "recent_memory" -> 15

MaxCapsuleTokens == 64

CapsuleBudget(available) == Larger(1, Smaller(MaxCapsuleTokens, available))

(* HotMemoryCapsuleBuilder.build over the snippets of the bundle.          *)
BuildCapsules(snippets, available) ==
    LET costs == [i \in DOMAIN snippets |->
                     Count(CapsuleLength(Category(snippets[i])), 0)]
        packed == Pack(costs, CapsuleBudget(available))
    IN  [capsules |-> [i \in DOMAIN packed.kept |->
                          [category |-> Category(snippets[packed.kept[i]]),
                           evidence |-> snippets[packed.kept[i]].event_id]],
         omitted |-> [i \in DOMAIN packed.omitted |->
                          snippets[packed.omitted[i]].event_id],
         used |-> packed.used]

(* Append the ids that are not there yet, in order.                        *)
Merged(ids) ==
    FoldLeft(LAMBDA merged, id :
                 IF Contains(merged, id) THEN merged ELSE Append(merged, id),
             <<>>, ids)

EvidenceEventIds(snippets, related) ==
    Merged(FlattenSeq([i \in DOMAIN snippets |->
                          <<snippets[i].event_id>> \o snippets[i].derived_from])
               \o related)

(* ContextAssembler.build_context.                                         *)
BuildContext(results, paths, budget) ==
    LET available == AvailableMemoryTokens(budget)
        packed == Pack([i \in DOMAIN results |-> EstimateTokens(results[i])], available)
        snippets == [i \in DOMAIN packed.kept |-> results[packed.kept[i]]]
    IN  [snippets |-> snippets,
         omitted |-> [i \in DOMAIN packed.omitted |-> results[packed.omitted[i]]],
         used |-> packed.used,
         hot |-> BuildCapsules(snippets, available),
         evidence |-> EvidenceEventIds(snippets, Merged(paths))]

-----------------------------------------------------------------------------
(* Properties.                                                             *)

TokensOf(snippets) ==
    FoldLeft(LAMBDA sum, snippet : sum + EstimateTokens(snippet), 0, snippets)

(***************************************************************************)
(* Under every budget that is accepted, one whose reserves leave nothing   *)
(* included: what is kept and the reserves never exceed max_tokens; every  *)
(* memory found is either kept or reported as omitted, in order; a long    *)
(* memory never hides a later one that still fits, so nothing that was     *)
(* omitted would fit in what is left; the capsules repeat kept memories    *)
(* only, within a budget of their own, and report what they leave out; and *)
(* the evidence is, once each, the kept memories with what they derive from*)
(* and the events of the relation paths.                                   *)
(***************************************************************************)
UsesTheBudget(bundle, budget) ==
    /\ bundle.used = TokensOf(bundle.snippets)
    /\ bundle.used + budget.safety + budget.output + budget.tool <= budget.max_tokens
    /\ \A i \in DOMAIN bundle.omitted :
          bundle.used + EstimateTokens(bundle.omitted[i])
              > AvailableMemoryTokens(budget)

IsInOrderOf(part, results) ==
    \A i, j \in DOMAIN part :
        i < j => \E first, later \in DOMAIN results :
                    /\ first < later
                    /\ results[first] = part[i] /\ results[later] = part[j]

LosesNothing(bundle, results) ==
    /\ \A i \in DOMAIN results :
          Contains(bundle.snippets, results[i]) # Contains(bundle.omitted, results[i])
    /\ IsInOrderOf(bundle.snippets, results)
    /\ IsInOrderOf(bundle.omitted, results)

CapsulesRepeatSnippets(bundle, budget) ==
    LET shown == {snippet.event_id : snippet \in ToSet(bundle.snippets)}
        repeated == {capsule.evidence : capsule \in ToSet(bundle.hot.capsules)}
    IN  /\ bundle.hot.used <= MaxCapsuleTokens
        /\ bundle.hot.used <= Larger(1, AvailableMemoryTokens(budget))
        /\ repeated \cap ToSet(bundle.hot.omitted) = {}
        /\ repeated \cup ToSet(bundle.hot.omitted) = shown

CitesItsEvidence(bundle, paths) ==
    /\ IsInjective(bundle.evidence)
    /\ ToSet(bundle.evidence) =
           ToSet(paths) \cup
           UNION {{snippet.event_id} \cup ToSet(snippet.derived_from) :
                     snippet \in ToSet(bundle.snippets)}

FitsTheBudget(results, paths, budget) ==
    LET bundle == BuildContext(results, paths, budget)
    IN  /\ UsesTheBudget(bundle, budget)
        /\ LosesNothing(bundle, results)
        /\ CapsulesRepeatSnippets(bundle, budget)
        /\ CitesItsEvidence(bundle, paths)
==============================================================================
