------------------------ MODULE SearchAndContextProofs ------------------------
(***************************************************************************)
(* Proofs about what a search returns and what a context bundle holds, for *)
(* every view, query, list of results and budget.  The algorithms are      *)
(* loops; each proof unrolls the fold that stands for the loop and gives   *)
(* the invariant of its turns.                                             *)
(***************************************************************************)
EXTENDS MCMemoryLifecycle, FoldLemmas, SequenceTheorems, FiniteSetTheorems

-----------------------------------------------------------------------------
(***************************************************************************)
(* Packing.                                                                *)
(***************************************************************************)
NothingPacked == [kept |-> <<>>, omitted |-> <<>>, used |-> 0]

(* One turn of the loop.                                                   *)
Placed(costs, budget, packed, i) ==
    IF packed.used + costs[i] > budget
    THEN [packed EXCEPT !.omitted = Append(@, i)]
    ELSE [packed EXCEPT !.kept = Append(@, i), !.used = @ + costs[i]]

Packing(n) == [kept: Seq(1 .. n), omitted: Seq(1 .. n), used: Nat]

(* A turn keeps a packing a packing.                                       *)
LEMMA PlacedType ==
    ASSUME NEW n \in Nat, NEW costs \in [1 .. n -> Nat], NEW budget \in Int,
           NEW packed \in Packing(n), NEW i \in 1 .. n
    PROVE  Placed(costs, budget, packed, i) \in Packing(n)
<1>1. /\ packed.kept \in Seq(1 .. n) /\ packed.omitted \in Seq(1 .. n)
      /\ packed.used \in Nat /\ costs[i] \in Nat
  BY DEF Packing
<1>2. /\ Append(packed.kept, i) \in Seq(1 .. n)
      /\ Append(packed.omitted, i) \in Seq(1 .. n)
      /\ packed.used + costs[i] \in Nat
  BY <1>1, AppendProperties
<1>3. QED
  BY <1>1, <1>2 DEF Packing, Placed

(* The fold is the loop.                                                   *)
LEMMA PackUnrolls ==
    ASSUME NEW n \in Nat, NEW costs \in [1 .. n -> Nat], NEW budget \in Int
    PROVE  \E after :
               /\ after[0] = NothingPacked
               /\ \A k \in 1 .. n : after[k] = Placed(costs, budget, after[k - 1], k)
               /\ Pack(costs, budget) = after[n]
<1> DEFINE steps == [i \in DOMAIN costs |-> i]
           Fold(g) == [s \in SUBSET (DOMAIN steps) |->
                          IF s = {} THEN NothingPacked
                          ELSE Placed(costs, budget, g[s \ {Max(s)}], steps[Max(s)])]
           fold == CHOOSE g : g = Fold(g)
<1>1. Pack(costs, budget) = fold[DOMAIN steps]
  BY Zenon DEF Pack, FoldLeftDomain, FoldLeft, MapThenFoldSet, Placed, NothingPacked
<1>2. DOMAIN steps = 1 .. n /\ \A i \in 1 .. n : steps[i] = i
  OBVIOUS
<1> HIDE DEF steps
<1>3. \E g : g = Fold(g)
  <2> DEFINE turn == [arg \in (1 .. n) \X Packing(n) |->
                         Placed(costs, budget, arg[2], arg[1])]
  <2>1. NothingPacked \in Packing(n)
    BY DEF NothingPacked, Packing
  <2>2. turn \in [(1 .. n) \X Packing(n) -> Packing(n)]
    BY PlacedType
  <2>3. PICK g : IsFold(g, n, Packing(n), NothingPacked, turn)
    <3> HIDE DEF turn
    <3>1. QED
      BY <2>1, <2>2, FoldExists
  <2>4. ASSUME NEW s \in SUBSET (1 .. n), s # {}
        PROVE  turn[<<Max(s), g[s \ {Max(s)}]>>]
                   = Placed(costs, budget, g[s \ {Max(s)}], steps[Max(s)])
    <3>1. Max(s) \in 1 .. n
      BY <2>4, LargestIsOne
    <3>2. g[s \ {Max(s)}] \in Packing(n)
      BY <2>3 DEF IsFold
    <3>3. QED
      BY <1>2, <3>1, <3>2
  <2> HIDE DEF turn
  <2>5. g = Fold(g)
    BY <1>2, <2>3, <2>4 DEF IsFold
  <2>6. QED
    BY <2>5
<1>4. fold = Fold(fold)
  <2> HIDE DEF Fold
  <2>1. QED
    BY <1>3
<1> HIDE DEF fold
<1>5. \A s \in SUBSET (1 .. n) :
          fold[s] = IF s = {} THEN NothingPacked
                    ELSE Placed(costs, budget, fold[s \ {Max(s)}], steps[Max(s)])
  BY <1>2, <1>4
<1> HIDE DEF Fold
<1>6. fold[1 .. 0] = NothingPacked
  <2>1. 1 .. 0 = {} /\ {} \in SUBSET (1 .. n)
    OBVIOUS
  <2>2. QED
    BY <1>5, <2>1, Zenon
<1>7. ASSUME NEW k \in 1 .. n
      PROVE  fold[1 .. k] = Placed(costs, budget, fold[1 .. (k - 1)], k)
  <2>1. /\ 1 .. k \in SUBSET (1 .. n) /\ 1 .. k # {}
        /\ Max(1 .. k) = k /\ (1 .. k) \ {k} = 1 .. (k - 1)
    <3>1. k \in Nat \ {0} /\ 1 .. k \in SUBSET (1 .. n) /\ 1 .. k # {}
      OBVIOUS
    <3>2. QED
      BY <3>1, LargestOfFirst
  <2>2. fold[1 .. k] = Placed(costs, budget, fold[(1 .. k) \ {Max(1 .. k)}],
                              steps[Max(1 .. k)])
    BY <1>5, <2>1, Zenon
  <2>3. steps[k] = k
    BY <1>2
  <2>4. QED
    BY <2>1, <2>2, <2>3, Zenon
<1>8. QED
  <2> DEFINE after == [k \in 0 .. n |-> fold[1 .. k]]
  <2>1. /\ after[0] = NothingPacked
        /\ \A k \in 1 .. n : after[k] = Placed(costs, budget, after[k - 1], k)
        /\ Pack(costs, budget) = after[n]
    BY <1>1, <1>2, <1>6, <1>7
  <2>2. QED
    BY <2>1

(* Positions in increasing order.                                          *)
Increasing(positions) ==
    \A i, j \in DOMAIN positions : i < j => positions[i] < positions[j]

(* The costs of what was kept add up to what is used.                      *)
AddsUp(costs, kept, used) ==
    \E total \in [0 .. Len(kept) -> Nat] :
        /\ total[0] = 0
        /\ \A j \in 1 .. Len(kept) : total[j] = total[j - 1] + costs[kept[j]]
        /\ used = total[Len(kept)]

(* What holds of the loop after k turns: each of the first k positions is  *)
(* either kept or omitted, in order, and only what did not fit is omitted. *)
PackedSoFar(n, costs, budget, k, packed) ==
    /\ packed \in Packing(n)
    /\ Increasing(packed.kept) /\ Increasing(packed.omitted)
    /\ ToSet(packed.kept) \cup ToSet(packed.omitted) = 1 .. k
    /\ ToSet(packed.kept) \cap ToSet(packed.omitted) = {}
    /\ packed.used <= budget
    /\ \A i \in ToSet(packed.omitted) : packed.used + costs[i] > budget
    /\ AddsUp(costs, packed.kept, packed.used)

(* What a longer list holds.                                               *)
LEMMA AppendedElements ==
    ASSUME NEW S, NEW positions \in Seq(S), NEW k \in S
    PROVE  ToSet(Append(positions, k)) = ToSet(positions) \cup {k}
<1>1. PICK m, longer : m = Len(positions) /\ longer = Append(positions, k)
  OBVIOUS
<1>2. /\ m \in Nat /\ DOMAIN positions = 1 .. m /\ DOMAIN longer = 1 .. (m + 1)
      /\ \A i \in 1 .. m : longer[i] = positions[i]
      /\ longer[m + 1] = k
  BY <1>1, AppendProperties, LenProperties
<1>3. 1 .. (m + 1) = (1 .. m) \cup {m + 1}
  BY <1>2
<1>4. QED
  BY <1>1, <1>2, <1>3 DEF ToSet

(* A position behind all others keeps the positions in order.              *)
LEMMA AppendIncreasing ==
    ASSUME NEW n \in Nat, NEW k \in 1 .. n, NEW positions \in Seq(1 .. n),
           Increasing(positions), ToSet(positions) \subseteq 1 .. (k - 1)
    PROVE  /\ Increasing(Append(positions, k))
           /\ ToSet(Append(positions, k)) = ToSet(positions) \cup {k}
           /\ k \notin ToSet(positions)
<1>1. PICK m, longer : m = Len(positions) /\ longer = Append(positions, k)
  OBVIOUS
<1>2. /\ m \in Nat /\ DOMAIN positions = 1 .. m /\ DOMAIN longer = 1 .. (m + 1)
      /\ \A i \in 1 .. m : longer[i] = positions[i]
      /\ longer[m + 1] = k
  BY <1>1, AppendProperties, LenProperties
<1>3. \A i \in 1 .. m : positions[i] \in 1 .. (k - 1)
  BY <1>2 DEF ToSet
<1>4. ASSUME NEW i \in 1 .. (m + 1), NEW j \in 1 .. (m + 1), i < j
      PROVE  longer[i] < longer[j]
  <2>1. i \in 1 .. m
    BY <1>2, <1>4
  <2>2. CASE j = m + 1
    BY <1>2, <1>3, <2>1, <2>2
  <2>3. CASE j # m + 1
    <3>1. j \in 1 .. m
      BY <1>2, <2>3
    <3>2. positions[i] < positions[j]
      BY <1>2, <1>4, <2>1, <3>1 DEF Increasing
    <3>3. QED
      BY <1>2, <2>1, <3>1, <3>2
  <2>4. QED
    BY <2>2, <2>3
<1>5. Increasing(longer)
  BY <1>2, <1>4 DEF Increasing
<1>6. ToSet(longer) = ToSet(positions) \cup {k}
  BY <1>1, AppendedElements
<1>7. k \notin ToSet(positions)
  OBVIOUS
<1>8. QED
  BY <1>1, <1>5, <1>6, <1>7

(* What is kept is paid for.                                               *)
LEMMA AppendAddsUp ==
    ASSUME NEW n \in Nat, NEW costs \in [1 .. n -> Nat], NEW k \in 1 .. n,
           NEW kept \in Seq(1 .. n), NEW used \in Nat, AddsUp(costs, kept, used)
    PROVE  AddsUp(costs, Append(kept, k), used + costs[k])
<1>1. PICK m, longer : m = Len(kept) /\ longer = Append(kept, k)
  OBVIOUS
<1>2. /\ m \in Nat /\ Len(longer) = m + 1
      /\ \A i \in 1 .. m : longer[i] = kept[i]
      /\ longer[m + 1] = k
  BY <1>1, AppendProperties, LenProperties
<1>3. PICK total \in [0 .. m -> Nat] :
          /\ total[0] = 0
          /\ \A j \in 1 .. m : total[j] = total[j - 1] + costs[kept[j]]
          /\ used = total[m]
  BY <1>1 DEF AddsUp
<1> DEFINE more == [j \in 0 .. (m + 1) |-> IF j <= m THEN total[j] ELSE used + costs[k]]
<1>4. more \in [0 .. (m + 1) -> Nat]
  BY <1>2
<1>5. more[0] = 0 /\ more[m + 1] = used + costs[k]
  BY <1>2, <1>3
<1>6. ASSUME NEW j \in 1 .. (m + 1)
      PROVE  more[j] = more[j - 1] + costs[longer[j]]
  <2>1. j - 1 \in 0 .. m /\ more[j - 1] = total[j - 1]
    BY <1>2
  <2>2. CASE j = m + 1
    BY <1>2, <1>3, <2>1, <2>2
  <2>3. CASE j # m + 1
    <3>1. j \in 1 .. m /\ more[j] = total[j] /\ longer[j] = kept[j]
      BY <1>2, <2>3
    <3>2. total[j] = total[j - 1] + costs[kept[j]]
      BY <1>3, <3>1
    <3> HIDE DEF more
    <3>3. QED
      BY <2>1, <3>1, <3>2
  <2>4. QED
    BY <2>2, <2>3
<1> HIDE DEF more
<1>7. QED
  BY <1>1, <1>2, <1>4, <1>5, <1>6 DEF AddsUp

(* A turn keeps what holds of the loop.                                    *)
LEMMA TurnKeepsPacking ==
    ASSUME NEW n \in Nat, NEW costs \in [1 .. n -> Nat], NEW budget \in Int,
           NEW k \in 1 .. n, NEW packed, PackedSoFar(n, costs, budget, k - 1, packed)
    PROVE  PackedSoFar(n, costs, budget, k, Placed(costs, budget, packed, k))
<1>1. /\ packed \in Packing(n)
      /\ packed.kept \in Seq(1 .. n) /\ packed.omitted \in Seq(1 .. n)
      /\ packed.used \in Nat /\ costs[k] \in Nat
      /\ \A i \in 1 .. n : costs[i] \in Nat
  BY DEF PackedSoFar, Packing
<1>2. PICK next : next = Placed(costs, budget, packed, k)
  OBVIOUS
<1>3. next \in Packing(n)
  BY <1>1, <1>2, PlacedType
<1>4. /\ ToSet(packed.kept) \subseteq 1 .. (k - 1)
      /\ ToSet(packed.omitted) \subseteq 1 .. (k - 1)
      /\ ToSet(packed.kept) \cup ToSet(packed.omitted) = 1 .. (k - 1)
      /\ ToSet(packed.kept) \cap ToSet(packed.omitted) = {}
      /\ Increasing(packed.kept) /\ Increasing(packed.omitted)
  BY DEF PackedSoFar
<1>5. 1 .. k = (1 .. (k - 1)) \cup {k} /\ k \notin 1 .. (k - 1)
  OBVIOUS
<1>6. CASE packed.used + costs[k] > budget
  <2>1. /\ next.kept = packed.kept /\ next.used = packed.used
        /\ next.omitted = Append(packed.omitted, k)
    BY <1>1, <1>2, <1>6 DEF Placed, Packing
  <2>2. /\ Increasing(next.omitted)
        /\ ToSet(next.omitted) = ToSet(packed.omitted) \cup {k}
    BY <1>1, <1>4, <2>1, AppendIncreasing
  <2>3. /\ ToSet(next.kept) \cup ToSet(next.omitted) = 1 .. k
        /\ ToSet(next.kept) \cap ToSet(next.omitted) = {}
    BY <1>4, <1>5, <2>1, <2>2
  <2>4. \A i \in ToSet(next.omitted) : next.used + costs[i] > budget
    BY <1>6, <2>1, <2>2 DEF PackedSoFar
  <2>5. next.used <= budget /\ AddsUp(costs, next.kept, next.used)
    BY <2>1 DEF PackedSoFar
  <2>6. QED
    BY <1>2, <1>3, <1>4, <2>1, <2>2, <2>3, <2>4, <2>5 DEF PackedSoFar
<1>7. CASE ~(packed.used + costs[k] > budget)
  <2>1. /\ next.kept = Append(packed.kept, k)
        /\ next.used = packed.used + costs[k]
        /\ next.omitted = packed.omitted
    BY <1>1, <1>2, <1>7 DEF Placed, Packing
  <2>2. /\ Increasing(next.kept)
        /\ ToSet(next.kept) = ToSet(packed.kept) \cup {k}
    BY <1>1, <1>4, <2>1, AppendIncreasing
  <2>3. /\ ToSet(next.kept) \cup ToSet(next.omitted) = 1 .. k
        /\ ToSet(next.kept) \cap ToSet(next.omitted) = {}
    BY <1>4, <1>5, <2>1, <2>2
  <2>4. \A i \in ToSet(next.omitted) : next.used + costs[i] > budget
    <3> SUFFICES ASSUME NEW i \in ToSet(packed.omitted)
                 PROVE  packed.used + costs[k] + costs[i] > budget
      BY <2>1
    <3>1. packed.used + costs[i] > budget
      BY DEF PackedSoFar
    <3>2. i \in 1 .. n
      BY <1>4
    <3>3. QED
      BY <1>1, <3>1, <3>2
  <2>5. next.used <= budget
    BY <1>1, <1>7, <2>1
  <2>6. AddsUp(costs, next.kept, next.used)
    <3>1. AddsUp(costs, packed.kept, packed.used)
      BY DEF PackedSoFar
    <3>2. QED
      BY <1>1, <2>1, <3>1, AppendAddsUp
  <2>7. QED
    BY <1>2, <1>3, <1>4, <2>1, <2>2, <2>3, <2>4, <2>5, <2>6 DEF PackedSoFar
<1>8. QED
  BY <1>6, <1>7

(* What the loop has done when it is over.                                 *)
LEMMA PackIsSound ==
    ASSUME NEW n \in Nat, NEW costs \in [1 .. n -> Nat], NEW budget \in Nat
    PROVE  PackedSoFar(n, costs, budget, n, Pack(costs, budget))
<1>1. PICK after :
          /\ after[0] = NothingPacked
          /\ \A k \in 1 .. n : after[k] = Placed(costs, budget, after[k - 1], k)
          /\ Pack(costs, budget) = after[n]
  BY PackUnrolls
<1> DEFINE S == {k \in 0 .. n : PackedSoFar(n, costs, budget, k, after[k])}
<1>2. 0 \in S
  <2>1. /\ NothingPacked \in Packing(n)
        /\ NothingPacked.kept = <<>> /\ NothingPacked.omitted = <<>>
        /\ NothingPacked.used = 0
    BY DEF NothingPacked, Packing
  <2>2. ToSet(<<>>) = {} /\ Increasing(<<>>) /\ 1 .. 0 = {}
    BY DEF ToSet, Increasing
  <2>3. AddsUp(costs, <<>>, 0)
    <3>1. PICK none : none = [j \in 0 .. 0 |-> 0]
      OBVIOUS
    <3>2. none \in [0 .. 0 -> Nat] /\ none[0] = 0 /\ Len(<<>>) = 0
      BY <3>1
    <3>3. \A j \in 1 .. 0 : FALSE
      OBVIOUS
    <3>4. QED
      BY <3>2, <3>3 DEF AddsUp
  <2>4. PackedSoFar(n, costs, budget, 0, NothingPacked)
    BY <2>1, <2>2, <2>3 DEF PackedSoFar
  <2>5. QED
    BY <1>1, <2>4
<1>3. ASSUME NEW k \in 1 .. n, k - 1 \in S PROVE k \in S
  <2>1. PackedSoFar(n, costs, budget, k - 1, after[k - 1])
    BY <1>3
  <2>2. PackedSoFar(n, costs, budget, k, Placed(costs, budget, after[k - 1], k))
    BY <2>1, TurnKeepsPacking
  <2>3. QED
    BY <1>1, <2>2
<1>4. n \in S
  <2> HIDE DEF S
  <2>1. \A k \in 0 .. n : k \in S
    BY <1>2, <1>3, EveryTurn
  <2>2. QED
    BY <2>1
<1>5. QED
  BY <1>1, <1>4

-----------------------------------------------------------------------------
(***************************************************************************)
(* The tokens of a list, and lists without repetition.                     *)
(***************************************************************************)
LEMMA FunctionIsSeq ==
    ASSUME NEW n \in Nat, NEW S, NEW f \in [1 .. n -> S]
    PROVE  f \in Seq(S) /\ Len(f) = n
<1>1. f \in Seq(S)
  BY SeqDef
<1>2. Len(f) \in Nat /\ 1 .. Len(f) = 1 .. n
  BY <1>1, LenProperties
<1>3. Len(f) = n
  BY <1>2
<1>4. QED
  BY <1>1, <1>3

(* An estimate of tokens is a number.                                      *)
LEMMA EstimateIsNatural ==
    /\ \A ascii, other \in Nat : Count(ascii, other) \in Nat
    /\ \A snippet \in Snippet : EstimateTokens(snippet) \in Nat
<1>1. ASSUME NEW ascii \in Nat, NEW other \in Nat
      PROVE  Count(ascii, other) \in Nat
  <2>1. PICK x \in Nat : x = 26 * ascii + 91 * other + 69
    OBVIOUS
  <2>2. x \div 70 \in Nat
    OBVIOUS
  <2>3. (x \div 70) + 8 \in Nat
    BY <2>2
  <2>4. QED
    BY <2>1, <2>3 DEF Count
<1>2. \A snippet \in Snippet : snippet.ascii \in Nat /\ snippet.other \in Nat
  BY DEF Snippet
<1>3. QED
  BY <1>1, <1>2 DEF EstimateTokens

(* The fold of TokensOf is the loop that adds up.                          *)
LEMMA TokensUnroll ==
    ASSUME NEW n \in Nat, NEW snippets \in [1 .. n -> Snippet]
    PROVE  \E sum :
               /\ sum[0] = 0
               /\ \A k \in 1 .. n : sum[k] = sum[k - 1] + EstimateTokens(snippets[k])
               /\ TokensOf(snippets) = sum[n]
<1> DEFINE Fold(g) == [s \in SUBSET (DOMAIN snippets) |->
                          IF s = {} THEN 0
                          ELSE g[s \ {Max(s)}] + EstimateTokens(snippets[Max(s)])]
           fold == CHOOSE g : g = Fold(g)
<1>1. TokensOf(snippets) = fold[DOMAIN snippets]
  BY Zenon DEF TokensOf, FoldLeft, MapThenFoldSet
<1>2. DOMAIN snippets = 1 .. n
  OBVIOUS
<1>3. \E g : g = Fold(g)
  <2> DEFINE turn == [arg \in (1 .. n) \X Nat |->
                         arg[2] + EstimateTokens(snippets[arg[1]])]
  <2>1. turn \in [(1 .. n) \X Nat -> Nat]
    <3>1. \A i \in 1 .. n : EstimateTokens(snippets[i]) \in Nat
      BY EstimateIsNatural
    <3>2. \A i \in 1 .. n, sum \in Nat : sum + EstimateTokens(snippets[i]) \in Nat
      BY <3>1
    <3>3. QED
      BY <3>2
  <2>2. PICK g : IsFold(g, n, Nat, 0, turn)
    <3> HIDE DEF turn
    <3>1. QED
      BY <2>1, FoldExists
  <2>3. ASSUME NEW s \in SUBSET (1 .. n), s # {}
        PROVE  turn[<<Max(s), g[s \ {Max(s)}]>>]
                   = g[s \ {Max(s)}] + EstimateTokens(snippets[Max(s)])
    <3>1. Max(s) \in 1 .. n
      BY <2>3, LargestIsOne
    <3>2. g[s \ {Max(s)}] \in Nat
      BY <2>2 DEF IsFold
    <3>3. QED
      BY <3>1, <3>2
  <2> HIDE DEF turn
  <2>4. g = Fold(g)
    BY <1>2, <2>2, <2>3 DEF IsFold
  <2>5. QED
    BY <2>4
<1>4. fold = Fold(fold)
  <2> HIDE DEF Fold
  <2>1. QED
    BY <1>3
<1> HIDE DEF fold
<1>5. \A s \in SUBSET (1 .. n) :
          fold[s] = IF s = {} THEN 0
                    ELSE fold[s \ {Max(s)}] + EstimateTokens(snippets[Max(s)])
  BY <1>2, <1>4
<1> HIDE DEF Fold
<1>6. fold[1 .. 0] = 0
  <2>1. 1 .. 0 = {} /\ {} \in SUBSET (1 .. n)
    OBVIOUS
  <2>2. QED
    BY <1>5, <2>1, Zenon
<1>7. ASSUME NEW k \in 1 .. n
      PROVE  fold[1 .. k] = fold[1 .. (k - 1)] + EstimateTokens(snippets[k])
  <2>1. k \in Nat \ {0} /\ 1 .. k \in SUBSET (1 .. n) /\ 1 .. k # {}
    <3>1. k \in Nat /\ k # 0 /\ k \in 1 .. k /\ k <= n
      OBVIOUS
    <3>2. QED
      BY <3>1
  <2>2. Max(1 .. k) = k /\ (1 .. k) \ {k} = 1 .. (k - 1)
    BY <2>1, LargestOfFirst
  <2>3. fold[1 .. k] = fold[(1 .. k) \ {Max(1 .. k)}]
                           + EstimateTokens(snippets[Max(1 .. k)])
    BY <1>5, <2>1, Zenon
  <2>4. QED
    BY <2>2, <2>3, Zenon
<1>8. QED
  <2> DEFINE sum == [k \in 0 .. n |-> fold[1 .. k]]
  <2>1. /\ sum[0] = 0
        /\ \A k \in 1 .. n : sum[k] = sum[k - 1] + EstimateTokens(snippets[k])
        /\ TokensOf(snippets) = sum[n]
    BY <1>1, <1>2, <1>6, <1>7
  <2>2. QED
    BY <2>1

(* The snippets are those kept, and their costs add up to what is used.    *)
PaysFor(n, costs, kept, used, m, snippets) ==
    /\ n \in Nat /\ costs \in [1 .. n -> Nat]
    /\ kept \in Seq(1 .. n) /\ m = Len(kept) /\ AddsUp(costs, kept, used)
    /\ snippets \in [1 .. m -> Snippet]
    /\ \A i \in 1 .. m : EstimateTokens(snippets[i]) = costs[kept[i]]

(* What Pack calls used is what the kept snippets cost.                    *)
LEMMA UsedIsTokens ==
    ASSUME NEW n, NEW costs, NEW kept, NEW used, NEW m, NEW snippets,
           PaysFor(n, costs, kept, used, m, snippets)
    PROVE  used = TokensOf(snippets)
<1> USE DEF PaysFor
<1>1. m \in Nat
  BY LenProperties
<1>2. PICK total \in [0 .. m -> Nat] :
          /\ total[0] = 0
          /\ \A j \in 1 .. m : total[j] = total[j - 1] + costs[kept[j]]
          /\ used = total[m]
  BY DEF AddsUp
<1>3. PICK sum :
          /\ sum[0] = 0
          /\ \A k \in 1 .. m : sum[k] = sum[k - 1] + EstimateTokens(snippets[k])
          /\ TokensOf(snippets) = sum[m]
  BY <1>1, TokensUnroll
<1> DEFINE S == {k \in 0 .. m : sum[k] = total[k]}
<1>4. 0 \in S
  BY <1>1, <1>2, <1>3
<1>5. ASSUME NEW k \in 1 .. m, k - 1 \in S PROVE k \in S
  <2>1. sum[k - 1] = total[k - 1] /\ k \in 0 .. m
    BY <1>1, <1>5
  <2>2. sum[k] = total[k]
    BY <1>2, <1>3, <2>1
  <2>3. QED
    BY <2>1, <2>2
<1>6. m \in S
  <2> HIDE DEF S
  <2>1. \A k \in 0 .. m : k \in S
    BY <1>1, <1>4, <1>5, EveryTurn
  <2>2. QED
    BY <1>1, <2>1
<1>7. QED
  BY <1>2, <1>3, <1>6

(* One turn of Merged.                                                     *)
WithId(merged, id) == IF Contains(merged, id) THEN merged ELSE Append(merged, id)

(* The fold is the loop.                                                   *)
LEMMA MergedUnrolls ==
    ASSUME NEW n \in Nat, NEW ids \in [1 .. n -> Nat]
    PROVE  \E after :
               /\ after[0] = <<>>
               /\ \A k \in 1 .. n : after[k] = WithId(after[k - 1], ids[k])
               /\ Merged(ids) = after[n]
<1> DEFINE Fold(g) == [s \in SUBSET (DOMAIN ids) |->
                          IF s = {} THEN <<>>
                          ELSE WithId(g[s \ {Max(s)}], ids[Max(s)])]
           fold == CHOOSE g : g = Fold(g)
<1>1. Merged(ids) = fold[DOMAIN ids]
  BY Zenon DEF Merged, FoldLeft, MapThenFoldSet, WithId
<1>2. DOMAIN ids = 1 .. n
  OBVIOUS
<1>3. \E g : g = Fold(g)
  <2> DEFINE turn == [arg \in (1 .. n) \X Seq(Nat) |-> WithId(arg[2], ids[arg[1]])]
  <2>1. <<>> \in Seq(Nat)
    OBVIOUS
  <2>2. turn \in [(1 .. n) \X Seq(Nat) -> Seq(Nat)]
    <3>1. \A merged \in Seq(Nat), id \in Nat : WithId(merged, id) \in Seq(Nat)
      BY AppendProperties DEF WithId
    <3>2. QED
      BY <3>1
  <2>3. PICK g : IsFold(g, n, Seq(Nat), <<>>, turn)
    <3> HIDE DEF turn
    <3>1. QED
      BY <2>1, <2>2, FoldExists
  <2>4. ASSUME NEW s \in SUBSET (1 .. n), s # {}
        PROVE  turn[<<Max(s), g[s \ {Max(s)}]>>]
                   = WithId(g[s \ {Max(s)}], ids[Max(s)])
    <3>1. Max(s) \in 1 .. n
      BY <2>4, LargestIsOne
    <3>2. g[s \ {Max(s)}] \in Seq(Nat)
      BY <2>3 DEF IsFold
    <3>3. QED
      BY <3>1, <3>2
  <2> HIDE DEF turn
  <2>5. g = Fold(g)
    BY <1>2, <2>3, <2>4 DEF IsFold
  <2>6. QED
    BY <2>5
<1>4. fold = Fold(fold)
  <2> HIDE DEF Fold
  <2>1. QED
    BY <1>3
<1> HIDE DEF fold
<1>5. \A s \in SUBSET (1 .. n) :
          fold[s] = IF s = {} THEN <<>>
                    ELSE WithId(fold[s \ {Max(s)}], ids[Max(s)])
  BY <1>2, <1>4
<1> HIDE DEF Fold
<1>6. fold[1 .. 0] = <<>>
  <2>1. 1 .. 0 = {} /\ {} \in SUBSET (1 .. n)
    OBVIOUS
  <2>2. QED
    BY <1>5, <2>1, Zenon
<1>7. ASSUME NEW k \in 1 .. n
      PROVE  fold[1 .. k] = WithId(fold[1 .. (k - 1)], ids[k])
  <2>1. k \in Nat \ {0} /\ 1 .. k \in SUBSET (1 .. n) /\ 1 .. k # {}
    OBVIOUS
  <2>2. Max(1 .. k) = k /\ (1 .. k) \ {k} = 1 .. (k - 1)
    BY <2>1, LargestOfFirst
  <2>3. fold[1 .. k] = WithId(fold[(1 .. k) \ {Max(1 .. k)}], ids[Max(1 .. k)])
    BY <1>5, <2>1, Zenon
  <2>4. QED
    BY <2>2, <2>3, Zenon
<1>8. QED
  <2> DEFINE after == [k \in 0 .. n |-> fold[1 .. k]]
  <2>1. /\ after[0] = <<>>
        /\ \A k \in 1 .. n : after[k] = WithId(after[k - 1], ids[k])
        /\ Merged(ids) = after[n]
    BY <1>1, <1>2, <1>6, <1>7
  <2>2. QED
    BY <2>1

(* A turn adds an id once.                                                 *)
LEMMA TurnMerges ==
    ASSUME NEW merged \in Seq(Nat), IsInjective(merged), NEW id \in Nat
    PROVE  /\ WithId(merged, id) \in Seq(Nat)
           /\ IsInjective(WithId(merged, id))
           /\ ToSet(WithId(merged, id)) = ToSet(merged) \cup {id}
<1>1. PICK m \in Nat : m = Len(merged) /\ DOMAIN merged = 1 .. m
  BY LenProperties
<1>2. Contains(merged, id) <=> id \in ToSet(merged)
  BY <1>1 DEF Contains, ToSet
<1>3. CASE id \in ToSet(merged)
  BY <1>2, <1>3 DEF WithId
<1>4. CASE id \notin ToSet(merged)
  <2>1. PICK longer : longer = Append(merged, id)
    OBVIOUS
  <2>2. /\ longer \in Seq(Nat) /\ Len(longer) = m + 1
        /\ \A i \in 1 .. m : longer[i] = merged[i]
        /\ longer[m + 1] = id
    BY <1>1, <2>1, AppendProperties
  <2>3. DOMAIN longer = 1 .. (m + 1)
    BY <2>2, LenProperties
  <2>4. \A i \in 1 .. m : merged[i] # id
    BY <1>1, <1>4 DEF ToSet
  <2>5. \A i, j \in 1 .. m : merged[i] = merged[j] => i = j
    BY <1>1 DEF IsInjective
  <2>6. 1 .. (m + 1) = (1 .. m) \cup {m + 1}
    OBVIOUS
  <2>7. IsInjective(longer)
    BY <2>2, <2>3, <2>4, <2>5, <2>6 DEF IsInjective
  <2>8. ToSet(longer) = ToSet(merged) \cup {id}
    BY <2>1, AppendedElements
  <2>9. longer = WithId(merged, id)
    BY <1>2, <1>4, <2>1 DEF WithId
  <2>10. QED
    BY <2>2, <2>7, <2>8, <2>9
<1>5. QED
  BY <1>3, <1>4

(* Merging keeps every id, and each once.                                  *)
LEMMA MergedIsSound ==
    ASSUME NEW ids \in Seq(Nat)
    PROVE  /\ Merged(ids) \in Seq(Nat)
           /\ IsInjective(Merged(ids))
           /\ ToSet(Merged(ids)) = ToSet(ids)
<1>1. PICK n : n = Len(ids) /\ n \in Nat /\ ids \in [1 .. n -> Nat] /\ DOMAIN ids = 1 .. n
  BY LenProperties
<1>2. PICK after :
          /\ after[0] = <<>>
          /\ \A k \in 1 .. n : after[k] = WithId(after[k - 1], ids[k])
          /\ Merged(ids) = after[n]
  BY <1>1, MergedUnrolls
<1> DEFINE MergedSoFar(k, merged) ==
              /\ merged \in Seq(Nat) /\ IsInjective(merged)
              /\ ToSet(merged) = {ids[i] : i \in 1 .. k}
           S == {k \in 0 .. n : MergedSoFar(k, after[k])}
<1>3. 0 \in S
  <2>1. 1 .. 0 = {} /\ DOMAIN <<>> = {}
    OBVIOUS
  <2>2. MergedSoFar(0, <<>>)
    BY <2>1 DEF ToSet, IsInjective
  <2> HIDE DEF MergedSoFar
  <2>3. QED
    BY <1>1, <1>2, <2>2
<1>4. ASSUME NEW k \in 1 .. n, k - 1 \in S PROVE k \in S
  <2>1. PICK merged : merged = after[k - 1] /\ MergedSoFar(k - 1, merged)
    BY <1>4
  <2>2. k \in 0 .. n /\ ids[k] \in Nat /\ after[k] = WithId(merged, ids[k])
    BY <1>1, <1>2, <2>1
  <2>3. {ids[i] : i \in 1 .. k} = {ids[i] : i \in 1 .. (k - 1)} \cup {ids[k]}
    <3>1. 1 .. k = (1 .. (k - 1)) \cup {k}
      BY <1>1
    <3>2. QED
      BY <3>1
  <2>4. /\ after[k] \in Seq(Nat) /\ IsInjective(after[k])
        /\ ToSet(after[k]) = ToSet(merged) \cup {ids[k]}
    BY <2>1, <2>2, TurnMerges
  <2>5. MergedSoFar(k, after[k])
    BY <2>1, <2>3, <2>4
  <2> HIDE DEF MergedSoFar
  <2>6. QED
    BY <2>2, <2>5
<1>5. n \in S
  <2> HIDE DEF S
  <2>1. \A k \in 0 .. n : k \in S
    BY <1>1, <1>3, <1>4, EveryTurn
  <2>2. QED
    BY <1>1, <2>1
<1>6. MergedSoFar(n, Merged(ids))
  <2> HIDE DEF MergedSoFar
  <2>1. QED
    BY <1>2, <1>5
<1>7. ToSet(ids) = {ids[i] : i \in 1 .. n}
  BY <1>1 DEF ToSet
<1>8. QED
  BY <1>6, <1>7

(* What two lists hold together.                                           *)
LEMMA ConcatenatedElements ==
    ASSUME NEW left \in Seq(Nat), NEW right \in Seq(Nat)
    PROVE  /\ left \o right \in Seq(Nat)
           /\ ToSet(left \o right) = ToSet(left) \cup ToSet(right)
<1>1. PICK m, n, both : m = Len(left) /\ n = Len(right) /\ both = left \o right
  OBVIOUS
<1>2. /\ m \in Nat /\ n \in Nat /\ DOMAIN left = 1 .. m /\ DOMAIN right = 1 .. n
      /\ both \in Seq(Nat) /\ DOMAIN both = 1 .. (m + n)
      /\ \A i \in 1 .. (m + n) : both[i] = IF i <= m THEN left[i] ELSE right[i - m]
  BY <1>1, LenProperties, ConcatProperties
<1>3. ASSUME NEW i \in 1 .. (m + n)
      PROVE  both[i] \in ToSet(left) \cup ToSet(right)
  <2>1. CASE i <= m
    <3>1. i \in 1 .. m /\ both[i] = left[i]
      BY <1>2, <2>1
    <3>2. QED
      BY <1>2, <3>1 DEF ToSet
  <2>2. CASE ~(i <= m)
    <3>1. i - m \in 1 .. n
      BY <1>2, <2>2
    <3>2. both[i] = right[i - m]
      BY <1>2, <2>2
    <3>3. QED
      BY <1>2, <3>1, <3>2 DEF ToSet
  <2>3. QED
    BY <2>1, <2>2
<1>4. ASSUME NEW i \in 1 .. m PROVE left[i] \in ToSet(both)
  <2>1. i \in 1 .. (m + n) /\ both[i] = left[i]
    BY <1>2
  <2>2. QED
    BY <1>2, <2>1 DEF ToSet
<1>5. ASSUME NEW i \in 1 .. n PROVE right[i] \in ToSet(both)
  <2>1. i + m \in 1 .. (m + n) /\ ~(i + m <= m) /\ (i + m) - m = i
    BY <1>2
  <2>2. both[i + m] = right[i]
    BY <1>2, <2>1
  <2>3. QED
    BY <1>2, <2>1, <2>2 DEF ToSet
<1>6. ToSet(both) \subseteq ToSet(left) \cup ToSet(right)
  BY <1>2, <1>3 DEF ToSet
<1>7. ToSet(left) \subseteq ToSet(both) /\ ToSet(right) \subseteq ToSet(both)
  BY <1>2, <1>4, <1>5 DEF ToSet
<1>8. QED
  BY <1>1, <1>2, <1>6, <1>7

(* Flattening is a loop that starts from the first list.                   *)
LEMMA FlattenUnrolls ==
    ASSUME NEW seqs \in Seq(Seq(Nat)), NEW n \in Nat, n = Len(seqs), n # 0
    PROVE  \E after :
               /\ after[1] = seqs[1]
               /\ \A k \in 2 .. n : after[k] = after[k - 1] \o seqs[k]
               /\ FlattenSeq(seqs) = after[n]
<1> DEFINE Flat(g) == [i \in 1 .. Len(seqs) |->
                          IF i = 1 THEN seqs[i] ELSE g[i - 1] \o seqs[i]]
           flatten == CHOOSE g : g = Flat(g)
<1>1. FlattenSeq(seqs) = flatten[Len(seqs)]
  BY Zenon DEF FlattenSeq
<1>2. \E g : g = Flat(g)
  <2> DEFINE turn == [arg \in (1 .. n) \X Seq(Nat) |->
                         IF arg[1] = 1 THEN seqs[1] ELSE arg[2] \o seqs[arg[1]]]
  <2>1. \A i \in 1 .. n : seqs[i] \in Seq(Nat)
    BY ElementOfSeq
  <2>2. turn \in [(1 .. n) \X Seq(Nat) -> Seq(Nat)]
    <3>1. 1 \in 1 .. n
      OBVIOUS
    <3>2. \A left, right \in Seq(Nat) : left \o right \in Seq(Nat)
      BY ConcatProperties
    <3>3. QED
      BY <2>1, <3>1, <3>2
  <2>3. PICK g : IsLoop(g, n, Seq(Nat), <<>>, turn)
    <3> HIDE DEF turn
    <3>1. <<>> \in Seq(Nat)
      OBVIOUS
    <3>2. QED
      BY <2>2, <3>1, LoopExists
  <2>4. ASSUME NEW i \in 1 .. n
        PROVE  g[i] = IF i = 1 THEN seqs[1] ELSE g[i - 1] \o seqs[i]
    <3>1. g[i - 1] \in Seq(Nat) /\ g[i] = turn[<<i, g[i - 1]>>]
      <4> HIDE DEF turn
      <4>1. i - 1 \in 0 .. n
        OBVIOUS
      <4>2. QED
        BY <2>3, <4>1 DEF IsLoop
    <3>2. QED
      BY <3>1
  <2> HIDE DEF turn
  <2> DEFINE h == [i \in 1 .. n |-> g[i]]
  <2>5. \A i \in 1 .. n : h[i] = IF i = 1 THEN seqs[i] ELSE h[i - 1] \o seqs[i]
    <3> SUFFICES ASSUME NEW i \in 1 .. n
                 PROVE  h[i] = IF i = 1 THEN seqs[i] ELSE h[i - 1] \o seqs[i]
      OBVIOUS
    <3>1. CASE i = 1
      BY <2>4, <3>1
    <3>2. CASE i # 1
      <4>1. i - 1 \in 1 .. n
        BY <3>2
      <4>2. QED
        BY <2>4, <3>2, <4>1
    <3>3. QED
      BY <3>1, <3>2
  <2>6. DOMAIN h = 1 .. n
    OBVIOUS
  <2>7. h = [i \in 1 .. n |-> h[i]]
    OBVIOUS
  <2> HIDE DEF h
  <2>8. h = Flat(h)
    BY <2>5, <2>7
  <2>9. QED
    BY <2>8
<1>3. flatten = Flat(flatten)
  <2> HIDE DEF Flat
  <2>1. QED
    BY <1>2
<1> HIDE DEF flatten
<1>4. \A i \in 1 .. n : flatten[i] = IF i = 1 THEN seqs[i] ELSE flatten[i - 1] \o seqs[i]
  BY <1>3
<1> HIDE DEF Flat
<1>5. flatten[1] = seqs[1] /\ \A k \in 2 .. n : flatten[k] = flatten[k - 1] \o seqs[k]
  <2>1. 1 \in 1 .. n /\ \A k \in 2 .. n : k \in 1 .. n /\ k # 1
    OBVIOUS
  <2>2. QED
    BY <1>4, <2>1
<1>6. QED
  BY <1>1, <1>5

(* Flattening keeps every element.                                         *)
LEMMA FlattenedElements ==
    ASSUME NEW seqs \in Seq(Seq(Nat))
    PROVE  /\ FlattenSeq(seqs) \in Seq(Nat)
           /\ ToSet(FlattenSeq(seqs)) = UNION {ToSet(seqs[i]) : i \in DOMAIN seqs}
<1>1. PICK n \in Nat : n = Len(seqs) /\ DOMAIN seqs = 1 .. n
  BY LenProperties
<1>2. \A i \in 1 .. n : seqs[i] \in Seq(Nat)
  BY <1>1, ElementOfSeq
<1>3. CASE n = 0
  <2>1. FlattenSeq(seqs) = seqs
    BY <1>1, <1>3 DEF FlattenSeq
  <2>2. DOMAIN seqs = {} /\ seqs = <<>>
    <3>1. DOMAIN seqs = {}
      BY <1>1, <1>3
    <3>2. seqs = <<>>
      BY <1>1, <1>3, EmptySeq
    <3>3. QED
      BY <3>1, <3>2
  <2>3. QED
    BY <2>1, <2>2 DEF ToSet
<1>4. CASE n # 0
  <2>1. PICK after :
            /\ after[1] = seqs[1]
            /\ \A k \in 2 .. n : after[k] = after[k - 1] \o seqs[k]
            /\ FlattenSeq(seqs) = after[n]
    BY <1>1, <1>4, FlattenUnrolls
  <2> DEFINE Joined(k) ==
                /\ after[k] \in Seq(Nat)
                /\ \A e : e \in ToSet(after[k]) <=> \E i \in 1 .. k : e \in ToSet(seqs[i])
             S == {k \in 0 .. n : k = 0 \/ Joined(k)}
  <2>2. 0 \in S
    OBVIOUS
  <2>3. ASSUME NEW k \in 1 .. n, k - 1 \in S PROVE k \in S
    <3>1. CASE k = 1
      <4>1. 1 .. 1 = {1}
        OBVIOUS
      <4>2. Joined(1)
        BY <1>2, <2>1, <3>1, <4>1
      <4>3. QED
        BY <3>1, <4>2
    <3>2. CASE k # 1
      <4>1. k - 1 # 0 /\ k \in 2 .. n /\ k \in 0 .. n
        BY <3>2
      <4>2. Joined(k - 1)
        BY <2>3, <4>1
      <4>3. after[k] = after[k - 1] \o seqs[k]
        BY <2>1, <4>1
      <4>4. /\ after[k] \in Seq(Nat)
            /\ ToSet(after[k]) = ToSet(after[k - 1]) \cup ToSet(seqs[k])
        BY <1>2, <4>2, <4>3, ConcatenatedElements
      <4>5. 1 .. k = (1 .. (k - 1)) \cup {k}
        OBVIOUS
      <4>6. Joined(k)
        BY <4>2, <4>4, <4>5
      <4> HIDE DEF Joined
      <4>7. QED
        BY <4>1, <4>6
    <3>3. QED
      BY <3>1, <3>2
  <2>4. n \in S
    <3> HIDE DEF S
    <3>1. \A k \in 0 .. n : k \in S
      BY <2>2, <2>3, EveryTurn
    <3>2. QED
      BY <3>1
  <2>5. Joined(n)
    <3> HIDE DEF Joined
    <3>1. QED
      BY <1>4, <2>4
  <2>6. QED
    BY <1>1, <2>1, <2>5
<1>5. QED
  BY <1>3, <1>4

-----------------------------------------------------------------------------
(***************************************************************************)
(* The capsules and the bundle.                                            *)
(***************************************************************************)
LEMMA CategoryHasLength ==
    ASSUME NEW snippet \in Snippet
    PROVE  CapsuleLength(Category(snippet)) \in Nat
<1>1. PICK decides, constrains, wording :
          /\ wording = snippet.wording
          /\ decides = ("decision" \in wording)
          /\ constrains = (wording = {"constraint"})
  OBVIOUS
<1>2. wording \in SUBSET {"decision", "constraint"} /\ snippet.procedural \in BOOLEAN
  BY <1>1 DEF Snippet
<1>3. "decision" \notin wording => wording = {} \/ wording = {"constraint"}
  BY <1>2
<1>4. CASE snippet.procedural
  <2>1. Category(snippet) = "procedural_candidate"
    BY <1>4 DEF Category
  <2>2. QED
    BY <2>1 DEF CapsuleLength
<1>5. CASE ~snippet.procedural /\ "decision" \in wording
  <2>1. wording # {"constraint"} /\ wording # {}
    BY <1>5
  <2>2. Category(snippet) = "recent_decision"
    BY <1>1, <1>5, <2>1 DEF Category
  <2>3. QED
    BY <2>2 DEF CapsuleLength
<1>6. CASE ~snippet.procedural /\ wording = {"constraint"}
  <2>1. "decision" \notin wording /\ wording # {}
    BY <1>6
  <2>2. Category(snippet) = "active_constraint"
    BY <1>1, <1>6, <2>1 DEF Category
  <2>3. QED
    BY <2>2 DEF CapsuleLength
<1>7. CASE ~snippet.procedural /\ wording = {}
  <2>1. "decision" \notin wording /\ wording # {"constraint"}
    BY <1>7
  <2>2. Category(snippet) = IF snippet.user_stated /\ snippet.confident
                            THEN "stable_user_confirmed_fact"
                            ELSE "recent_memory"
    BY <1>1, <1>7, <2>1 DEF Category
  <2>3. Category(snippet) \in {"stable_user_confirmed_fact", "recent_memory"}
    BY <2>2
  <2>4. QED
    BY <2>3 DEF CapsuleLength
<1>8. QED
  BY <1>2, <1>3, <1>4, <1>5, <1>6, <1>7

(* Each kept or omitted position is one of the list, and vice versa.       *)
LEMMA PackedPositions ==
    ASSUME NEW n \in Nat, NEW costs, NEW budget,
           NEW packed, PackedSoFar(n, costs, budget, n, packed)
    PROVE  /\ \A i \in DOMAIN packed.kept : packed.kept[i] \in 1 .. n
           /\ \A i \in DOMAIN packed.omitted : packed.omitted[i] \in 1 .. n
           /\ \A p \in 1 .. n : \/ \E i \in DOMAIN packed.kept : packed.kept[i] = p
                                \/ \E i \in DOMAIN packed.omitted : packed.omitted[i] = p
           /\ \A i \in DOMAIN packed.kept, j \in DOMAIN packed.omitted :
                  packed.kept[i] # packed.omitted[j]
           /\ Len(packed.kept) \in Nat /\ DOMAIN packed.kept = 1 .. Len(packed.kept)
           /\ Len(packed.omitted) \in Nat
           /\ DOMAIN packed.omitted = 1 .. Len(packed.omitted)
<1>1. /\ packed.kept \in Seq(1 .. n) /\ packed.omitted \in Seq(1 .. n)
      /\ ToSet(packed.kept) \cup ToSet(packed.omitted) = 1 .. n
      /\ ToSet(packed.kept) \cap ToSet(packed.omitted) = {}
  BY DEF PackedSoFar, Packing
<1>2. /\ \A i \in DOMAIN packed.kept : packed.kept[i] \in ToSet(packed.kept)
      /\ \A i \in DOMAIN packed.omitted : packed.omitted[i] \in ToSet(packed.omitted)
      /\ \A p \in ToSet(packed.kept) : \E i \in DOMAIN packed.kept : packed.kept[i] = p
      /\ \A p \in ToSet(packed.omitted) :
             \E i \in DOMAIN packed.omitted : packed.omitted[i] = p
  BY DEF ToSet
<1>3. /\ Len(packed.kept) \in Nat /\ DOMAIN packed.kept = 1 .. Len(packed.kept)
      /\ Len(packed.omitted) \in Nat
      /\ DOMAIN packed.omitted = 1 .. Len(packed.omitted)
  BY <1>1, LenProperties
<1>4. \A i \in DOMAIN packed.kept, j \in DOMAIN packed.omitted :
          packed.kept[i] # packed.omitted[j]
  BY <1>1, <1>2
<1>5. QED
  BY <1>1, <1>2, <1>3, <1>4

Distinct(snippets) ==
    \A i, j \in DOMAIN snippets :
        snippets[i].event_id = snippets[j].event_id => i = j

(* A capsule stands for each snippet that fits, and none is lost.          *)
LEMMA CapsulesAreSound ==
    ASSUME NEW m \in Nat, NEW snippets \in [1 .. m -> Snippet], Distinct(snippets),
           NEW available \in Nat
    PROVE  LET hot == BuildCapsules(snippets, available)
               repeated == {capsule.evidence : capsule \in ToSet(hot.capsules)}
           IN  /\ hot.used <= MaxCapsuleTokens
               /\ hot.used <= Larger(1, available)
               /\ repeated \cap ToSet(hot.omitted) = {}
               /\ repeated \cup ToSet(hot.omitted)
                      = {snippets[i].event_id : i \in 1 .. m}
<1> DEFINE costs == [i \in DOMAIN snippets |->
                        Count(CapsuleLength(Category(snippets[i])), 0)]
           room == CapsuleBudget(available)
           packed == Pack(costs, room)
           capsules == [i \in DOMAIN packed.kept |->
                           [category |-> Category(snippets[packed.kept[i]]),
                            evidence |-> snippets[packed.kept[i]].event_id]]
           omitted == [i \in DOMAIN packed.omitted |->
                          snippets[packed.omitted[i]].event_id]
           hot == BuildCapsules(snippets, available)
           repeated == {capsule.evidence : capsule \in ToSet(capsules)}
<1>1. hot = [capsules |-> capsules, omitted |-> omitted, used |-> packed.used]
  BY DEF BuildCapsules
<1>2. costs \in [1 .. m -> Nat]
  <2>1. \A i \in 1 .. m : CapsuleLength(Category(snippets[i])) \in Nat
    BY CategoryHasLength
  <2>2. \A i \in 1 .. m : Count(CapsuleLength(Category(snippets[i])), 0) \in Nat
    BY <2>1, EstimateIsNatural
  <2>3. QED
    BY <2>2
<1>3. room \in Nat /\ room <= MaxCapsuleTokens /\ room <= Larger(1, available)
  BY DEF CapsuleBudget, Larger, Smaller, MaxCapsuleTokens
<1> HIDE DEF costs, room
<1>4. PackedSoFar(m, costs, room, m, packed)
  BY <1>2, <1>3, PackIsSound
<1> HIDE DEF packed
<1>5. /\ \A i \in DOMAIN packed.kept : packed.kept[i] \in 1 .. m
      /\ \A i \in DOMAIN packed.omitted : packed.omitted[i] \in 1 .. m
      /\ \A p \in 1 .. m : \/ \E i \in DOMAIN packed.kept : packed.kept[i] = p
                           \/ \E i \in DOMAIN packed.omitted : packed.omitted[i] = p
      /\ \A i \in DOMAIN packed.kept, j \in DOMAIN packed.omitted :
             packed.kept[i] # packed.omitted[j]
  BY <1>4, PackedPositions
<1>6. packed.used <= MaxCapsuleTokens /\ packed.used <= Larger(1, available)
  <2>1. packed.used \in Nat /\ packed.used <= room
    BY <1>4 DEF PackedSoFar, Packing
  <2>2. Larger(1, available) \in Nat /\ MaxCapsuleTokens \in Nat
    BY DEF Larger, MaxCapsuleTokens
  <2>3. QED
    BY <1>3, <2>1, <2>2
<1>7. repeated = {snippets[packed.kept[i]].event_id : i \in DOMAIN packed.kept}
  <2>1. /\ DOMAIN capsules = DOMAIN packed.kept
        /\ \A i \in DOMAIN packed.kept :
               capsules[i].evidence = snippets[packed.kept[i]].event_id
    OBVIOUS
  <2> HIDE DEF capsules
  <2>2. ToSet(capsules) = {capsules[i] : i \in DOMAIN packed.kept}
    BY <2>1 DEF ToSet
  <2>3. repeated = {capsules[i].evidence : i \in DOMAIN packed.kept}
    BY <2>2
  <2> HIDE DEF repeated
  <2>4. QED
    BY <2>1, <2>3
<1>8. ToSet(omitted)
          = {snippets[packed.omitted[i]].event_id : i \in DOMAIN packed.omitted}
  BY DEF ToSet
<1> HIDE DEF capsules, omitted, repeated
<1>9. repeated \cap ToSet(omitted) = {}
  <2>1. ASSUME NEW i \in DOMAIN packed.kept, NEW j \in DOMAIN packed.omitted
        PROVE  snippets[packed.kept[i]].event_id # snippets[packed.omitted[j]].event_id
    BY <1>5 DEF Distinct
  <2>2. QED
    BY <1>7, <1>8, <2>1
<1>10. repeated \cup ToSet(omitted) = {snippets[i].event_id : i \in 1 .. m}
  <2>1. repeated \cup ToSet(omitted) \subseteq {snippets[i].event_id : i \in 1 .. m}
    BY <1>5, <1>7, <1>8
  <2>2. ASSUME NEW p \in 1 .. m
        PROVE  snippets[p].event_id \in repeated \cup ToSet(omitted)
    <3>1. CASE \E i \in DOMAIN packed.kept : packed.kept[i] = p
      BY <1>7, <3>1
    <3>2. CASE \E i \in DOMAIN packed.omitted : packed.omitted[i] = p
      BY <1>8, <3>2
    <3>3. QED
      BY <1>5, <3>1, <3>2
  <2>3. QED
    BY <2>1, <2>2
<1>11. hot.capsules = capsules /\ hot.omitted = omitted /\ hot.used = packed.used
  BY <1>1
<1> HIDE DEF hot
<1>12. {capsule.evidence : capsule \in ToSet(hot.capsules)} = repeated
  BY <1>11 DEF repeated
<1>13. /\ hot.used <= MaxCapsuleTokens /\ hot.used <= Larger(1, available)
       /\ {capsule.evidence : capsule \in ToSet(hot.capsules)} \cap ToSet(hot.omitted) = {}
       /\ {capsule.evidence : capsule \in ToSet(hot.capsules)} \cup ToSet(hot.omitted)
              = {snippets[i].event_id : i \in 1 .. m}
  BY <1>6, <1>9, <1>10, <1>11, <1>12
<1>14. QED
  BY <1>13 DEF hot

(* The evidence is what the snippets and the paths cite.                   *)
LEMMA EvidenceIsCited ==
    ASSUME NEW m \in Nat, NEW snippets \in [1 .. m -> Snippet], NEW paths \in Seq(Nat)
    PROVE  LET evidence == EvidenceEventIds(snippets, Merged(paths))
           IN  /\ IsInjective(evidence)
               /\ ToSet(evidence) =
                      ToSet(paths) \cup
                      UNION {{snippet.event_id} \cup ToSet(snippet.derived_from) :
                                snippet \in ToSet(snippets)}
<1> DEFINE seqs == [i \in DOMAIN snippets |->
                       <<snippets[i].event_id>> \o snippets[i].derived_from]
           flat == FlattenSeq(seqs)
           related == Merged(paths)
           evidence == EvidenceEventIds(snippets, related)
<1>1. evidence = Merged(flat \o related)
  BY DEF EvidenceEventIds
<1>2. ASSUME NEW i \in 1 .. m
      PROVE  /\ seqs[i] \in Seq(Nat)
             /\ ToSet(seqs[i]) = {snippets[i].event_id} \cup ToSet(snippets[i].derived_from)
  <2>1. PICK id, from : id = snippets[i].event_id /\ from = snippets[i].derived_from
    OBVIOUS
  <2>2. id \in Nat /\ from \in Seq(Nat)
    BY <2>1 DEF Snippet
  <2>3. <<id>> \in Seq(Nat) /\ ToSet(<<id>>) = {id}
    BY <2>2 DEF ToSet
  <2>4. /\ <<id>> \o from \in Seq(Nat)
        /\ ToSet(<<id>> \o from) = {id} \cup ToSet(from)
    BY <2>2, <2>3, ConcatenatedElements
  <2>5. seqs[i] = <<id>> \o from
    BY <2>1
  <2>6. QED
    BY <2>1, <2>4, <2>5
<1>3. DOMAIN seqs = 1 .. m /\ seqs \in [1 .. m -> Seq(Nat)]
  BY <1>2
<1> HIDE DEF seqs
<1>4. seqs \in Seq(Seq(Nat))
  BY <1>3, FunctionIsSeq
<1>5. flat \in Seq(Nat) /\ ToSet(flat) = UNION {ToSet(seqs[i]) : i \in 1 .. m}
  BY <1>3, <1>4, FlattenedElements
<1>6. related \in Seq(Nat) /\ ToSet(related) = ToSet(paths)
  BY MergedIsSound
<1> HIDE DEF flat, related
<1>7. /\ flat \o related \in Seq(Nat)
      /\ ToSet(flat \o related) = ToSet(flat) \cup ToSet(related)
  BY <1>5, <1>6, ConcatenatedElements
<1>8. IsInjective(evidence) /\ ToSet(evidence) = ToSet(flat) \cup ToSet(paths)
  BY <1>1, <1>6, <1>7, MergedIsSound
<1>9. UNION {ToSet(seqs[i]) : i \in 1 .. m}
          = UNION {{snippet.event_id} \cup ToSet(snippet.derived_from) :
                      snippet \in ToSet(snippets)}
  <2>1. {ToSet(seqs[i]) : i \in 1 .. m}
            = {{snippets[i].event_id} \cup ToSet(snippets[i].derived_from) : i \in 1 .. m}
    BY <1>2
  <2>2. ToSet(snippets) = {snippets[i] : i \in 1 .. m}
    BY DEF ToSet
  <2>3. {{snippet.event_id} \cup ToSet(snippet.derived_from) : snippet \in ToSet(snippets)}
            = {{snippets[i].event_id} \cup ToSet(snippets[i].derived_from) : i \in 1 .. m}
    BY <2>2
  <2>4. QED
    BY <2>1, <2>3
<1> HIDE DEF evidence
<1> DEFINE cited == UNION {{snippet.event_id} \cup ToSet(snippet.derived_from) :
                              snippet \in ToSet(snippets)}
<1>10. ToSet(evidence) = ToSet(paths) \cup cited
  <2>1. ToSet(flat) = cited
    BY <1>5, <1>9, Zenon
  <2> HIDE DEF cited
  <2>2. QED
    BY <1>8, <2>1
<1>11. QED
  BY <1>8, <1>10, Zenon DEF evidence, related

(* The part of a list at increasing positions.                             *)
LEMMA PartsAreInOrder ==
    ASSUME NEW n \in Nat, NEW results, DOMAIN results = 1 .. n,
           NEW positions, Increasing(positions),
           \A i \in DOMAIN positions : positions[i] \in 1 .. n
    PROVE  IsInOrderOf([i \in DOMAIN positions |-> results[positions[i]]], results)
<1> SUFFICES ASSUME NEW i \in DOMAIN positions, NEW j \in DOMAIN positions, i < j
             PROVE  \E first, later \in DOMAIN results :
                        /\ first < later
                        /\ results[first] = results[positions[i]]
                        /\ results[later] = results[positions[j]]
  BY DEF IsInOrderOf
<1>1. positions[i] < positions[j]
  BY DEF Increasing
<1>2. QED
  BY <1>1

(* What a bundle holds, whatever the results, paths and budget.            *)
LEMMA BundleFits ==
    ASSUME NEW results \in Seq(Snippet), Distinct(results), NEW paths \in Seq(Nat),
           NEW budget \in ContextBudget, IsContextBudget(budget)
    PROVE  FitsTheBudget(results, paths, budget)
<1> DEFINE costs == [i \in DOMAIN results |-> EstimateTokens(results[i])]
           available == AvailableMemoryTokens(budget)
           packed == Pack(costs, available)
           snippets == [i \in DOMAIN packed.kept |-> results[packed.kept[i]]]
           left == [i \in DOMAIN packed.omitted |-> results[packed.omitted[i]]]
           bundle == BuildContext(results, paths, budget)
<1>1. bundle = [snippets |-> snippets, omitted |-> left, used |-> packed.used,
                hot |-> BuildCapsules(snippets, available),
                evidence |-> EvidenceEventIds(snippets, Merged(paths))]
  BY DEF BuildContext
<1>2. PICK n \in Nat : n = Len(results) /\ DOMAIN results = 1 .. n
  BY LenProperties
<1>3. \A i \in 1 .. n : results[i] \in Snippet
  BY <1>2, ElementOfSeq
<1>4. costs \in [1 .. n -> Nat] /\ \A i \in 1 .. n : costs[i] = EstimateTokens(results[i])
  BY <1>2, <1>3, EstimateIsNatural
<1>5. available \in Nat
  BY DEF ContextBudget, IsContextBudget, AvailableMemoryTokens
<1> HIDE DEF costs, available
<1>6. PackedSoFar(n, costs, available, n, packed)
  BY <1>4, <1>5, PackIsSound
<1> HIDE DEF packed
<1>7. /\ \A i \in DOMAIN packed.kept : packed.kept[i] \in 1 .. n
      /\ \A i \in DOMAIN packed.omitted : packed.omitted[i] \in 1 .. n
      /\ \A p \in 1 .. n : \/ \E i \in DOMAIN packed.kept : packed.kept[i] = p
                           \/ \E i \in DOMAIN packed.omitted : packed.omitted[i] = p
      /\ \A i \in DOMAIN packed.kept, j \in DOMAIN packed.omitted :
             packed.kept[i] # packed.omitted[j]
  BY <1>2, <1>6, PackedPositions
<1>8. PICK m \in Nat : m = Len(packed.kept) /\ DOMAIN packed.kept = 1 .. m
  BY <1>6, PackedPositions
<1>9. PICK rest \in Nat : DOMAIN packed.omitted = 1 .. rest
  BY <1>6, PackedPositions
<1>10. /\ snippets \in [1 .. m -> Snippet] /\ Len(snippets) = m
       /\ Len(left) = rest
  <2>1. snippets \in [1 .. m -> Snippet] /\ left \in [1 .. rest -> Snippet]
    BY <1>3, <1>7, <1>8, <1>9
  <2> HIDE DEF snippets, left
  <2>2. QED
    BY <2>1, FunctionIsSeq
<1>11. Distinct(snippets)
  <2> SUFFICES ASSUME NEW i \in 1 .. m, NEW j \in 1 .. m,
                      results[packed.kept[i]].event_id = results[packed.kept[j]].event_id
               PROVE  i = j
    BY <1>8 DEF Distinct
  <2>1. packed.kept[i] = packed.kept[j]
    BY <1>2, <1>7, <1>8 DEF Distinct
  <2>2. Increasing(packed.kept)
    BY <1>6 DEF PackedSoFar
  <2>3. packed.kept[i] \in Nat /\ ~(i < j) /\ ~(j < i)
    BY <1>7, <1>8, <2>1, <2>2 DEF Increasing
  <2>4. QED
    BY <2>3
<1>12. UsesTheBudget(bundle, budget)
  <2>1. packed.used = TokensOf(snippets)
    <3>1. \A i \in 1 .. m : EstimateTokens(snippets[i]) = costs[packed.kept[i]]
      BY <1>4, <1>7, <1>8
    <3>2. packed.kept \in Seq(1 .. n) /\ AddsUp(costs, packed.kept, packed.used)
      BY <1>6 DEF PackedSoFar, Packing
    <3> HIDE DEF snippets
    <3>3. PaysFor(n, costs, packed.kept, packed.used, m, snippets)
      BY <1>2, <1>4, <1>8, <1>10, <3>1, <3>2 DEF PaysFor
    <3>4. QED
      BY <3>3, UsedIsTokens
  <2>2. packed.used \in Nat /\ packed.used <= available
    BY <1>6 DEF PackedSoFar, Packing
  <2>3. packed.used + budget.safety + budget.output + budget.tool <= budget.max_tokens
    BY <2>2 DEF available, AvailableMemoryTokens, ContextBudget
  <2>4. ASSUME NEW i \in DOMAIN left
        PROVE  packed.used + EstimateTokens(left[i]) > available
    <3>1. packed.omitted[i] \in ToSet(packed.omitted) /\ packed.omitted[i] \in 1 .. n
      BY <1>7 DEF ToSet
    <3>2. packed.used + costs[packed.omitted[i]] > available
      BY <1>6, <3>1 DEF PackedSoFar
    <3>3. EstimateTokens(left[i]) = costs[packed.omitted[i]]
      BY <1>4, <3>1
    <3>4. QED
      BY <3>2, <3>3
  <2>5. bundle.used = packed.used /\ bundle.snippets = snippets /\ bundle.omitted = left
    BY <1>1
  <2> HIDE DEF bundle, snippets, left
  <2>6. QED
    BY <2>1, <2>3, <2>4, <2>5 DEF UsesTheBudget, available
<1>13. LosesNothing(bundle, results)
  <2>1. bundle.snippets = snippets /\ bundle.omitted = left
    BY <1>1
  <2>2. ASSUME NEW p \in 1 .. n
        PROVE  Contains(snippets, results[p]) # Contains(left, results[p])
    <3>1. \A q \in 1 .. n : results[q] = results[p] => q = p
      BY <1>2 DEF Distinct
    <3>2. Contains(snippets, results[p]) <=> \E i \in 1 .. m : packed.kept[i] = p
      <4>1. Contains(snippets, results[p])
                <=> \E i \in 1 .. m : results[packed.kept[i]] = results[p]
        BY <1>8, <1>10 DEF Contains
      <4>2. QED
        BY <1>7, <1>8, <3>1, <4>1
    <3>3. Contains(left, results[p]) <=> \E i \in 1 .. rest : packed.omitted[i] = p
      <4>1. Contains(left, results[p])
                <=> \E i \in 1 .. rest : results[packed.omitted[i]] = results[p]
        BY <1>9, <1>10 DEF Contains
      <4>2. QED
        BY <1>7, <1>9, <3>1, <4>1
    <3>4. /\ Contains(snippets, results[p]) \in BOOLEAN
          /\ Contains(left, results[p]) \in BOOLEAN
      BY DEF Contains
    <3>5. Contains(snippets, results[p]) <=> ~Contains(left, results[p])
      BY <1>7, <1>8, <1>9, <3>2, <3>3
    <3> HIDE DEF snippets, left
    <3>6. QED
      BY <3>4, <3>5
  <2>3. IsInOrderOf(snippets, results) /\ IsInOrderOf(left, results)
    <3>1. Increasing(packed.kept) /\ Increasing(packed.omitted)
      BY <1>6 DEF PackedSoFar
    <3>2. QED
      BY <1>2, <1>7, <3>1, PartsAreInOrder
  <2> HIDE DEF bundle, snippets, left
  <2>4. QED
    BY <1>2, <2>1, <2>2, <2>3 DEF LosesNothing
<1>14. ToSet(snippets) = {snippets[i] : i \in 1 .. m}
  BY <1>8 DEF ToSet
<1>15. CapsulesRepeatSnippets(bundle, budget)
  <2>1. /\ bundle.snippets = snippets
        /\ bundle.hot = BuildCapsules(snippets, AvailableMemoryTokens(budget))
    BY <1>1 DEF available
  <2> HIDE DEF bundle, snippets
  <2>2. {snippet.event_id : snippet \in ToSet(snippets)}
            = {snippets[i].event_id : i \in 1 .. m}
    BY <1>14
  <2>3. AvailableMemoryTokens(budget) \in Nat
    BY <1>5 DEF available
  <2> DEFINE hot == BuildCapsules(snippets, AvailableMemoryTokens(budget))
             repeated == {capsule.evidence : capsule \in ToSet(hot.capsules)}
  <2>4. /\ hot.used <= MaxCapsuleTokens
        /\ hot.used <= Larger(1, AvailableMemoryTokens(budget))
        /\ repeated \cap ToSet(hot.omitted) = {}
        /\ repeated \cup ToSet(hot.omitted) = {snippets[i].event_id : i \in 1 .. m}
    BY <1>10, <1>11, <2>3, CapsulesAreSound
  <2>5. bundle.hot = hot
    BY <2>1
  <2> HIDE DEF hot
  <2>6. QED
    BY <2>1, <2>2, <2>4, <2>5, Zenon DEF CapsulesRepeatSnippets
<1>16. CitesItsEvidence(bundle, paths)
  <2>1. /\ bundle.snippets = snippets
        /\ bundle.evidence = EvidenceEventIds(snippets, Merged(paths))
    BY <1>1
  <2> HIDE DEF bundle, snippets
  <2>2. QED
    BY <1>10, <2>1, EvidenceIsCited, Zenon DEF CitesItsEvidence
<1>17. QED
  BY <1>12, <1>13, <1>15, <1>16 DEF FitsTheBudget

(***************************************************************************)
(* For all results, paths and budgets: every budget that is accepted is    *)
(* kept and used, and nothing that was found is lost without being         *)
(* reported.                                                               *)
(***************************************************************************)
THEOREM ContextFits == Spec => []ContextFitsTheBudget
<1>1. ContextFitsTheBudget
  <2> SUFFICES ASSUME NEW results \in Results, NEW paths \in Paths,
                      NEW budget \in Budgets, IsContextBudget(budget)
               PROVE  FitsTheBudget(results, paths, budget)
    BY DEF ContextFitsTheBudget
  <2>1. /\ results \in Seq(Snippet) /\ paths \in Seq(Nat)
        /\ budget \in ContextBudget
    BY ContextAssumption
  <2>2. Distinct(results)
    BY ContextAssumption DEF Distinct
  <2>3. QED
    BY <2>1, <2>2, BundleFits
<1>2. QED
  BY <1>1, PTL

-----------------------------------------------------------------------------
(***************************************************************************)
(* Search: the results in their order, then the choices among them.        *)
(***************************************************************************)
(* The events a search may return.                                         *)
Related(query, view) == {id \in DOMAIN view : IsRelated(query, view[id])}

(* The counts of terms are numbers, so a score is one.                     *)
LEMMA ScoreIsNatural ==
    ASSUME NEW query, NEW event \in IndexedEvent,
           IsFiniteSet(event.terms), IsFiniteSet(event.entities)
    PROVE  /\ Score(query, event) \in Nat
           /\ IsRelated(query, event) <=>
                  \/ ExpandedTerms(query) \cap (event.terms \cup event.entities) # {}
                  \/ event.bm25 + event.vector > 0
<1> DEFINE words == ExpandedTerms(query) \cap event.terms
           names == ExpandedTerms(query) \cap event.entities
<1>1. IsFiniteSet(words) /\ IsFiniteSet(names)
  BY FS_Subset
<1>2. PICK x \in Nat : x = Cardinality(words) /\ (x = 0 <=> words = {})
  BY <1>1, FS_CardinalityType, FS_EmptySet
<1>3. PICK y \in Nat : y = Cardinality(names) /\ (y = 0 <=> names = {})
  BY <1>1, FS_CardinalityType, FS_EmptySet
<1>4. LexicalScore(query, event) = x + y /\ EntityScore(query, event) = y
  BY <1>2, <1>3 DEF LexicalScore, EntityScore
<1>5. /\ event.bm25 \in Nat /\ event.vector \in Nat /\ event.recency \in Nat
      /\ event.confidence \in Nat /\ event.importance \in Nat
  BY DEF IndexedEvent
<1>6. ExpandedTerms(query) \cap (event.terms \cup event.entities) = words \cup names
  OBVIOUS
<1>7. words \cup names # {} <=> x # 0 \/ y # 0
  BY <1>2, <1>3
<1> HIDE DEF words, names
<1>8. Score(query, event) \in Nat
  BY <1>4, <1>5 DEF Score
<1>9. IsRelated(query, event) <=> words \cup names # {} \/ event.bm25 + event.vector > 0
  BY <1>4, <1>5, <1>7 DEF IsRelated
<1>10. QED
  BY <1>6, <1>8, <1>9

(* A text is at most as similar to another as two equal texts are.         *)
LEMMA SimilarityIsBounded ==
    ASSUME NEW left, NEW right, IsFiniteSet(left.terms), IsFiniteSet(right.terms)
    PROVE  Similarity(left, right) \in 0 .. Unit
<1>1. CASE left.terms = {} \/ right.terms = {}
  BY <1>1 DEF Similarity, Unit
<1>2. CASE ~(left.terms = {} \/ right.terms = {})
  <2> DEFINE both == left.terms \cap right.terms
             either == left.terms \cup right.terms
  <2>1. IsFiniteSet(either)
    BY FS_Union
  <2>2. /\ Cardinality(either) \in Nat /\ Cardinality(either) # 0
        /\ Cardinality(both) \in Nat /\ Cardinality(both) <= Cardinality(either)
    BY <1>2, <2>1, FS_Subset, FS_CardinalityType, FS_EmptySet
  <2>3. \A a \in Nat, b \in Nat : b # 0 /\ a <= b => (60 * a) \div b \in 0 .. 60
    OBVIOUS
  <2>4. Similarity(left, right) = (60 * Cardinality(both)) \div Cardinality(either)
    BY <1>2 DEF Similarity, Unit
  <2> HIDE DEF both, either
  <2>5. QED
    BY <2>2, <2>3, <2>4 DEF Unit
<1>3. QED
  BY <1>1, <1>2

(* A bounded set of numbers that is not empty has a largest one.           *)
LEMMA LargestIsAttained ==
    ASSUME NEW n \in Nat, NEW S \in SUBSET (0 .. n), S # {}
    PROVE  Largest(S) \in S /\ \A m \in S : m <= Largest(S)
<1> DEFINE Attained(k) == S \cap (0 .. k) # {} =>
                              \E l \in S : \A m \in S \cap (0 .. k) : m <= l
           T == {k \in 0 .. n : Attained(k)}
<1>1. 0 \in T
  OBVIOUS
<1>2. ASSUME NEW k \in 1 .. n, k - 1 \in T PROVE k \in T
  <2>1. CASE k \in S
    <3>1. \A m \in S \cap (0 .. k) : m <= k
      OBVIOUS
    <3>2. QED
      BY <2>1, <3>1
  <2>2. CASE k \notin S
    <3>1. S \cap (0 .. k) = S \cap (0 .. (k - 1))
      BY <2>2
    <3>2. QED
      BY <1>2, <3>1
  <2>3. QED
    BY <2>1, <2>2
<1>3. n \in T
  <2> HIDE DEF T
  <2>1. \A k \in 0 .. n : k \in T
    BY <1>1, <1>2, EveryTurn
  <2>2. QED
    BY <2>1
<1>4. \E l \in S : \A m \in S : m <= l
  BY <1>3
<1>5. QED
  BY <1>4 DEF Largest

(* The order of the results before selection.                              *)
Precedes(query, view, left, right) ==
    \/ Score(query, view[left]) > Score(query, view[right])
    \/ /\ Score(query, view[left]) = Score(query, view[right])
       /\ left < right

Place(query, view, id) ==
    Cardinality({other \in Related(query, view) : Precedes(query, view, other, id)})

(* Every related event has one place, and the first scores best.           *)
IsRanking(query, view, n, ranked) ==
    /\ n \in Nat /\ Related(query, view) \subseteq DOMAIN view
    /\ ranked \in [1 .. n -> Related(query, view)]
    /\ \A i, j \in 1 .. n : ranked[i] = ranked[j] => i = j
    /\ \A id \in Related(query, view) : \E i \in 1 .. n : ranked[i] = id
    /\ \A id \in Related(query, view) :
          Score(query, view[id]) <= Score(query, view[ranked[1]])

(* _score_event, the sort and the view they start from make a ranking.     *)
LEMMA RankedIsRanking ==
    ASSUME NEW query, NEW view, IsView(view)
    PROVE  /\ IsRanking(query, view, Cardinality(Related(query, view)),
                        Ranked(query, view))
           /\ Cardinality(Related(query, view)) <= Cardinality(DOMAIN view)
           /\ Cardinality(DOMAIN view) \in Nat
<1> DEFINE related == Related(query, view)
           before(id) == {other \in related : Precedes(query, view, other, id)}
           place == [id \in related |-> Place(query, view, id)]
           ranked == Ranked(query, view)
<1>1. related \subseteq DOMAIN view
  BY DEF Related
<1>2. /\ IsFiniteSet(related) /\ Cardinality(related) <= Cardinality(DOMAIN view)
      /\ Cardinality(DOMAIN view) \in Nat
  BY <1>1, FS_Subset, FS_CardinalityType DEF IsView
<1>3. PICK n \in Nat : n = Cardinality(related)
  BY <1>2, FS_CardinalityType
<1>4. \A id \in related : id \in Nat /\ Score(query, view[id]) \in Nat
  BY <1>1, ScoreIsNatural DEF IsView
<1> HIDE DEF related
<1>5. ASSUME NEW id \in related
      PROVE  /\ IsFiniteSet(before(id))
             /\ place[id] = Cardinality(before(id))
             /\ place[id] \in 0 .. (n - 1)
  <2>1. before(id) \subseteq related \ {id}
    BY <1>4 DEF Precedes
  <2>2. IsFiniteSet(related \ {id}) /\ Cardinality(related \ {id}) = n - 1
    BY <1>2, <1>3, FS_RemoveElement
  <2>3. IsFiniteSet(before(id)) /\ Cardinality(before(id)) <= n - 1
    <3> HIDE DEF before
    <3>1. QED
      BY <2>1, <2>2, FS_Subset
  <2>4. Cardinality(before(id)) \in Nat
    <3> HIDE DEF before
    <3>1. QED
      BY <2>3, FS_CardinalityType
  <2>5. place[id] = Cardinality(before(id))
    BY DEF Place, related
  <2> HIDE DEF before, place
  <2>6. QED
    BY <2>3, <2>4, <2>5
<1>6. ASSUME NEW left \in related, NEW right \in related,
             Precedes(query, view, left, right)
      PROVE  place[left] < place[right]
  <2>1. before(left) \subseteq before(right)
    BY <1>4, <1>6 DEF Precedes
  <2>2. left \in before(right) /\ left \notin before(left)
    BY <1>4, <1>6 DEF Precedes
  <2> HIDE DEF before, place
  <2>3. Cardinality(before(left)) <= Cardinality(before(right))
    BY <1>5, <2>1, FS_Subset
  <2>4. Cardinality(before(left)) # Cardinality(before(right))
    BY <1>5, <2>1, <2>2, FS_Subset
  <2>5. QED
    BY <1>5, <2>3, <2>4
<1>7. \A id \in related : place[id] \in 0 .. (n - 1)
  BY <1>5
<1> HIDE DEF place
<1>8. \A left, right \in related :
           Precedes(query, view, left, right) => place[left] < place[right]
  BY <1>6
<1>9. \A id \in related : ~Precedes(query, view, id, id) /\ place[id] \in Int
  BY <1>4, <1>7 DEF Precedes
<1>10. ASSUME NEW left \in related, NEW right \in related, place[left] = place[right]
       PROVE  left = right
  <2>1. ~Precedes(query, view, left, right) /\ ~Precedes(query, view, right, left)
    BY <1>8, <1>9, <1>10
  <2>2. QED
    BY <1>4, <2>1 DEF Precedes
<1> USE DEF place
<1>11. \A p \in 0 .. (n - 1) : \E id \in related : place[id] = p
  <2>1. place \in Injection(related, 0 .. (n - 1))
    <3>1. place \in [related -> 0 .. (n - 1)]
      BY <1>7
    <3>2. IsInjective(place)
      BY <1>10 DEF IsInjective
    <3> HIDE DEF place
    <3>3. QED
      BY <3>1, <3>2 DEF Injection
  <2>2. IsFiniteSet(0 .. (n - 1)) /\ Cardinality(0 .. (n - 1)) = n
    BY FS_Interval
  <2>3. place \in Surjection(related, 0 .. (n - 1))
    <3> HIDE DEF place
    <3>1. QED
      BY <1>3, <2>1, <2>2, FS_Injection
  <2>4. QED
    BY <2>3 DEF Surjection
<1>12. ranked = [i \in 1 .. n |-> CHOOSE id \in related : Place(query, view, id) = i - 1]
  BY <1>3, Zenon DEF Ranked, Related, related, Place, Precedes
<1>13. \A id \in related : place[id] = Place(query, view, id)
  OBVIOUS
<1> HIDE DEF place, ranked
<1>14. ASSUME NEW i \in 1 .. n
       PROVE  ranked[i] \in related /\ place[ranked[i]] = i - 1
  <2>1. PICK id \in related : place[id] = i - 1
    BY <1>11
  <2>2. Place(query, view, id) = i - 1
    BY <1>13, <2>1
  <2>3. QED
    BY <1>12, <1>13, <2>2
<1>15. ranked \in [1 .. n -> related]
  BY <1>12, <1>14
<1>16. \A i, j \in 1 .. n : ranked[i] = ranked[j] => i = j
  BY <1>14
<1>17. ASSUME NEW id \in related PROVE \E i \in 1 .. n : ranked[i] = id
  <2>1. place[id] + 1 \in 1 .. n /\ (place[id] + 1) - 1 = place[id]
    BY <1>3, <1>7
  <2>2. QED
    BY <1>14, <1>10, <2>1
<1>18. ASSUME NEW id \in related
       PROVE  Score(query, view[id]) <= Score(query, view[ranked[1]])
  <2>1. 1 \in 1 .. n
    BY <1>17
  <2>2. ranked[1] \in related /\ place[ranked[1]] = 0
    BY <1>14, <2>1
  <2>3. ~Precedes(query, view, id, ranked[1])
    BY <1>7, <1>8, <2>2
  <2>4. QED
    BY <1>4, <2>2, <2>3 DEF Precedes
<1>19. QED
  BY <1>1, <1>2, <1>3, <1>15, <1>16, <1>17, <1>18 DEF IsRanking, related, ranked

(* The penalty of a result is its similarity to the most similar of those  *)
(* that were chosen.                                                       *)
LEMMA PenaltyIsLargest ==
    ASSUME NEW view, IsView(view), NEW id \in DOMAIN view,
           NEW chosen, ToSet(chosen) \subseteq DOMAIN view
    PROVE  LET penalty == Penalty(view, chosen, id)
           IN  /\ penalty \in 0 .. Unit
               /\ \A other \in ToSet(chosen) :
                     Similarity(view[id], view[other]) <= penalty
               /\ \/ penalty = 0
                  \/ \E other \in ToSet(chosen) :
                        Similarity(view[id], view[other]) = penalty
<1> DEFINE similar == {0} \cup {Similarity(view[id], view[other]) : other \in ToSet(chosen)}
<1>1. \A other \in ToSet(chosen) : Similarity(view[id], view[other]) \in 0 .. Unit
  BY SimilarityIsBounded DEF IsView
<1>2. Unit \in Nat
  BY DEF Unit
<1>3. similar \in SUBSET (0 .. Unit) /\ similar # {}
  BY <1>1, <1>2
<1>4. Penalty(view, chosen, id) = Largest(similar)
  BY DEF Penalty
<1>5. Largest(similar) \in similar /\ \A m \in similar : m <= Largest(similar)
  <2> HIDE DEF similar
  <2>1. QED
    BY <1>2, <1>3, LargestIsAttained
<1>6. QED
  BY <1>3, <1>4, <1>5

(* Of numbers at finitely many positions, some position is the first of the*)
(* largest.                                                                *)
LEMMA FirstOfTheLargest ==
    ASSUME NEW n \in Nat, NEW I \in SUBSET (1 .. n), I # {}, NEW v \in [I -> Int]
    PROVE  \E i \in I : \A j \in I : v[j] < v[i] \/ (v[j] = v[i] /\ i <= j)
<1> DEFINE Attained(k) ==
              I \cap (1 .. k) # {} =>
                  \E i \in I \cap (1 .. k) : \A j \in I \cap (1 .. k) :
                      v[j] < v[i] \/ (v[j] = v[i] /\ i <= j)
           T == {k \in 0 .. n : Attained(k)}
<1>1. 0 \in T
  OBVIOUS
<1>2. ASSUME NEW k \in 1 .. n, k - 1 \in T PROVE k \in T
  <2>1. CASE k \notin I
    <3>1. I \cap (1 .. k) = I \cap (1 .. (k - 1))
      BY <2>1
    <3>2. QED
      BY <1>2, <3>1
  <2>2. CASE k \in I /\ I \cap (1 .. (k - 1)) = {}
    <3>1. I \cap (1 .. k) = {k}
      BY <2>2
    <3>2. QED
      BY <2>2, <3>1
  <2>3. CASE k \in I /\ I \cap (1 .. (k - 1)) # {}
    <3>1. PICK i \in I \cap (1 .. (k - 1)) : \A j \in I \cap (1 .. (k - 1)) :
              v[j] < v[i] \/ (v[j] = v[i] /\ i <= j)
      BY <1>2, <2>3
    <3>2. \A j \in I \cap (1 .. k) : j = k \/ j \in I \cap (1 .. (k - 1))
      OBVIOUS
    <3>3. v[i] \in Int /\ v[k] \in Int /\ \A j \in I : v[j] \in Int
      BY <2>3
    <3>4. CASE v[i] < v[k]
      <4>1. \A j \in I \cap (1 .. k) : v[j] < v[k] \/ (v[j] = v[k] /\ k <= j)
        BY <3>1, <3>2, <3>3, <3>4
      <4>2. QED
        BY <2>3, <4>1
    <3>5. CASE v[k] <= v[i]
      <4>1. \A j \in I \cap (1 .. k) : v[j] < v[i] \/ (v[j] = v[i] /\ i <= j)
        BY <3>1, <3>2, <3>3, <3>5
      <4>2. QED
        BY <2>3, <4>1
    <3>6. QED
      BY <3>3, <3>4, <3>5
  <2>4. QED
    BY <2>1, <2>2, <2>3
<1>3. n \in T
  <2> HIDE DEF T
  <2>1. \A k \in 0 .. n : k \in T
    BY <1>1, <1>2, EveryTurn
  <2>2. QED
    BY <2>1
<1>4. I \cap (1 .. n) = I
  OBVIOUS
<1>5. QED
  BY <1>3, <1>4

(* The steps of the selection.                                             *)
BestScore(query, view, ranked) ==
    Largest({1} \cup {Score(query, view[id]) : id \in ToSet(ranked)})

Remaining(ranked, chosen) == {i \in DOMAIN ranked : ranked[i] \notin ToSet(chosen)}

NextOf(query, view, ranked, best, chosen) ==
    CHOOSE i \in Remaining(ranked, chosen) :
        \A j \in Remaining(ranked, chosen) :
            \/ MarginalRelevance(query, view, chosen, best, ranked[j])
                   < MarginalRelevance(query, view, chosen, best, ranked[i])
            \/ /\ MarginalRelevance(query, view, chosen, best, ranked[j])
                      = MarginalRelevance(query, view, chosen, best, ranked[i])
               /\ i <= j

Taken(query, view, ranked, best, chosen) ==
    IF Remaining(ranked, chosen) = {}
    THEN chosen
    ELSE Append(chosen, ranked[NextOf(query, view, ranked, best, chosen)])

(* The next choice exists, and no other is worth more.                     *)
LEMMA NextIsBest ==
    ASSUME NEW query, NEW view, IsView(view), NEW n, NEW ranked,
           IsRanking(query, view, n, ranked), NEW best \in Nat,
           NEW chosen, ToSet(chosen) \subseteq DOMAIN view,
           Remaining(ranked, chosen) # {}
    PROVE  LET next == NextOf(query, view, ranked, best, chosen)
               Value(i) == MarginalRelevance(query, view, chosen, best, ranked[i])
           IN  /\ next \in Remaining(ranked, chosen) /\ next \in 1 .. n
               /\ \A j \in Remaining(ranked, chosen) :
                     \/ Value(j) < Value(next)
                     \/ Value(j) = Value(next) /\ next <= j
<1> DEFINE I == Remaining(ranked, chosen)
           Value(i) == MarginalRelevance(query, view, chosen, best, ranked[i])
           v == [i \in I |-> Value(i)]
<1>1. n \in Nat /\ I \in SUBSET (1 .. n)
  BY DEF Remaining, IsRanking
<1>2. ASSUME NEW i \in I PROVE Value(i) \in Int
  <2>1. ranked[i] \in DOMAIN view
    BY <1>1 DEF IsRanking
  <2>2. Score(query, view[ranked[i]]) \in Nat
    BY <2>1, ScoreIsNatural DEF IsView
  <2>3. Penalty(view, chosen, ranked[i]) \in Nat
    BY <2>1, PenaltyIsLargest DEF Unit
  <2>4. \A s \in Nat, p \in Nat : 7 * Unit * s - 3 * best * p \in Int
    BY DEF Unit
  <2>5. QED
    BY <2>2, <2>3, <2>4 DEF MarginalRelevance
<1>3. v \in [I -> Int]
  BY <1>2
<1>4. PICK i \in I : \A j \in I : v[j] < v[i] \/ (v[j] = v[i] /\ i <= j)
  <2> HIDE DEF v, I
  <2>1. QED
    BY <1>1, <1>3, FirstOfTheLargest DEF I
<1>5. \E k \in I : \A j \in I : Value(j) < Value(k) \/ (Value(j) = Value(k) /\ k <= j)
  BY <1>4
<1>6. NextOf(query, view, ranked, best, chosen) =
          CHOOSE k \in I : \A j \in I :
              Value(j) < Value(k) \/ (Value(j) = Value(k) /\ k <= j)
  BY DEF NextOf
<1>7. QED
  <2> HIDE DEF I
  <2>1. QED
    BY <1>1, <1>5, <1>6 DEF I

(* A step of the selection stays among the related events.                 *)
LEMMA TakenType ==
    ASSUME NEW query, NEW view, IsView(view), NEW n, NEW ranked,
           IsRanking(query, view, n, ranked), NEW best \in Nat,
           NEW chosen \in Seq(Related(query, view))
    PROVE  Taken(query, view, ranked, best, chosen) \in Seq(Related(query, view))
<1>1. CASE Remaining(ranked, chosen) = {}
  BY <1>1 DEF Taken
<1>2. CASE Remaining(ranked, chosen) # {}
  <2>1. ToSet(chosen) \subseteq DOMAIN view
    BY ElementOfSeq DEF ToSet, IsRanking
  <2> DEFINE next == NextOf(query, view, ranked, best, chosen)
  <2>2. next \in 1 .. n
    BY <1>2, <2>1, NextIsBest
  <2>3. Taken(query, view, ranked, best, chosen) = Append(chosen, ranked[next])
    BY <1>2 DEF Taken
  <2> HIDE DEF next
  <2>4. ranked[next] \in Related(query, view)
    BY <2>2 DEF IsRanking
  <2>5. QED
    BY <2>3, <2>4
<1>3. QED
  BY <1>1, <1>2

(* The best score is that of the result ranked first, and at least one.    *)
LEMMA BestScoreIsFirst ==
    ASSUME NEW query, NEW view, IsView(view), NEW n, NEW ranked,
           IsRanking(query, view, n, ranked)
    PROVE  /\ BestScore(query, view, ranked) \in Nat
           /\ \A id \in Related(query, view) :
                 Score(query, view[id]) <= BestScore(query, view, ranked)
<1> DEFINE related == Related(query, view)
           scores == {1} \cup {Score(query, view[id]) : id \in ToSet(ranked)}
<1>1. ToSet(ranked) = related
  BY DEF ToSet, IsRanking
<1>2. \A id \in related : Score(query, view[id]) \in Nat
  BY ScoreIsNatural DEF IsView, IsRanking
<1>3. BestScore(query, view, ranked) = Largest(scores)
  BY DEF BestScore
<1>4. PICK top \in Nat : scores \in SUBSET (0 .. top)
  <2>1. CASE related = {}
    <3>1. scores \in SUBSET (0 .. 1)
      BY <1>1, <2>1
    <3>2. QED
      BY <3>1
  <2>2. CASE related # {}
    <3>1. ranked[1] \in related
      BY <2>2 DEF IsRanking
    <3>2. \A id \in related : Score(query, view[id]) <= Score(query, view[ranked[1]])
      BY DEF IsRanking
    <3>3. PICK first \in Nat : first = Score(query, view[ranked[1]])
      BY <1>2, <3>1
    <3>4. \A id \in related : Score(query, view[id]) \in 0 .. (first + 1)
      BY <1>2, <3>2, <3>3
    <3>5. scores \in SUBSET (0 .. (first + 1))
      BY <1>1, <3>4
    <3>6. first + 1 \in Nat
      OBVIOUS
    <3>7. QED
      BY <3>5, <3>6
  <2>3. QED
    BY <2>1, <2>2
<1>5. \A id \in related : Score(query, view[id]) \in scores
  BY <1>1
<1>6. scores # {}
  OBVIOUS
<1> HIDE DEF scores
<1>7. Largest(scores) \in scores /\ \A m \in scores : m <= Largest(scores)
  BY <1>4, <1>6, LargestIsAttained
<1>8. Largest(scores) \in Nat
  <2>1. Largest(scores) \in 0 .. top
    BY <1>4, <1>7, Zenon
  <2>2. QED
    BY <2>1
<1>9. \A id \in related : Score(query, view[id]) <= Largest(scores)
  BY <1>5, <1>7
<1>10. QED
  BY <1>3, <1>8, <1>9, Zenon DEF related

(* The fold is the loop; a negative number of results is none.             *)
LEMMA SelectUnrolls ==
    ASSUME NEW query, NEW view, IsView(view), NEW n, NEW ranked,
           IsRanking(query, view, n, ranked),
           NEW top_k \in Int, NEW m \in Nat, m = IF top_k < 0 THEN 0 ELSE top_k
    PROVE  \E after :
               /\ after[0] = <<>>
               /\ \A k \in 1 .. m :
                     after[k] = Taken(query, view, ranked,
                                      BestScore(query, view, ranked), after[k - 1])
               /\ SelectMMR(query, view, ranked, top_k) = after[m]
<1> DEFINE best == BestScore(query, view, ranked)
           X == Seq(Related(query, view))
           steps == [step \in 1 .. top_k |-> step]
           Fold(g) == [s \in SUBSET (DOMAIN steps) |->
                          IF s = {} THEN <<>>
                          ELSE Taken(query, view, ranked, best, g[s \ {Max(s)}])]
           fold == CHOOSE g : g = Fold(g)
<1>1. SelectMMR(query, view, ranked, top_k) = fold[DOMAIN steps]
  BY Zenon DEF SelectMMR, FoldLeft, MapThenFoldSet, Taken, NextOf, Remaining, BestScore
<1>2. DOMAIN steps = 1 .. m
  OBVIOUS
<1>3. best \in Nat
  BY BestScoreIsFirst
<1> HIDE DEF steps, best
<1>4. \E g : g = Fold(g)
  <2> DEFINE turn == [arg \in (1 .. m) \X X |-> Taken(query, view, ranked, best, arg[2])]
  <2>1. <<>> \in X
    OBVIOUS
  <2>2. turn \in [(1 .. m) \X X -> X]
    BY <1>3, TakenType
  <2>3. PICK g : IsFold(g, m, X, <<>>, turn)
    <3> HIDE DEF turn, X
    <3>1. QED
      BY <2>1, <2>2, FoldExists
  <2>4. ASSUME NEW s \in SUBSET (1 .. m), s # {}
        PROVE  turn[<<Max(s), g[s \ {Max(s)}]>>]
                   = Taken(query, view, ranked, best, g[s \ {Max(s)}])
    <3>1. Max(s) \in 1 .. m
      BY <2>4, LargestIsOne
    <3>2. g[s \ {Max(s)}] \in X
      BY <2>3 DEF IsFold
    <3>3. QED
      BY <3>1, <3>2
  <2> HIDE DEF turn, X
  <2>5. g = Fold(g)
    BY <1>2, <2>3, <2>4 DEF IsFold
  <2>6. QED
    BY <2>5
<1>5. fold = Fold(fold)
  <2> HIDE DEF Fold
  <2>1. QED
    BY <1>4
<1> HIDE DEF fold
<1>6. \A s \in SUBSET (1 .. m) :
          fold[s] = IF s = {} THEN <<>>
                    ELSE Taken(query, view, ranked, best, fold[s \ {Max(s)}])
  BY <1>2, <1>5
<1> HIDE DEF Fold
<1>7. fold[1 .. 0] = <<>>
  <2>1. 1 .. 0 = {} /\ {} \in SUBSET (1 .. m)
    OBVIOUS
  <2>2. QED
    BY <1>6, <2>1, Zenon
<1>8. ASSUME NEW k \in 1 .. m
      PROVE  fold[1 .. k] = Taken(query, view, ranked, best, fold[1 .. (k - 1)])
  <2>1. /\ 1 .. k \in SUBSET (1 .. m) /\ 1 .. k # {}
        /\ Max(1 .. k) = k /\ (1 .. k) \ {k} = 1 .. (k - 1)
    <3>1. k \in Nat \ {0} /\ 1 .. k \in SUBSET (1 .. m) /\ 1 .. k # {}
      OBVIOUS
    <3>2. QED
      BY <3>1, LargestOfFirst
  <2>2. fold[1 .. k] = Taken(query, view, ranked, best, fold[(1 .. k) \ {Max(1 .. k)}])
    BY <1>6, <2>1, Zenon
  <2>3. QED
    BY <2>1, <2>2, Zenon
<1>9. QED
  <2> DEFINE after == [k \in 0 .. m |-> fold[1 .. k]]
  <2>1. /\ after[0] = <<>>
        /\ \A k \in 1 .. m : after[k] = Taken(query, view, ranked, best, after[k - 1])
        /\ SelectMMR(query, view, ranked, top_k) = after[m]
    BY <1>1, <1>2, <1>7, <1>8
  <2>2. QED
    BY <2>1 DEF best

(* The first k elements of a list.                                         *)
Leading(list, k) == [i \in 1 .. k |-> list[i]]

(* The whole selection: every related event once, each the next choice     *)
(* after those before it.                                                  *)
IsSelection(query, view, n, ranked, all) ==
    /\ all \in [1 .. n -> Related(query, view)]
    /\ \A i, j \in 1 .. n : all[i] = all[j] => i = j
    /\ \A i \in 1 .. n :
          LET next == NextOf(query, view, ranked, BestScore(query, view, ranked),
                             Leading(all, i - 1))
          IN  /\ next \in Remaining(ranked, Leading(all, i - 1))
              /\ all[i] = ranked[next]

(* Fewer than n choices leave a result to choose.                          *)
LEMMA SomeRemain ==
    ASSUME NEW query, NEW view, NEW n, NEW ranked, IsRanking(query, view, n, ranked),
           NEW k \in Nat, k < n, NEW chosen, DOMAIN chosen = 1 .. k
    PROVE  Remaining(ranked, chosen) # {}
<1> SUFFICES ASSUME Remaining(ranked, chosen) = {} PROVE FALSE
  OBVIOUS
<1>1. n \in Nat /\ DOMAIN ranked = 1 .. n
  BY DEF IsRanking
<1>2. \A i \in 1 .. n : \E j \in 1 .. k : chosen[j] = ranked[i]
  BY <1>1 DEF Remaining, ToSet
<1> DEFINE f == [i \in 1 .. n |-> CHOOSE j \in 1 .. k : chosen[j] = ranked[i]]
<1>3. \A i \in 1 .. n : f[i] \in 1 .. k /\ chosen[f[i]] = ranked[i]
  BY <1>2
<1>4. f \in [1 .. n -> 1 .. k]
  BY <1>3
<1> HIDE DEF f
<1>5. \A m \in Nat : IsFiniteSet(1 .. m) /\ Cardinality(1 .. m) = m
  <2>1. TAKE m \in Nat
  <2>2. QED
    BY FS_Interval
<1>6. PICK i, j \in 1 .. n : i # j /\ f[i] = f[j]
  <2>1. /\ IsFiniteSet(1 .. n) /\ IsFiniteSet(1 .. k)
        /\ Cardinality(1 .. k) < Cardinality(1 .. n)
    BY <1>1, <1>5
  <2>2. PICK from, to : from = 1 .. n /\ to = 1 .. k
    OBVIOUS
  <2>3. /\ IsFiniteSet(from) /\ IsFiniteSet(to) /\ Cardinality(to) < Cardinality(from)
        /\ f \in [from -> to]
    BY <1>4, <2>1, <2>2
  <2>4. \E i, j \in from : i # j /\ f[i] = f[j]
    BY ONLY <2>3, FS_PigeonHole
  <2>5. QED
    BY <2>2, <2>4
<1>7. ranked[i] = ranked[j]
  BY <1>3, <1>6
<1>8. QED
  BY <1>6, <1>7 DEF IsRanking

(* The steps of the selection, taken n times, make the whole of it.        *)
LEMMA SelectionExists ==
    ASSUME NEW query, NEW view, IsView(view), NEW n, NEW ranked,
           IsRanking(query, view, n, ranked)
    PROVE  \E all : IsSelection(query, view, n, ranked, all)
<1> DEFINE best == BestScore(query, view, ranked)
           Choice(chosen) == NextOf(query, view, ranked, best, chosen)
           related == Related(query, view)
           Chosen(k, c) ==
              /\ c \in [1 .. k -> related]
              /\ \A i, j \in 1 .. k : c[i] = c[j] => i = j
              /\ \A i \in 1 .. k :
                    /\ Choice(Leading(c, i - 1)) \in Remaining(ranked, Leading(c, i - 1))
                    /\ c[i] = ranked[Choice(Leading(c, i - 1))]
           S == {k \in 0 .. n : \E c : Chosen(k, c)}
<1>1. n \in Nat /\ best \in Nat /\ related \subseteq DOMAIN view
  BY BestScoreIsFirst DEF IsRanking
<1>2. 0 \in S
  <2> HIDE DEF related, Choice
  <2>1. Chosen(0, <<>>)
    OBVIOUS
  <2> HIDE DEF Chosen
  <2>2. QED
    BY <1>1, <2>1
<1>3. ASSUME NEW k \in 1 .. n, k - 1 \in S PROVE k \in S
  <2>1. PICK c : Chosen(k - 1, c)
    BY <1>3
  <2>2. DOMAIN c = 1 .. (k - 1) /\ ToSet(c) \subseteq related
    BY <2>1 DEF ToSet
  <2>3. Remaining(ranked, c) # {}
    <3>1. k - 1 \in Nat /\ k - 1 < n
      BY <1>1
    <3>2. QED
      BY <2>2, <3>1, SomeRemain
  <2>4. Choice(c) \in Remaining(ranked, c) /\ Choice(c) \in 1 .. n
    BY <1>1, <2>2, <2>3, NextIsBest
  <2> DEFINE longer == [i \in 1 .. k |-> IF i = k THEN ranked[Choice(c)] ELSE c[i]]
  <2>5. Leading(longer, k - 1) = c
    BY <2>1, <2>2 DEF Leading
  <2>6. \A i \in 1 .. (k - 1) : Leading(longer, i - 1) = Leading(c, i - 1)
    BY DEF Leading
  <2>7. ranked[Choice(c)] \in related /\ ranked[Choice(c)] \notin ToSet(c)
    BY <2>4 DEF Remaining, IsRanking
  <2> HIDE DEF Choice, related
  <2>8. /\ DOMAIN longer = 1 .. k /\ longer[k] = ranked[Choice(c)]
        /\ \A i \in 1 .. (k - 1) : longer[i] = c[i] /\ longer[i] \in related
        /\ \A i \in 1 .. k : i = k \/ i \in 1 .. (k - 1)
    BY <2>1
  <2>9. longer \in [1 .. k -> related]
    BY <2>7, <2>8
  <2> HIDE DEF longer
  <2>10. \A i \in 1 .. (k - 1) : c[i] \in ToSet(c)
    BY <2>2 DEF ToSet
  <2>11. \A i, j \in 1 .. k : longer[i] = longer[j] => i = j
    BY <2>1, <2>7, <2>8, <2>10
  <2>12. ASSUME NEW i \in 1 .. k
         PROVE  /\ Choice(Leading(longer, i - 1)) \in Remaining(ranked, Leading(longer, i - 1))
                /\ longer[i] = ranked[Choice(Leading(longer, i - 1))]
    <3>1. CASE i = k
      BY <2>4, <2>5, <2>8, <3>1
    <3>2. CASE i \in 1 .. (k - 1)
      BY <2>1, <2>6, <2>8, <3>2
    <3>3. QED
      BY <2>8, <3>1, <3>2
  <2>13. Chosen(k, longer)
    BY <2>9, <2>11, <2>12
  <2> HIDE DEF Chosen
  <2>14. QED
    BY <2>13
<1>4. PICK all : Chosen(n, all)
  <2> HIDE DEF S
  <2>1. \A k \in 0 .. n : k \in S
    BY <1>1, <1>2, <1>3, EveryTurn
  <2>2. n \in S
    BY <1>1, <2>1
  <2>3. QED
    BY <2>2 DEF S
<1>5. IsSelection(query, view, n, ranked, all)
  BY <1>4 DEF IsSelection
<1>6. QED
  BY <1>5

(* The whole selection leaves nothing out.                                 *)
LEMMA SelectionIsComplete ==
    ASSUME NEW query, NEW view, NEW n, NEW ranked, IsRanking(query, view, n, ranked),
           NEW all, IsSelection(query, view, n, ranked, all)
    PROVE  \A id \in Related(query, view) : \E i \in 1 .. n : all[i] = id
<1>1. n \in Nat
  BY DEF IsRanking
<1> DEFINE place == [i \in 1 .. n |-> CHOOSE p \in 1 .. n : ranked[p] = all[i]]
<1>2. \A i \in 1 .. n : place[i] \in 1 .. n /\ ranked[place[i]] = all[i]
  BY DEF IsRanking, IsSelection
<1>3. place \in [1 .. n -> 1 .. n]
  BY <1>2
<1> HIDE DEF place
<1>4. place \in Injection(1 .. n, 1 .. n)
  <2>1. \A i, j \in 1 .. n : place[i] = place[j] => i = j
    BY <1>2 DEF IsSelection
  <2>2. QED
    BY <1>3, <2>1 DEF Injection, IsInjective
<1>5. place \in Surjection(1 .. n, 1 .. n)
  <2>1. PICK places : places = 1 .. n
    OBVIOUS
  <2>2. IsFiniteSet(places)
    BY <1>1, <2>1, FS_Interval
  <2>3. place \in Injection(places, places)
    BY <1>4, <2>1
  <2>4. place \in Surjection(places, places)
    BY ONLY <2>2, <2>3, FS_Injection
  <2>5. QED
    BY <2>1, <2>4
<1>6. ASSUME NEW id \in Related(query, view) PROVE \E i \in 1 .. n : all[i] = id
  <2>1. PICK p \in 1 .. n : ranked[p] = id
    BY DEF IsRanking
  <2>2. PICK i \in 1 .. n : place[i] = p
    BY <1>5 DEF Surjection
  <2>3. QED
    BY <1>2, <2>1, <2>2
<1>7. QED
  BY <1>6

(* Asking for some results gives the beginning of the whole selection.     *)
LEMMA SearchIsLeading ==
    ASSUME NEW query, NEW view, IsView(view), NEW n, NEW ranked,
           IsRanking(query, view, n, ranked),
           NEW all, IsSelection(query, view, n, ranked, all),
           NEW top_k \in Int, NEW m \in Nat, m = IF top_k < 0 THEN 0 ELSE top_k
    PROVE  SelectMMR(query, view, ranked, top_k)
               = Leading(all, IF m <= n THEN m ELSE n)
<1> DEFINE best == BestScore(query, view, ranked)
           length(k) == IF k <= n THEN k ELSE n
<1>1. n \in Nat /\ all \in [1 .. n -> Related(query, view)]
  BY DEF IsRanking, IsSelection
<1>2. PICK after :
          /\ after[0] = <<>>
          /\ \A k \in 1 .. m : after[k] = Taken(query, view, ranked, best, after[k - 1])
          /\ SelectMMR(query, view, ranked, top_k) = after[m]
  BY SelectUnrolls
<1> DEFINE S == {k \in 0 .. m : after[k] = Leading(all, length(k))}
<1>3. 0 \in S
  <2>1. Leading(all, 0) = <<>>
    BY DEF Leading
  <2>2. QED
    BY <1>1, <1>2, <2>1
<1>4. ASSUME NEW k \in 1 .. m, k - 1 \in S PROVE k \in S
  <2>1. after[k] = Taken(query, view, ranked, best, Leading(all, length(k - 1)))
    BY <1>2, <1>4
  <2>2. CASE k <= n
    <3> DEFINE chosen == Leading(all, k - 1)
               next == NextOf(query, view, ranked, best, chosen)
    <3>1. k \in 1 .. n /\ length(k) = k /\ length(k - 1) = k - 1
      BY <1>1, <2>2
    <3>2. next \in Remaining(ranked, chosen) /\ all[k] = ranked[next]
      BY <3>1 DEF IsSelection
    <3>3. Taken(query, view, ranked, best, chosen) = Append(chosen, all[k])
      BY <3>2 DEF Taken
    <3>4. Append(chosen, all[k]) = Leading(all, k)
      <4>1. chosen \in Seq(Related(query, view)) /\ Len(chosen) = k - 1
        <5>1. k - 1 \in Nat /\ Leading(all, k - 1) \in [1 .. (k - 1) -> Related(query, view)]
          BY <1>1, <3>1 DEF Leading
        <5>2. QED
          BY <5>1, FunctionIsSeq
      <4>2. \A i \in 1 .. (k - 1) : chosen[i] = all[i]
        BY DEF Leading
      <4> HIDE DEF chosen
      <4>3. PICK longer : longer = Append(chosen, all[k])
        OBVIOUS
      <4>4. /\ DOMAIN longer = 1 .. k /\ longer[k] = all[k]
            /\ \A i \in 1 .. (k - 1) : longer[i] = all[i]
            /\ longer = [i \in DOMAIN longer |-> longer[i]]
        BY <3>1, <4>1, <4>2, <4>3
      <4>5. \A i \in 1 .. k : longer[i] = all[i]
        BY <4>4
      <4>6. QED
        BY <4>3, <4>4, <4>5 DEF Leading
    <3>5. length(k - 1) = k - 1 /\ length(k) = k
      BY <3>1
    <3> HIDE DEF length
    <3>6. after[k] = Leading(all, length(k))
      BY <2>1, <3>3, <3>4, <3>5
    <3>7. QED
      BY <3>6
  <2>3. CASE k > n
    <3>1. length(k) = n /\ length(k - 1) = n
      BY <1>1, <2>3
    <3>2. Remaining(ranked, Leading(all, n)) = {}
      <4>1. \A id \in Related(query, view) : id \in ToSet(Leading(all, n))
        BY SelectionIsComplete DEF ToSet, Leading
      <4>2. QED
        BY <4>1 DEF Remaining, IsRanking
    <3>3. Taken(query, view, ranked, best, Leading(all, n)) = Leading(all, n)
      BY <3>2 DEF Taken
    <3>4. QED
      BY <2>1, <3>1, <3>3
  <2>4. QED
    BY <1>1, <2>2, <2>3
<1>5. m \in S
  <2> HIDE DEF S
  <2>1. \A k \in 0 .. m : k \in S
    BY <1>3, <1>4, EveryTurn
  <2>2. QED
    BY <2>1
<1>6. QED
  BY <1>2, <1>5

(* No result that is left is worth more than the one chosen next.          *)
LEMMA ChoiceIsBest ==
    ASSUME NEW query, NEW view, IsView(view), NEW n, NEW ranked,
           IsRanking(query, view, n, ranked),
           NEW all, IsSelection(query, view, n, ranked, all),
           NEW i \in 1 .. n, NEW id \in Related(query, view),
           \A j \in 1 .. (i - 1) : all[j] # id
    PROVE  LET best == BestScore(query, view, ranked)
               chosen == Leading(all, i - 1)
           IN  7 * Unit * Score(query, view[id]) - 3 * best * Penalty(view, chosen, id)
                   <= 7 * Unit * Score(query, view[all[i]])
                          - 3 * best * Penalty(view, chosen, all[i])
<1> DEFINE best == BestScore(query, view, ranked)
           chosen == Leading(all, i - 1)
           next == NextOf(query, view, ranked, best, chosen)
           Value(x) == MarginalRelevance(query, view, chosen, best, x)
<1>1. best \in Nat
  BY BestScoreIsFirst
<1>2. next \in Remaining(ranked, chosen) /\ all[i] = ranked[next]
  BY DEF IsSelection
<1>3. ToSet(chosen) = {all[j] : j \in 1 .. (i - 1)}
  BY DEF ToSet, Leading
<1>4. ToSet(chosen) \subseteq DOMAIN view
  BY <1>3 DEF IsSelection, IsRanking
<1>5. PICK p \in 1 .. n : ranked[p] = id
  BY DEF IsRanking
<1>6. p \in Remaining(ranked, chosen)
  BY <1>3, <1>5 DEF Remaining, IsRanking
<1>7. Value(ranked[p]) < Value(ranked[next]) \/ Value(ranked[p]) = Value(ranked[next])
  <2> HIDE DEF chosen, best
  <2>1. QED
    BY <1>1, <1>4, <1>6, NextIsBest
<1>8. \A x \in Related(query, view) :
          /\ Score(query, view[x]) \in Nat
          /\ Penalty(view, chosen, x) \in Nat
  <2>1. TAKE x \in Related(query, view)
  <2>2. x \in DOMAIN view
    BY DEF IsRanking
  <2> HIDE DEF chosen
  <2>3. Score(query, view[x]) \in Nat
    BY <2>2, ScoreIsNatural DEF IsView
  <2>4. Penalty(view, chosen, x) \in Nat
    BY <1>4, <2>2, PenaltyIsLargest DEF Unit
  <2>5. QED
    BY <2>3, <2>4
<1>9. \A x \in Related(query, view) : Value(x) \in Int
  <2>1. \A s \in Nat, t \in Nat : 7 * Unit * s - 3 * best * t \in Int
    BY <1>1 DEF Unit
  <2> HIDE DEF best, chosen
  <2>2. QED
    BY <1>8, <2>1 DEF MarginalRelevance
<1>10. ranked[next] \in Related(query, view) /\ ranked[p] = id
  BY <1>2, <1>5 DEF IsSelection
<1> HIDE DEF best, chosen, next
<1>11. Value(id) <= Value(all[i])
  <2>1. Value(id) \in Int /\ Value(all[i]) \in Int
    BY <1>2, <1>9, <1>10
  <2>2. Value(id) < Value(all[i]) \/ Value(id) = Value(all[i])
    BY <1>2, <1>7, <1>10
  <2> HIDE DEF Value
  <2>3. QED
    BY <2>1, <2>2
<1>12. QED
  BY <1>11 DEF MarginalRelevance, best, chosen

(* Nothing is similar to an empty list.                                    *)
LEMMA NoPenaltyAtFirst ==
    ASSUME NEW view, NEW all, NEW id
    PROVE  Penalty(view, Leading(all, 0), id) = 0
<1>1. ToSet(Leading(all, 0)) = {}
  BY DEF ToSet, Leading
<1>2. Penalty(view, Leading(all, 0), id) = Largest({0})
  <2>1. {0} \cup {Similarity(view[id], view[other]) : other \in {}} = {0}
    OBVIOUS
  <2>2. QED
    BY <1>1, <2>1 DEF Penalty
<1>3. Largest({0}) = 0
  BY DEF Largest
<1>4. QED
  BY <1>2, <1>3

(* The first choice is one of the best scores.                             *)
LEMMA FirstScoresBest ==
    ASSUME NEW query, NEW view, IsView(view), NEW n, NEW ranked,
           IsRanking(query, view, n, ranked),
           NEW all, IsSelection(query, view, n, ranked, all), n # 0,
           NEW id \in Related(query, view)
    PROVE  Score(query, view[id]) <= Score(query, view[all[1]])
<1>1. n \in Nat /\ 1 \in 1 .. n /\ all[1] \in Related(query, view)
  BY DEF IsRanking, IsSelection
<1>2. BestScore(query, view, ranked) \in Nat
  BY BestScoreIsFirst
<1>3. \A x \in Related(query, view) : Score(query, view[x]) \in Nat
  BY ScoreIsNatural DEF IsView, IsRanking
<1>4. \A j \in 1 .. (1 - 1) : all[j] # id
  OBVIOUS
<1>5. 7 * Unit * Score(query, view[id])
              - 3 * BestScore(query, view, ranked) * Penalty(view, Leading(all, 1 - 1), id)
          <= 7 * Unit * Score(query, view[all[1]])
              - 3 * BestScore(query, view, ranked)
                  * Penalty(view, Leading(all, 1 - 1), all[1])
  BY <1>1, <1>4, ChoiceIsBest
<1>6. 1 - 1 = 0
  OBVIOUS
<1>7. 7 * Unit * Score(query, view[id]) - 3 * BestScore(query, view, ranked) * 0
          <= 7 * Unit * Score(query, view[all[1]])
                 - 3 * BestScore(query, view, ranked) * 0
  BY <1>5, <1>6, NoPenaltyAtFirst
<1>8. QED
  BY <1>1, <1>2, <1>3, <1>7 DEF Unit

(* A repeated text is chosen before a new one only when it scores better by*)
(* what the penalty costs.                                                 *)
LEMMA RepeatsYield ==
    ASSUME NEW query, NEW view, IsView(view), NEW n, NEW ranked,
           IsRanking(query, view, n, ranked),
           NEW all, IsSelection(query, view, n, ranked, all)
    PROVE  RepetitionYields(query, view, all)
<1> DEFINE best == BestScore(query, view, ranked)
<1>1. n \in Nat /\ DOMAIN all = 1 .. n /\ Related(query, view) \subseteq DOMAIN view
  BY DEF IsRanking, IsSelection
<1> SUFFICES ASSUME NEW i \in 1 .. n, NEW later \in 1 .. n, i < later,
                    RepeatsEarlier(view, all, i), IsNewAt(view, all, i, all[later])
             PROVE  7 * (Score(query, view[all[i]]) - Score(query, view[all[later]]))
                        >= 3 * Score(query, view[all[1]])
  BY <1>1 DEF RepetitionYields
<1> DEFINE chosen == Leading(all, i - 1)
<1>2. ToSet(chosen) = {all[j] : j \in 1 .. (i - 1)}
  BY DEF ToSet, Leading
<1>3. \A j \in 1 .. n : all[j] \in Related(query, view) /\ all[j] \in DOMAIN view
  BY <1>1 DEF IsSelection
<1>4. ToSet(chosen) \subseteq DOMAIN view
  <2>1. \A j \in 1 .. (i - 1) : j \in 1 .. n
    BY <1>1
  <2>2. QED
    BY <1>2, <1>3, <2>1
<1> HIDE DEF chosen
<1>5. Penalty(view, chosen, all[i]) \in 0 .. Unit /\ Penalty(view, chosen, all[i]) >= Unit
  <2>1. PICK j \in 1 .. (i - 1) : Similarity(view[all[i]], view[all[j]]) = Unit
    BY DEF RepeatsEarlier
  <2>2. all[j] \in ToSet(chosen)
    BY <1>2
  <2>3. /\ Penalty(view, chosen, all[i]) \in 0 .. Unit
        /\ Similarity(view[all[i]], view[all[j]]) <= Penalty(view, chosen, all[i])
    BY <1>3, <1>4, <2>2, PenaltyIsLargest
  <2>4. QED
    BY <2>1, <2>3
<1>6. Penalty(view, chosen, all[i]) = Unit
  BY <1>5 DEF Unit
<1>7. Penalty(view, chosen, all[later]) = 0
  <2>1. \A other \in ToSet(chosen) : Similarity(view[all[later]], view[other]) = 0
    BY <1>2 DEF IsNewAt
  <2>2. \/ Penalty(view, chosen, all[later]) = 0
        \/ \E other \in ToSet(chosen) :
              Similarity(view[all[later]], view[other]) = Penalty(view, chosen, all[later])
    BY <1>3, <1>4, PenaltyIsLargest
  <2>3. QED
    BY <2>1, <2>2
<1>8. \A j \in 1 .. (i - 1) : all[j] # all[later]
  BY <1>1 DEF IsSelection
<1>9. 7 * Unit * Score(query, view[all[later]])
              - 3 * best * Penalty(view, chosen, all[later])
          <= 7 * Unit * Score(query, view[all[i]])
              - 3 * best * Penalty(view, chosen, all[i])
  BY <1>3, <1>8, ChoiceIsBest DEF chosen
<1>10. PICK x, y, z \in Nat :
           /\ x = Score(query, view[all[i]]) /\ y = Score(query, view[all[later]])
           /\ z = Score(query, view[all[1]])
  <2>1. 1 \in 1 .. n
    BY <1>1
  <2>2. QED
    BY <1>3, <2>1, ScoreIsNatural DEF IsView
<1>11. best \in Nat /\ z <= best
  <2>1. all[1] \in Related(query, view)
    BY <1>1, <1>3
  <2>2. QED
    BY <1>10, <2>1, BestScoreIsFirst
<1> HIDE DEF best
<1>12. 7 * 60 * y - 3 * best * 0 <= 7 * 60 * x - 3 * best * 60
  BY <1>6, <1>7, <1>9, <1>10 DEF Unit
<1>13. 7 * (x - y) >= 3 * z
  BY <1>11, <1>12
<1>14. QED
  BY <1>10, <1>13

(* The beginning of a selection.                                           *)
LEMMA LeadingIsSound ==
    ASSUME NEW n \in Nat, NEW S, NEW all \in [1 .. n -> S], NEW k \in 0 .. n
    PROVE  /\ Leading(all, k) \in Seq(S) /\ Len(Leading(all, k)) = k
           /\ all \in Seq(S) /\ Len(all) = n
           /\ IsPrefix(Leading(all, k), all)
<1>1. k \in Nat /\ Leading(all, k) \in [1 .. k -> S]
  BY DEF Leading
<1>2. /\ Leading(all, k) \in Seq(S) /\ Len(Leading(all, k)) = k
      /\ all \in Seq(S) /\ Len(all) = n
  BY <1>1, FunctionIsSeq
<1>3. SubSeq(Leading(all, k), 1, k) = SubSeq(all, 1, k)
  <2>1. PICK lead \in Seq(S) : lead = Leading(all, k) /\ Len(lead) = k
    BY <1>2
  <2>2. \A i \in 1 .. k : lead[i] = all[i]
    BY <2>1 DEF Leading
  <2>3. /\ SubSeq(lead, 1, k) = [i \in 1 .. k |-> lead[i]]
        /\ SubSeq(all, 1, k) = [i \in 1 .. k |-> all[i]]
    BY <1>1, <1>2, <2>1
  <2>4. QED
    BY <2>1, <2>2, <2>3
<1>4. QED
  BY <1>2, <1>3 DEF IsPrefix

(* What a search finds, whatever the view and the query.                   *)
LEMMA SearchIsSound ==
    ASSUME NEW query, NEW view, IsView(view)
    PROVE  IsRelevantAndDiverse(query, view)
<1> DEFINE related == Related(query, view)
           ranked == Ranked(query, view)
<1>1. PICK n : n = Cardinality(related)
  OBVIOUS
<1>2. PICK size \in Nat : size = Cardinality(DOMAIN view) /\ n <= size
  BY <1>1, RankedIsRanking
<1>3. IsRanking(query, view, n, ranked)
  BY <1>1, RankedIsRanking
<1>4. PICK all : IsSelection(query, view, n, ranked, all)
  BY <1>3, SelectionExists
<1>5. /\ n \in Nat /\ all \in [1 .. n -> related]
      /\ \A i, j \in 1 .. n : all[i] = all[j] => i = j
  BY <1>3, <1>4 DEF IsRanking, IsSelection
<1>6. \A id \in related : \E i \in 1 .. n : all[i] = id
  BY <1>3, <1>4, SelectionIsComplete
<1>7. ASSUME NEW top_k \in Int, NEW m \in Nat, m = IF top_k < 0 THEN 0 ELSE top_k
      PROVE  Search(query, view, top_k) = Leading(all, IF m <= n THEN m ELSE n)
  BY <1>3, <1>4, <1>7, SearchIsLeading DEF Search
<1>8. Search(query, view, Cardinality(DOMAIN view)) = all
  <2>1. size \in Int /\ size = IF size < 0 THEN 0 ELSE size
    BY <1>2
  <2>2. Search(query, view, size) = Leading(all, IF size <= n THEN size ELSE n)
    BY <1>7, <2>1
  <2>3. (IF size <= n THEN size ELSE n) = n
    BY <1>2, <1>5
  <2>4. Leading(all, n) = all
    BY <1>5 DEF Leading
  <2>5. QED
    BY <1>2, <2>2, <2>3, <2>4
<1>9. \A id \in DOMAIN view :
          IsRelated(query, view[id]) <=>
              \/ ExpandedTerms(query) \cap (view[id].terms \cup view[id].entities) # {}
              \/ view[id].bm25 + view[id].vector > 0
  BY ScoreIsNatural DEF IsView
<1>10. related = {id \in DOMAIN view :
                     \/ ExpandedTerms(query)
                            \cap (view[id].terms \cup view[id].entities) # {}
                     \/ view[id].bm25 + view[id].vector > 0}
  BY <1>9 DEF Related
<1> HIDE DEF ranked
<1>11. BestComesFirst(query, view, all)
  <2> SUFFICES ASSUME all # <<>>, NEW id \in related
               PROVE  Score(query, view[id]) <= Score(query, view[all[1]])
    BY DEF BestComesFirst, Related
  <2>1. n # 0
    BY <1>6
  <2>2. QED
    BY <1>3, <1>4, <2>1, FirstScoresBest
<1>12. RepetitionYields(query, view, all)
  BY <1>3, <1>4, RepeatsYield
<1>13. ASSUME NEW top_k \in Int
       PROVE  /\ FindsTheRelated(query, view, top_k)
              /\ IsPrefix(Search(query, view, top_k), all)
  <2>1. PICK m \in Nat : m = IF top_k < 0 THEN 0 ELSE top_k
    OBVIOUS
  <2>2. PICK k \in 0 .. n : k = IF m <= n THEN m ELSE n
    BY <1>5
  <2>3. PICK found : found = Search(query, view, top_k)
    OBVIOUS
  <2>4. found = Leading(all, k)
    BY <1>7, <2>1, <2>2, <2>3
  <2>5. /\ found \in Seq(related) /\ Len(found) = k /\ IsPrefix(found, all)
        /\ DOMAIN found = 1 .. k /\ \A i \in 1 .. k : found[i] = all[i]
    <3>1. /\ found \in Seq(related) /\ Len(found) = k /\ IsPrefix(found, all)
      BY <1>5, <2>4, LeadingIsSound
    <3>2. DOMAIN found = 1 .. k /\ \A i \in 1 .. k : found[i] = all[i]
      BY <2>4 DEF Leading
    <3>3. QED
      BY <3>1, <3>2
  <2> HIDE DEF related
  <2>6. IsInjective(found) /\ ToSet(found) \subseteq related
    BY <1>5, <2>5 DEF IsInjective, ToSet
  <2>7. top_k >= Cardinality(related) => ToSet(found) = related
    <3>1. SUFFICES ASSUME top_k >= n PROVE related \subseteq ToSet(found)
      BY <1>1, <2>6
    <3>2. k = n
      BY <1>5, <2>1, <2>2, <3>1
    <3>3. QED
      BY <1>6, <2>5, <3>2 DEF ToSet
  <2>8. top_k < Cardinality(related) => Len(found) = Largest({0, top_k})
    <3>1. SUFFICES ASSUME top_k < n PROVE m = Largest({0, top_k})
      BY <1>1, <1>5, <2>1, <2>2, <2>5
    <3>2. \A l \in {0, top_k} : l <= m
      BY <2>1
    <3>3. m \in {0, top_k}
      BY <2>1
    <3>4. \A l \in {0, top_k} : (\A o \in {0, top_k} : o <= l) => l = m
      BY <3>2, <3>3
    <3>5. QED
      BY <3>2, <3>3, <3>4 DEF Largest
  <2>9. FindsTheRelated(query, view, top_k)
    BY <1>10, <2>3, <2>6, <2>7, <2>8 DEF FindsTheRelated
  <2>10. QED
    BY <2>3, <2>5, <2>9
<1>14. TopK \subseteq Int
  BY RetrievalAssumption
<1>15. QED
  BY <1>8, <1>11, <1>12, <1>13, <1>14 DEF IsRelevantAndDiverse

(***************************************************************************)
(* For all views, queries and numbers of results: a search finds what is   *)
(* related and only that, best first, and repetitions yield.               *)
(***************************************************************************)
THEOREM SearchRelevantAndDiverse == Spec => []SearchIsRelevantAndDiverse
<1>1. SearchIsRelevantAndDiverse
  BY SearchIsSound, RetrievalAssumption DEF SearchIsRelevantAndDiverse
<1>2. QED
  BY <1>1, PTL
==============================================================================
