------------------------------ MODULE FoldLemmas ------------------------------
(***************************************************************************)
(* Facts about loops that the modules write as folds over a sequence: the  *)
(* fold of the community modules is a recursive function on the subsets of *)
(* the domain, which takes the largest position last.  That such a function*)
(* exists, and what its value at the first k positions is, is what a proof *)
(* about a loop needs; the invariant of the loop then holds by EveryTurn.  *)
(***************************************************************************)
EXTENDS Integers, FiniteSetsExt, WellFoundedInduction, NaturalsInduction, TLAPS

(* What holds before a loop and is kept by each of its n turns holds after *)
(* every turn.                                                             *)
LEMMA EveryTurn ==
    ASSUME NEW n \in Nat, NEW S, 0 \in S,
           \A k \in 1 .. n : k - 1 \in S => k \in S
    PROVE  \A k \in 0 .. n : k \in S
<1> DEFINE failing == (0 .. n) \ S
<1>1. SUFFICES ASSUME failing # {} PROVE FALSE
  OBVIOUS
<1>2. failing \subseteq Nat
  OBVIOUS
<1>3. PICK least \in failing : \A k \in failing : ~(<<k, least>> \in OpToRel(<, Nat))
  <2> HIDE DEF failing
  <2>1. QED
    BY <1>1, <1>2, NatLessThanWellFounded, WFMin, Zenon
<1>4. least \in 1 .. n /\ least \notin S
  OBVIOUS
<1>5. least - 1 \in failing
  BY <1>4
<1>6. <<least - 1, least>> \in OpToRel(<, Nat)
  <2>1. least - 1 \in Nat /\ least \in Nat /\ least - 1 < least
    BY <1>4
  <2>2. QED
    BY <2>1, Zenon DEF OpToRel
<1>7. QED
  BY <1>3, <1>5, <1>6

(* The position a fold takes last.                                         *)
LEMMA LargestOfSome ==
    ASSUME NEW k \in Nat \ {0}, NEW s \in SUBSET (1 .. k), k \in s
    PROVE  /\ Max(s) = k
           /\ s \ {k} \in SUBSET (1 .. (k - 1))
<1>1. \A i \in s : i \in Int /\ k >= i
  OBVIOUS
<1>2. \A x \in s : (\A y \in s : x >= y) => x = k
  BY <1>1
<1>3. Max(s) \in s /\ \A y \in s : Max(s) >= y
  BY <1>1 DEF Max
<1>4. Max(s) = k
  BY <1>2, <1>3
<1>5. s \ {k} \in SUBSET (1 .. (k - 1))
  OBVIOUS
<1>6. QED
  BY <1>4, <1>5

LEMMA LargestOfFirst ==
    ASSUME NEW k \in Nat \ {0}
    PROVE  /\ Max(1 .. k) = k
           /\ (1 .. k) \ {k} = 1 .. (k - 1)
<1>1. 1 .. k \in SUBSET (1 .. k) /\ k \in 1 .. k
  OBVIOUS
<1>2. Max(1 .. k) = k
  BY <1>1, LargestOfSome
<1>3. (1 .. k) \ {k} = 1 .. (k - 1)
  OBVIOUS
<1>4. QED
  BY <1>2, <1>3

LEMMA LargestIsOne ==
    ASSUME NEW n \in Nat, NEW s \in SUBSET (1 .. n), s # {}
    PROVE  Max(s) \in s
<1> DEFINE Attained(k) == \A t \in SUBSET (1 .. k) : t # {} => Max(t) \in t
           S == {k \in 0 .. n : Attained(k)}
<1>1. Attained(0)
  <2>1. 1 .. 0 = {}
    OBVIOUS
  <2>2. QED
    BY <2>1
<1>2. ASSUME NEW k \in 1 .. n, Attained(k - 1) PROVE Attained(k)
  <2> SUFFICES ASSUME NEW t \in SUBSET (1 .. k), t # {} PROVE Max(t) \in t
    OBVIOUS
  <2>1. CASE k \in t
    BY <2>1, LargestOfSome
  <2>2. CASE k \notin t
    <3>1. t \in SUBSET (1 .. (k - 1))
      BY <2>2
    <3>2. QED
      BY <1>2, <3>1
  <2>3. QED
    BY <2>1, <2>2
<1> HIDE DEF Attained
<1>3. 0 \in S /\ \A k \in 1 .. n : k - 1 \in S => k \in S
  BY <1>1, <1>2
<1>4. n \in S
  <2> HIDE DEF S
  <2>1. QED
    BY <1>3, EveryTurn
<1>5. QED
  BY <1>4 DEF Attained

(* The recursive function of a fold over n positions: the loop starts with *)
(* base, and its body goes from a position and a state to a state.         *)
IsFold(g, n, X, base, body) ==
    /\ g \in [SUBSET (1 .. n) -> X]
    /\ \A s \in SUBSET (1 .. n) :
          g[s] = IF s = {} THEN base ELSE body[<<Max(s), g[s \ {Max(s)}]>>]

(* The recursive function of a fold exists, when the body of the loop keeps*)
(* the states in their set.                                                *)
LEMMA FoldExists ==
    ASSUME NEW n \in Nat, NEW X, NEW base \in X, NEW body \in [(1 .. n) \X X -> X]
    PROVE  \E g : IsFold(g, n, X, base, body)
<1> DEFINE Folds(m, g) ==
              \A s \in SUBSET (1 .. m) :
                  g[s] = IF s = {} THEN base ELSE body[<<Max(s), g[s \ {Max(s)}]>>]
           Exists(m) == \E g \in [SUBSET (1 .. m) -> X] : Folds(m, g)
           S == {m \in 0 .. n : Exists(m)}
<1>1. 0 \in S
  <2>1. [s \in SUBSET (1 .. 0) |-> base] \in [SUBSET (1 .. 0) -> X]
    OBVIOUS
  <2>2. \A s \in SUBSET (1 .. 0) : s = {}
    OBVIOUS
  <2>3. Folds(0, [s \in SUBSET (1 .. 0) |-> base])
    BY <2>2
  <2> HIDE DEF Folds
  <2>4. Exists(0)
    BY <2>1, <2>3
  <2> HIDE DEF Exists
  <2>5. QED
    BY <2>4
<1>2. ASSUME NEW k \in 1 .. n, k - 1 \in S PROVE k \in S
  <2> DEFINE small == SUBSET (1 .. (k - 1))
  <2>1. PICK g \in [small -> X] : Folds(k - 1, g)
    <3>1. Exists(k - 1)
      <4> HIDE DEF Exists
      <4>1. QED
        BY <1>2
    <3>2. QED
      BY <3>1
  <2> DEFINE h == [s \in SUBSET (1 .. k) |->
                      IF k \in s THEN body[<<k, g[s \ {k}]>>] ELSE g[s]]
  <2>2. \A s \in SUBSET (1 .. k) : k \in s => Max(s) = k /\ s \ {k} \in small
    BY LargestOfSome
  <2>3. \A s \in SUBSET (1 .. k) : k \notin s => s \in small
    OBVIOUS
  <2>4. ASSUME NEW s \in small
        PROVE  s \in SUBSET (1 .. k) /\ k \notin s /\ s \ {Max(s)} \in small
    <3>1. s \subseteq 1 .. (k - 1) /\ k \in Nat
      OBVIOUS
    <3>2. s \subseteq 1 .. k
      BY <3>1
    <3>3. k \notin s
      BY <3>1
    <3>4. QED
      BY <3>1, <3>2, <3>3
  <2>5. \A s \in small : g[s] \in X
    OBVIOUS
  <2>6. ASSUME NEW s \in SUBSET (1 .. k), k \in s
        PROVE  body[<<k, g[s \ {k}]>>] \in X
    <3>1. g[s \ {k}] \in X
      BY <2>2, <2>5, <2>6
    <3>2. <<k, g[s \ {k}]>> \in (1 .. n) \X X
      BY <3>1
    <3>3. QED
      BY <3>2
  <2> HIDE DEF small
  <2>7. h \in [SUBSET (1 .. k) -> X]
    BY <2>3, <2>5, <2>6
  <2>8. \A s \in small : h[s] = g[s]
    BY <2>4
  <2>9. ASSUME NEW s \in SUBSET (1 .. k)
        PROVE  h[s] = IF s = {} THEN base ELSE body[<<Max(s), h[s \ {Max(s)}]>>]
    <3>1. CASE k \in s
      <4>1. h[s] = body[<<k, g[s \ {k}]>>]
        BY <3>1
      <4>2. Max(s) = k /\ h[s \ {k}] = g[s \ {k}]
        BY <2>2, <2>8, <3>1
      <4> HIDE DEF h
      <4>3. QED
        BY <3>1, <4>1, <4>2
    <3>2. CASE k \notin s
      <4>1. s \in small
        BY <2>3, <3>2
      <4>2. h[s] = g[s] /\ h[s \ {Max(s)}] = g[s \ {Max(s)}]
        BY <2>4, <2>8, <4>1
      <4>3. g[s] = IF s = {} THEN base ELSE body[<<Max(s), g[s \ {Max(s)}]>>]
        BY <2>1, <4>1 DEF small
      <4> HIDE DEF h
      <4>4. QED
        BY <4>2, <4>3
    <3>3. QED
      BY <3>1, <3>2
  <2> HIDE DEF h
  <2>10. Folds(k, h)
    BY <2>9
  <2> HIDE DEF Folds
  <2>11. Exists(k)
    BY <2>7, <2>10
  <2> HIDE DEF Exists
  <2>12. QED
    BY <2>11
<1>3. n \in S
  <2> HIDE DEF S
  <2>1. QED
    BY <1>1, <1>2, EveryTurn
<1>4. Exists(n)
  <2> HIDE DEF Exists
  <2>1. QED
    BY <1>3
<1>5. PICK g \in [SUBSET (1 .. n) -> X] : Folds(n, g)
  BY <1>4
<1>6. IsFold(g, n, X, base, body)
  BY <1>5 DEF IsFold
<1>7. QED
  BY <1>6

(* The same for a loop that is written as a recursive function of the      *)
(* number of turns.                                                        *)
IsLoop(g, n, X, base, body) ==
    /\ g \in [0 .. n -> X]
    /\ g[0] = base
    /\ \A k \in 1 .. n : g[k] = body[<<k, g[k - 1]>>]

LEMMA LoopExists ==
    ASSUME NEW n \in Nat, NEW X, NEW base \in X, NEW body \in [(1 .. n) \X X -> X]
    PROVE  \E g : IsLoop(g, n, X, base, body)
<1>1. PICK fold : IsFold(fold, n, X, base, body)
  BY FoldExists
<1> DEFINE g == [k \in 0 .. n |-> fold[1 .. k]]
<1>2. \A k \in 0 .. n : 1 .. k \in SUBSET (1 .. n)
  OBVIOUS
<1>3. g \in [0 .. n -> X]
  BY <1>1, <1>2 DEF IsFold
<1>4. g[0] = base
  <2>1. 1 .. 0 = {}
    OBVIOUS
  <2>2. fold[{}] = base
    BY <1>1 DEF IsFold
  <2>3. QED
    BY <2>1, <2>2
<1>5. ASSUME NEW k \in 1 .. n PROVE g[k] = body[<<k, g[k - 1]>>]
  <2>1. /\ Max(1 .. k) = k /\ (1 .. k) \ {k} = 1 .. (k - 1)
        /\ 1 .. k # {} /\ 1 .. k \in SUBSET (1 .. n)
    BY LargestOfFirst
  <2>2. fold[1 .. k] = body[<<Max(1 .. k), fold[(1 .. k) \ {Max(1 .. k)}]>>]
    BY <1>1, <2>1, Zenon DEF IsFold
  <2>3. fold[1 .. k] = body[<<k, fold[1 .. (k - 1)]>>]
    BY <2>1, <2>2, Zenon
  <2>4. k \in 0 .. n /\ k - 1 \in 0 .. n
    OBVIOUS
  <2>5. QED
    BY <2>3, <2>4
<1> HIDE DEF g
<1>6. IsLoop(g, n, X, base, body)
  BY <1>3, <1>4, <1>5 DEF IsLoop
<1>7. QED
  BY <1>6
==============================================================================
