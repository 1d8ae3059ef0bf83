---------------------------- MODULE FoldTheorems ----------------------------
(***************************************************************************)
(* The folds of the community modules, for a prover.                       *)
(*                                                                         *)
(* A fold is a function on the subsets of what is folded, defined by       *)
(* recursion: it takes one element, folds the others, and combines the     *)
(* two.  Here such functions are shown to exist, and those of a sum and of *)
(* a fold over a sequence to compute what one expects.  Induction is on    *)
(* the size of a subset, by the least counterexample.                      *)
(***************************************************************************)
EXTENDS Integers, Sequences, FiniteSets, FiniteSetsExt, FiniteSetTheorems,
        WellFoundedInduction, TLAPS

\* A nonempty set of numbers has a least.
LEMMA LeastNat ==
  ASSUME NEW S \in SUBSET Nat, S # {}
  PROVE  \E k \in S : \A j \in S : k <= j
<1>1. PICK k \in S : \A j \in S : ~ (<<j, k>> \in OpToRel(<, Nat))
  BY WFMin, NatLessThanWellFounded
<1>2. \A j \in S : ~ (j < k)
  BY <1>1 DEF OpToRel
<1> QED
  BY <1>2

\* How a fold takes its elements: pick[s] is the one of s it takes.
Picks(S) == {pick \in [(SUBSET S) \ {{}} -> S] : \A s \in (SUBSET S) \ {{}} : pick[s] \in s}

\* Induction on the subsets of S: a set G of them that has {}, and has s where
\* it has s without the picked element, has them all.
LEMMA SubsetInduction ==
  ASSUME NEW S, IsFiniteSet(S), NEW pick \in Picks(S), NEW G, {} \in G,
         \A s \in SUBSET S : s # {} /\ s \ {pick[s]} \in G => s \in G
  PROVE  SUBSET S \subseteq G
<1> SUFFICES ASSUME ~ (SUBSET S \subseteq G) PROVE FALSE
  OBVIOUS
<1> DEFINE B == {n \in Nat : \E s \in SUBSET S : s \notin G /\ Cardinality(s) = n}
<1>1. \A s \in SUBSET S : IsFiniteSet(s) /\ Cardinality(s) \in Nat
  BY FS_Subset, FS_CardinalityType
<1>2. B \in SUBSET Nat /\ B # {}
  BY <1>1
<1>3. PICK n \in B : \A m \in B : n <= m
  <2> HIDE DEF B
  <2> QED
    BY <1>2, LeastNat
<1>4. PICK s \in SUBSET S : s \notin G /\ Cardinality(s) = n
  BY <1>3
<1>5. s # {} /\ pick[s] \in s
  BY <1>4 DEF Picks
<1>6. Cardinality(s \ {pick[s]}) = n - 1
  BY <1>1, <1>4, <1>5, FS_RemoveElement
<1>7. s \ {pick[s]} \in G
  <2> SUFFICES ASSUME s \ {pick[s]} \notin G PROVE FALSE
    OBVIOUS
  <2>1. Cardinality(s \ {pick[s]}) \in B
    BY <1>1, <1>6
  <2> QED
    BY <1>3, <1>6, <2>1
<1> QED
  BY <1>4, <1>5, <1>7

\* h folds the subsets of S, from base, with step: IsFold is the recursion.
IsFold(S, pick, base, step, h) ==
  h = [s \in SUBSET S |-> IF s = {} THEN base ELSE step[<<pick[s], h[s \ {pick[s]}]>>]]

\* There is such a function: one for the subsets of n elements at most makes
\* one for those of n + 1.
LEMMA FoldExists ==
  ASSUME NEW S, IsFiniteSet(S), NEW pick \in Picks(S),
         NEW V, NEW base \in V, NEW step \in [S \X V -> V]
  PROVE  \E h \in [SUBSET S -> V] : IsFold(S, pick, base, step, h)
<1> DEFINE Upto(n) == {s \in SUBSET S : Cardinality(s) <= n}
           Rest(s, h) == IF s = {} THEN base ELSE step[<<pick[s], h[s \ {pick[s]}]>>]
           Solves(h, n) == h \in [Upto(n) -> V] /\ \A s \in Upto(n) : h[s] = Rest(s, h)
           B == {n \in Nat : ~ \E h : Solves(h, n)}
<1>1. \A s \in SUBSET S : IsFiniteSet(s) /\ Cardinality(s) \in Nat
  BY FS_Subset, FS_CardinalityType
<1>2. \A s \in SUBSET S : Cardinality(s) = 0 => s = {}
  BY <1>1, FS_EmptySet
<1>3. \A s \in SUBSET S : s # {} => /\ pick[s] \in s /\ pick[s] \in S
                                    /\ s \ {pick[s]} \in SUBSET S
                                    /\ Cardinality(s \ {pick[s]}) = Cardinality(s) - 1
  BY <1>1, FS_RemoveElement DEF Picks
<1>4. \E h : Solves(h, 0)
  <2>1. \A s \in Upto(0) : s = {}
    BY <1>1, <1>2
  <2>2. Solves([s \in Upto(0) |-> base], 0)
    BY <2>1
  <2> QED
    BY <2>2
<1>5. ASSUME NEW n \in Nat, NEW h, Solves(h, n)
      PROVE  \E k : Solves(k, n + 1)
  <2> DEFINE k == [s \in Upto(n + 1) |-> Rest(s, h)]
  <2>1. \A s \in Upto(n + 1) : s # {} => s \ {pick[s]} \in Upto(n)
    BY <1>1, <1>3
  <2>2. \A s \in Upto(n) : h[s] \in V /\ h[s] = Rest(s, h) /\ s \in Upto(n + 1)
    BY <1>1, <1>5
  <2>3. \A s \in Upto(n + 1) : k[s] = Rest(s, h)
    OBVIOUS
  <2>4. \A s \in Upto(n) : k[s] = h[s]
    BY <2>2, <2>3
  <2>5. \A s \in Upto(n + 1) : Rest(s, h) \in V
    <3> SUFFICES ASSUME NEW s \in Upto(n + 1), s # {}
                 PROVE  step[<<pick[s], h[s \ {pick[s]}]>>] \in V
      OBVIOUS
    <3>1. pick[s] \in S
      BY <1>3
    <3>2. h[s \ {pick[s]}] \in V
      BY <2>1, <2>2
    <3> QED
      BY <3>1, <3>2
  <2>6. k \in [Upto(n + 1) -> V]
    BY <2>5
  <2>7. \A s \in Upto(n + 1) : k[s] = Rest(s, k)
    BY <2>1, <2>3, <2>4
  <2> QED
    BY <2>6, <2>7
<1>6. B = {}
  <2> SUFFICES ASSUME B # {} PROVE FALSE
    OBVIOUS
  <2>1. B \in SUBSET Nat
    OBVIOUS
  <2> HIDE DEF B, Solves
  <2>2. PICK n \in B : \A m \in B : n <= m
    BY <2>1, LeastNat
  <2>3. n \in Nat /\ ~ \E h : Solves(h, n)
    BY <2>2 DEF B
  <2>4. n # 0
    BY <1>4, <2>3
  <2>5. n - 1 \in Nat /\ n - 1 \notin B
    BY <2>2, <2>3, <2>4
  <2>6. PICK h : Solves(h, n - 1)
    BY <2>5 DEF B
  <2> QED
    BY <1>5, <2>3, <2>5, <2>6
<1>7. Cardinality(S) \in Nat /\ Upto(Cardinality(S)) = SUBSET S
  <2>1. \A s \in SUBSET S : Cardinality(s) <= Cardinality(S)
    BY FS_Subset
  <2> QED
    BY <1>1, <2>1
<1>8. PICK h : Solves(h, Cardinality(S))
  BY <1>6, <1>7
<1>9. h \in [SUBSET S -> V] /\ \A s \in SUBSET S : h[s] = Rest(s, h)
  BY <1>7, <1>8
<1> QED
  BY <1>9 DEF IsFold

----------------------------------------------------------------------------
(* The sum: MapThenSumSet takes the element that CHOOSE gives it.           *)

First(s) == CHOOSE x \in s : TRUE
IsSum(f, S, h) ==
  h = [s \in SUBSET S |-> IF s = {} THEN 0 ELSE f[First(s)] + h[s \ {First(s)}]]

LEMMA FirstPicks ==
  ASSUME NEW S
  PROVE  /\ [s \in (SUBSET S) \ {{}} |-> First(s)] \in Picks(S)
         /\ \A s \in SUBSET S : s # {} => First(s) \in s
BY DEF First, Picks

LEMMA SumExists ==
  ASSUME NEW S, IsFiniteSet(S), NEW f \in [S -> Nat]
  PROVE  \E h \in [SUBSET S -> Nat] : IsSum(f, S, h)
<1> DEFINE pick == [s \in (SUBSET S) \ {{}} |-> First(s)]
           step == [xn \in S \X Nat |-> f[xn[1]] + xn[2]]
<1>1. pick \in Picks(S)
  BY FirstPicks
<1>6. step \in [S \X Nat -> Nat]
  OBVIOUS
<1>2. \A s \in SUBSET S : s # {} => pick[s] = First(s) /\ First(s) \in S /\ s \ {First(s)} \in SUBSET S
  BY FirstPicks
<1>3. \A x \in S, n \in Nat : step[<<x, n>>] = f[x] + n
  OBVIOUS
<1> HIDE DEF pick, step
<1>4. PICK h \in [SUBSET S -> Nat] : IsFold(S, pick, 0, step, h)
  BY <1>1, <1>6, FoldExists
<1>5. \A s \in SUBSET S : s # {} => step[<<pick[s], h[s \ {pick[s]}]>>] = f[First(s)] + h[s \ {First(s)}]
  BY <1>2, <1>3
<1> QED
  BY <1>4, <1>5 DEF IsFold, IsSum

LEMMA SumEquation ==
  ASSUME NEW S, NEW f, NEW h, IsSum(f, S, h)
  PROVE  /\ h[{}] = 0
         /\ \A s \in SUBSET S : s # {} => h[s] = f[First(s)] + h[s \ {First(s)}]
BY DEF IsSum

\* Adding d to one number of a family adds d to its sum.
LEMMA SumStep ==
  ASSUME NEW S, IsFiniteSet(S), NEW f \in [S -> Nat], NEW g \in [S -> Nat], NEW d \in Nat, NEW x \in S,
         g[x] = f[x] + d, \A y \in S : y # x => g[y] = f[y],
         NEW h, IsSum(f, S, h), NEW k, IsSum(g, S, k)
  PROVE  h[S] \in Nat /\ k[S] = h[S] + d
<1> DEFINE G == {s \in SUBSET S : h[s] \in Nat /\ k[s] = h[s] + IF x \in s THEN d ELSE 0}
           pick == [s \in (SUBSET S) \ {{}} |-> First(s)]
<1>1. {} \in G
  BY SumEquation
<1>2. ASSUME NEW s \in SUBSET S, s # {}, s \ {First(s)} \in G
      PROVE  s \in G
  <2>1. First(s) \in s /\ First(s) \in S
    BY <1>2, FirstPicks
  <2>2. h[s] = f[First(s)] + h[s \ {First(s)}] /\ k[s] = g[First(s)] + k[s \ {First(s)}]
    BY <1>2 DEF IsSum
  <2>3. f[First(s)] \in Nat /\ h[s \ {First(s)}] \in Nat
    BY <1>2, <2>1
  <2>4. CASE First(s) = x
    BY <1>2, <2>1, <2>2, <2>3, <2>4
  <2>5. CASE First(s) # x
    BY <1>2, <2>1, <2>2, <2>3, <2>5
  <2> QED
    BY <2>4, <2>5
<1>3. pick \in Picks(S) /\ \A s \in SUBSET S : s # {} => pick[s] = First(s)
  BY FirstPicks
<1>4. SUBSET S \subseteq G
  <2> HIDE DEF G, pick
  <2> QED
    BY <1>1, <1>2, <1>3, SubsetInduction
<1> QED
  BY <1>4

\* A family of zeros has the sum zero.
LEMMA SumOfZeros ==
  ASSUME NEW S, IsFiniteSet(S), NEW f, \A x \in S : f[x] = 0, NEW h, IsSum(f, S, h)
  PROVE  h[S] = 0
<1> DEFINE G == {s \in SUBSET S : h[s] = 0}
           pick == [s \in (SUBSET S) \ {{}} |-> First(s)]
<1>1. {} \in G
  BY SumEquation
<1>2. ASSUME NEW s \in SUBSET S, s # {}, s \ {First(s)} \in G
      PROVE  s \in G
  <2>1. First(s) \in s /\ f[First(s)] = 0
    BY <1>2, FirstPicks
  <2>2. h[s] = f[First(s)] + h[s \ {First(s)}]
    BY <1>2 DEF IsSum
  <2> QED
    BY <1>2, <2>1, <2>2
<1>3. pick \in Picks(S) /\ \A s \in SUBSET S : s # {} => pick[s] = First(s)
  BY FirstPicks
<1>4. SUBSET S \subseteq G
  <2> HIDE DEF G, pick
  <2> QED
    BY <1>1, <1>2, <1>3, SubsetInduction
<1> QED
  BY <1>4

----------------------------------------------------------------------------
(* A fold over a sequence: FoldLeft takes the last element that is left.    *)

LEMMA LastPosition ==
  ASSUME NEW n \in Nat
  PROVE  /\ [s \in (SUBSET (1 .. n)) \ {{}} |-> Max(s)] \in Picks(1 .. n)
         /\ \A k \in 1 .. n : Max(1 .. k) = k /\ (1 .. k) \ {k} = 1 .. (k - 1)
<1>1. ASSUME NEW s \in SUBSET (1 .. n), s # {}
      PROVE  Max(s) \in s
  <2> DEFINE B == {n - x : x \in s}
  <2>0. \A x \in s : x \in Int /\ n - x \in Nat
    OBVIOUS
  <2>1. B \in SUBSET Nat /\ B # {}
    BY <1>1, <2>0
  <2>2. PICK b \in B : \A c \in B : b <= c
    <3> HIDE DEF B
    <3> QED
      BY <2>1, LeastNat
  <2>3. PICK x \in s : b = n - x
    BY <2>2
  <2>4. \A y \in s : x >= y
    <3> SUFFICES ASSUME NEW y \in s PROVE x >= y
      OBVIOUS
    <3>1. n - x <= n - y
      BY <2>2, <2>3
    <3> QED
      BY <2>0, <3>1
  <2> QED
    BY <2>4 DEF Max
<1>2. ASSUME NEW k \in 1 .. n
      PROVE  Max(1 .. k) = k /\ (1 .. k) \ {k} = 1 .. (k - 1)
  <2>1. k \in 1 .. k /\ \A y \in 1 .. k : k >= y
    OBVIOUS
  <2>2. \A x \in 1 .. k : (\A y \in 1 .. k : x >= y) => x = k
    OBVIOUS
  <2>3. Max(1 .. k) = k
    BY <2>1, <2>2 DEF Max
  <2> QED
    BY <2>3
<1>3. \A s \in (SUBSET (1 .. n)) \ {{}} : Max(s) \in s /\ Max(s) \in 1 .. n
  BY <1>1
<1> QED
  BY <1>2, <1>3 DEF Picks

\* f folds the sets of positions of a sequence of n, and so, for every k, its
\* first k elements.
IsSequenceFold(n, base, step, f) ==
  /\ f[{}] = base
  /\ \A s \in SUBSET (1 .. n) :
        s # {} => Max(s) \in 1 .. n /\ f[s] = step[<<Max(s), f[s \ {Max(s)}]>>]
  /\ \A k \in 1 .. n : f[1 .. k] = step[<<k, f[1 .. (k - 1)]>>]

LEMMA SequenceFold ==
  ASSUME NEW n \in Nat, NEW V, NEW base \in V, NEW step \in [(1 .. n) \X V -> V]
  PROVE  \E f \in [SUBSET (1 .. n) -> V] : IsSequenceFold(n, base, step, f)
<1> DEFINE pick == [s \in (SUBSET (1 .. n)) \ {{}} |-> Max(s)]
<1>1. pick \in Picks(1 .. n) /\ \A k \in 1 .. n : Max(1 .. k) = k /\ (1 .. k) \ {k} = 1 .. (k - 1)
  BY LastPosition
<1>2. \A s \in SUBSET (1 .. n) : s # {} => pick[s] = Max(s) /\ Max(s) \in 1 .. n
  BY <1>1 DEF Picks
<1>3. IsFiniteSet(1 .. n)
  BY FS_Interval
<1> HIDE DEF pick
<1>4. PICK f \in [SUBSET (1 .. n) -> V] : IsFold(1 .. n, pick, base, step, f)
  BY <1>1, <1>3, FoldExists
<1>5. \A s \in SUBSET (1 .. n) : s # {} => f[s] = step[<<Max(s), f[s \ {Max(s)}]>>]
  BY <1>2, <1>4 DEF IsFold
<1>6. f[{}] = base
  BY <1>4 DEF IsFold
<1>7. \A k \in 1 .. n : (1 .. k) \in SUBSET (1 .. n) /\ 1 .. k # {}
  OBVIOUS
<1>8. \A k \in 1 .. n : f[1 .. k] = step[<<k, f[1 .. (k - 1)]>>]
  BY <1>1, <1>5, <1>7
<1> QED
  BY <1>2, <1>5, <1>6, <1>8 DEF IsSequenceFold

\* Another function that agrees with f where it agrees on the rest is f.
LEMMA SameFold ==
  ASSUME NEW n \in Nat, NEW f, NEW g, g[{}] = f[{}],
         \A s \in SUBSET (1 .. n) :
           s # {} /\ g[s \ {Max(s)}] = f[s \ {Max(s)}] => g[s] = f[s]
  PROVE  g[1 .. n] = f[1 .. n]
<1> DEFINE S == 1 .. n
           G == {s \in SUBSET S : g[s] = f[s]}
           pick == [s \in (SUBSET S) \ {{}} |-> Max(s)]
<1>1. {} \in G /\ \A s \in SUBSET S : s # {} /\ s \ {Max(s)} \in G => s \in G
  OBVIOUS
<1>2. IsFiniteSet(S) /\ S \in SUBSET S
  BY FS_Interval
<1>3. pick \in Picks(S) /\ \A s \in SUBSET S : s # {} => pick[s] = Max(s)
  BY LastPosition
<1> HIDE DEF S, G, pick
<1>4. \A s \in SUBSET S : s # {} /\ s \ {pick[s]} \in G => s \in G
  BY <1>1, <1>3
<1>5. SUBSET S \subseteq G
  BY <1>1, <1>2, <1>3, <1>4, SubsetInduction
<1> QED
  BY <1>2, <1>5 DEF G, S

\* What holds at first and after each step if before it holds after all of them.
LEMMA EveryStep ==
  ASSUME NEW n \in Nat, NEW G \in SUBSET (0 .. n), 0 \in G, \A k \in 1 .. n : k - 1 \in G => k \in G
  PROVE  \A k \in 0 .. n : k \in G
<1> DEFINE B == (0 .. n) \ G
<1>1. SUFFICES ASSUME B # {}
               PROVE  FALSE
  OBVIOUS
<1>2. B \in SUBSET Nat
  OBVIOUS
<1> HIDE DEF B
<1>3. PICK k \in B : \A j \in B : k <= j
  BY <1>1, <1>2, LeastNat
<1>4. k \in 1 .. n /\ k \notin G /\ k - 1 \in 0 .. n /\ ~ (k <= k - 1)
  BY <1>2 DEF B
<1>5. k - 1 \in G
  BY <1>3, <1>4 DEF B
<1> QED
  BY <1>4, <1>5

\* The values of a fold after each element, from base to result.
Chain(h, V, n, base, result) == h \in [0 .. n -> V] /\ h[0] = base /\ h[n] = result
Follows(h, V, n, base, step, result) ==
  Chain(h, V, n, base, result) /\ \A k \in 1 .. n : h[k] = step[<<k, h[k - 1]>>]

\* A function c that unfolds as f does has such values.  What is proved of a
\* fold cites this with the function that FoldLeft unfolds to: one lemma for
\* each fold, as none can have an operator for its parameter.
LEMMA FoldFollows ==
  ASSUME NEW n \in Nat, NEW V, NEW base, NEW step,
         NEW f \in [SUBSET (1 .. n) -> V], IsSequenceFold(n, base, step, f),
         NEW c, c[{}] = f[{}] /\ \A I \in SUBSET (1 .. n) :
                   I # {} /\ c[I \ {Max(I)}] = f[I \ {Max(I)}] => c[I] = f[I]
  PROVE  \E h : Follows(h, V, n, base, step, c[1 .. n])
<1> DEFINE h == [k \in 0 .. n |-> f[1 .. k]]
<1>1. c[1 .. n] = f[1 .. n]
  BY SameFold
<1>2. f[{}] = base /\ \A k \in 1 .. n : f[1 .. k] = step[<<k, f[1 .. (k - 1)]>>]
  BY DEF IsSequenceFold
<1>3. 1 .. 0 = {} /\ \A k \in 0 .. n : 1 .. k \in SUBSET (1 .. n)
  OBVIOUS
<1>4. h \in [0 .. n -> V]
  BY <1>3
<1>5. h[0] = base /\ h[n] = c[1 .. n]
  BY <1>1, <1>2, <1>3
<1>6. \A k \in 1 .. n : h[k] = f[1 .. k] /\ h[k - 1] = f[1 .. (k - 1)]
  OBVIOUS
<1> HIDE DEF h
<1> QED
  BY <1>2, <1>4, <1>5, <1>6 DEF Follows, Chain
=============================================================================
