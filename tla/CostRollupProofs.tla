---------------------------- MODULE CostRollupProofs ----------------------------
(***************************************************************************)
(* The roll-up of cost is right for every payload that validation accepts, *)
(* every set of events and edges and every order of the sorter.            *)
(*                                                                         *)
(* A result is added to one event at a time.  The invariant IInv says of   *)
(* the roll-up in progress, and of every projection, that the events which *)
(* have a cost have the one their equation asks for (Rolled): their        *)
(* sources had theirs before, so that no later step changes what they were *)
(* computed from.  What a step adds is right because of the lemma about    *)
(* the shares of one source (AllocateLemma), which rests on how the cents  *)
(* in excess are cut.  It also rests on the validation, which carries over *)
(* from all edges of an event to those that lead to one batch (UsedLemma). *)
(*                                                                         *)
(* Sums over finite sets are defined by recursion.  Their laws come first: *)
(* each is proved from a smallest set that breaks it, which exists because *)
(* the strict subsets of a finite set are well-founded.                    *)
(***************************************************************************)
EXTENDS CostRollup, FiniteSetTheorems, TLAPS

-----------------------------------------------------------------------------
(* Sums over finite sets *)

\* Some set in a family of subsets of a finite set has none of the others in it.
LEMMA MinimalSubset ==
  ASSUME NEW S, IsFiniteSet(S), NEW T, T \subseteq SUBSET S, T # {}
  PROVE  \E U \in T : \A V \in T : ~(V \subseteq U /\ V # U)
<1>1. T \subseteq FiniteSubsetsOf(S)
  BY FS_Subset DEF FiniteSubsetsOf
<1>2. IsWellFoundedOn(StrictSubsetOrdering(S), FiniteSubsetsOf(S))
  BY FS_StrictSubsetOrderingWellFounded
<1>3. PICK U \in T : \A V \in T : ~(<<V, U>> \in StrictSubsetOrdering(S))
  BY <1>1, <1>2, WFMin, Zenon
<1> QED BY <1>1, <1>3 DEF StrictSubsetOrdering, FiniteSubsetsOf

\* The function that adds up the values of f over each subset of S.
pick(s) == CHOOSE x \in s : TRUE
Adds(g, f, S) ==
    g = [s \in SUBSET S |-> IF s = {} THEN 0 ELSE f[pick(s)] + g[s \ {pick(s)}]]

\* The element that the recursion takes out belongs to the set.
LEMMA PickLemma == \A s : s # {} => pick(s) \in s
BY DEF pick

\* Two such functions agree where both are defined.
LEMMA AddsAgree ==
  ASSUME NEW f, NEW g, NEW h, NEW S, NEW T, IsFiniteSet(T), T \subseteq S,
         Adds(g, f, S), Adds(h, f, T)
  PROVE  g[T] = h[T]
<1> DEFINE Bad == {U \in SUBSET T : g[U] # h[U]}
<1>1. SUFFICES ASSUME Bad # {} PROVE FALSE
  OBVIOUS
<1>2. PICK U \in Bad : \A V \in Bad : ~(V \subseteq U /\ V # U)
  <2>1. Bad \subseteq SUBSET T OBVIOUS
  <2> HIDE DEF Bad
  <2> QED BY <1>1, <2>1, MinimalSubset
<1>3. U \in SUBSET T /\ U \in SUBSET S /\ g[U] # h[U]
  BY <1>2
<1>4. /\ g[U] = IF U = {} THEN 0 ELSE f[pick(U)] + g[U \ {pick(U)}]
      /\ h[U] = IF U = {} THEN 0 ELSE f[pick(U)] + h[U \ {pick(U)}]
  <2>1. g[U] = [s \in SUBSET S |-> IF s = {} THEN 0 ELSE f[pick(s)] + g[s \ {pick(s)}]][U]
    BY Zenon DEF Adds
  <2>2. h[U] = [s \in SUBSET T |-> IF s = {} THEN 0 ELSE f[pick(s)] + h[s \ {pick(s)}]][U]
    BY Zenon DEF Adds
  <2> QED BY <1>3, <2>1, <2>2
<1>5. U # {}
  BY <1>3, <1>4
<1>6. U \ {pick(U)} \in SUBSET T /\ U \ {pick(U)} # U
  BY <1>3, <1>5, PickLemma
<1>7. g[U \ {pick(U)}] = h[U \ {pick(U)}]
  BY <1>2, <1>6
<1> QED BY <1>3, <1>4, <1>7

\* There is such a function for every finite set.
LEMMA AddsExists ==
  ASSUME NEW f, NEW S, IsFiniteSet(S)
  PROVE  \E g : Adds(g, f, S)
<1> DEFINE Bad == {U \in SUBSET S : ~\E g : Adds(g, f, U)}
           at(s) == (CHOOSE g : Adds(g, f, s))[s]
<1>1. SUFFICES ASSUME Bad # {} PROVE FALSE
  OBVIOUS
<1>2. PICK U \in Bad : \A V \in Bad : ~(V \subseteq U /\ V # U)
  <2>1. Bad \subseteq SUBSET S OBVIOUS
  <2> HIDE DEF Bad
  <2> QED BY <1>1, <2>1, MinimalSubset
<1> DEFINE G == [s \in SUBSET U |-> IF s = {} THEN 0 ELSE f[pick(s)] + at(s \ {pick(s)})]
<1>3. \A s \in SUBSET U : s # U => G[s] = at(s)
  <2> SUFFICES ASSUME NEW s \in SUBSET U, s # U PROVE G[s] = at(s)
    OBVIOUS
  <2>1. PICK h : h = CHOOSE g : Adds(g, f, s)
    OBVIOUS
  <2>2. Adds(h, f, s)
    <3>1. \E g : Adds(g, f, s)
      BY <1>2
    <3> QED BY <2>1, <3>1, Zenon
  <2>3. at(s) = h[s]
    BY <2>1
  <2>4. h[s] = IF s = {} THEN 0 ELSE f[pick(s)] + h[s \ {pick(s)}]
    <3>1. h[s] = [t \in SUBSET s |-> IF t = {} THEN 0 ELSE f[pick(t)] + h[t \ {pick(t)}]][s]
      BY <2>2, Zenon DEF Adds
    <3> QED BY <3>1
  <2>5. CASE s = {}
    BY <2>3, <2>4, <2>5
  <2>6. CASE s # {}
    <3> DEFINE t == s \ {pick(s)}
    <3>1. PICK k : k = CHOOSE g : Adds(g, f, t)
      OBVIOUS
    <3>2. pick(s) \in s
      BY <2>6, PickLemma
    <3>3. \E g : Adds(g, f, t)
      BY <1>2, <3>2
    <3>4. Adds(k, f, t)
      BY <3>1, <3>3, Zenon
    <3>5. IsFiniteSet(t)
      BY FS_Subset
    <3>6. h[t] = k[t]
      <4>1. t \subseteq s OBVIOUS
      <4> HIDE DEF t
      <4> QED BY <2>2, <3>4, <3>5, <4>1, AddsAgree
    <3>7. at(t) = k[t]
      BY <3>1
    <3>8. G[s] = f[pick(s)] + at(t)
      BY <2>6
    <3> QED BY <2>3, <2>4, <2>6, <3>6, <3>7, <3>8
  <2> QED BY <2>5, <2>6
<1>4. Adds(G, f, U)
  <2>1. \A s \in SUBSET U : s # {} => at(s \ {pick(s)}) = G[s \ {pick(s)}]
    BY <1>3, PickLemma
  <2>2. G = [s \in SUBSET U |-> IF s = {} THEN 0 ELSE f[pick(s)] + G[s \ {pick(s)}]]
    <3> HIDE DEF at
    <3> QED BY <2>1
  <2> QED BY <2>2, Zenon DEF Adds
<1> QED BY <1>2, <1>4

\* The recursive definition of the library gives its value.
LEMMA SumIsAdded ==
  ASSUME NEW f, NEW S, IsFiniteSet(S)
  PROVE  \E g : Adds(g, f, S) /\ SumFunctionOnSet(f, S) = g[S]
<1> DEFINE h == CHOOSE g : g = [s \in SUBSET S |->
                    IF s = {} THEN 0
                    ELSE f[CHOOSE x \in s : TRUE] + g[s \ {CHOOSE x \in s : TRUE}]]
<1>1. SumFunctionOnSet(f, S) = h[S]
  BY Zenon DEF SumFunctionOnSet, FoldFunctionOnSet, MapThenFoldSet
<1>2. Adds(h, f, S)
  <2>1. \E g : Adds(g, f, S)
    BY AddsExists
  <2> QED BY <2>1, Zenon DEF Adds, pick
<1> QED BY <1>1, <1>2

\* The equation of the recursion.
LEMMA SumEquation ==
  ASSUME NEW f, NEW S, IsFiniteSet(S)
  PROVE  SumFunctionOnSet(f, S) =
             IF S = {} THEN 0 ELSE f[pick(S)] + SumFunctionOnSet(f, S \ {pick(S)})
<1>1. PICK g : Adds(g, f, S) /\ SumFunctionOnSet(f, S) = g[S]
  BY SumIsAdded
<1>2. g[S] = IF S = {} THEN 0 ELSE f[pick(S)] + g[S \ {pick(S)}]
    <3>1. g[S] = [t \in SUBSET S |-> IF t = {} THEN 0 ELSE f[pick(t)] + g[t \ {pick(t)}]][S]
      BY <1>1, Zenon DEF Adds
    <3> QED BY <3>1
<1>3. IsFiniteSet(S \ {pick(S)})
  BY FS_Subset
<1>4. PICK h : /\ Adds(h, f, S \ {pick(S)})
               /\ SumFunctionOnSet(f, S \ {pick(S)}) = h[S \ {pick(S)}]
  BY <1>3, SumIsAdded
<1>5. g[S \ {pick(S)}] = h[S \ {pick(S)}]
  <2> DEFINE T == S \ {pick(S)}
  <2>1. T \subseteq S OBVIOUS
  <2>2. IsFiniteSet(T) /\ Adds(h, f, T) BY <1>3, <1>4
  <2> HIDE DEF T
  <2>3. g[T] = h[T] BY <1>1, <2>1, <2>2, AddsAgree
  <2> QED BY <2>3 DEF T
<1> QED BY <1>1, <1>2, <1>4, <1>5

\* The sum over no index, and over one.
LEMMA SumEmpty == ASSUME NEW f PROVE SumFunctionOnSet(f, {}) = 0
<1>1. PICK S : S = {}
  OBVIOUS
<1>2. IsFiniteSet(S)
  BY <1>1, FS_EmptySet
<1>3. SumFunctionOnSet(f, S) = 0
  BY <1>1, <1>2, SumEquation
<1> QED BY <1>1, <1>3

\* A sum of integers is one, and every summand can be taken out first.
LEMMA SumType ==
  ASSUME NEW f, NEW S, IsFiniteSet(S), \A x \in S : f[x] \in Int
  PROVE  SumFunctionOnSet(f, S) \in Int
<1> DEFINE Bad == {U \in SUBSET S : SumFunctionOnSet(f, U) \notin Int}
<1>1. SUFFICES ASSUME Bad # {} PROVE FALSE
  OBVIOUS
<1>2. PICK U \in Bad : \A V \in Bad : ~(V \subseteq U /\ V # U)
  <2>1. Bad \subseteq SUBSET S OBVIOUS
  <2> HIDE DEF Bad
  <2> QED BY <1>1, <2>1, MinimalSubset
<1>3. U \in SUBSET S /\ IsFiniteSet(U) /\ SumFunctionOnSet(f, U) \notin Int
  BY <1>2, FS_Subset
<1>4. U # {}
  BY <1>3, SumEmpty
<1>5. SumFunctionOnSet(f, U) = f[pick(U)] + SumFunctionOnSet(f, U \ {pick(U)})
  BY <1>3, <1>4, SumEquation
<1>6. pick(U) \in U
  BY <1>4, PickLemma
<1>7. SumFunctionOnSet(f, U \ {pick(U)}) \in Int
  BY <1>2, <1>3, <1>6
<1> QED BY <1>3, <1>5, <1>6, <1>7

\* Any summand can be taken out first, not only the one the recursion takes.
LEMMA SumSplit ==
  ASSUME NEW f, NEW S, IsFiniteSet(S), \A x \in S : f[x] \in Int
  PROVE  \A x \in S : SumFunctionOnSet(f, S) = f[x] + SumFunctionOnSet(f, S \ {x})
<1> DEFINE Splits(U, x) == SumFunctionOnSet(f, U) = f[x] + SumFunctionOnSet(f, U \ {x})
           Bad == {U \in SUBSET S : \E x \in U : ~Splits(U, x)}
<1>1. SUFFICES ASSUME Bad # {} PROVE FALSE
  OBVIOUS
<1>2. PICK U \in Bad : \A V \in Bad : ~(V \subseteq U /\ V # U)
  <2>1. Bad \subseteq SUBSET S OBVIOUS
  <2> HIDE DEF Bad
  <2> QED BY <1>1, <2>1, MinimalSubset
<1>3. \A V \in SUBSET U : V # U => \A x \in V : Splits(V, x)
  BY <1>2
<1>4. U \in SUBSET S /\ IsFiniteSet(U)
  BY FS_Subset
<1>5. PICK x \in U : ~Splits(U, x)
  BY <1>2
<1> HIDE DEF Bad
<1>6. PICK y : y = pick(U)
  OBVIOUS
<1>7. y \in U
  BY <1>5, <1>6, PickLemma
<1>8. SumFunctionOnSet(f, U) = f[y] + SumFunctionOnSet(f, U \ {y})
  BY <1>4, <1>5, <1>6, SumEquation
<1>9. x # y
  BY <1>5, <1>8
<1> DEFINE W == (U \ {y}) \ {x}
<1>10. W = (U \ {x}) \ {y} /\ IsFiniteSet(W) /\ W \subseteq S
  BY <1>4, FS_Subset
<1>11. SumFunctionOnSet(f, U \ {y}) = f[x] + SumFunctionOnSet(f, W)
  <2>1. U \ {y} \in SUBSET U /\ U \ {y} # U /\ x \in U \ {y}
    BY <1>5, <1>7, <1>9
  <2> QED BY <1>3, <2>1
<1>12. SumFunctionOnSet(f, U \ {x}) = f[y] + SumFunctionOnSet(f, W)
  <2>1. U \ {x} \in SUBSET U /\ U \ {x} # U /\ y \in U \ {x}
    BY <1>5, <1>7, <1>9
  <2> QED BY <1>3, <1>10, <2>1
<1>13. SumFunctionOnSet(f, W) \in Int
  <2> HIDE DEF W
  <2> QED BY <1>10, SumType
<1>14. f[x] \in Int /\ f[y] \in Int
  BY <1>4, <1>5, <1>7
<1> HIDE DEF W
<1> QED BY <1>5, <1>8, <1>11, <1>12, <1>13, <1>14

\* Two functions that agree on S have the same sum over S.
LEMMA SumSame ==
  ASSUME NEW f, NEW g, NEW S, IsFiniteSet(S), \A x \in S : f[x] = g[x]
  PROVE  SumFunctionOnSet(f, S) = SumFunctionOnSet(g, S)
<1> DEFINE Bad == {U \in SUBSET S : SumFunctionOnSet(f, U) # SumFunctionOnSet(g, U)}
<1>1. SUFFICES ASSUME Bad # {} PROVE FALSE
  OBVIOUS
<1>2. PICK U \in Bad : \A V \in Bad : ~(V \subseteq U /\ V # U)
  <2>1. Bad \subseteq SUBSET S OBVIOUS
  <2> HIDE DEF Bad
  <2> QED BY <1>1, <2>1, MinimalSubset
<1>3. U \in SUBSET S /\ IsFiniteSet(U)
  BY FS_Subset
<1>4. U # {}
  BY <1>2, SumEmpty
<1>5. PICK y : y = pick(U)
  OBVIOUS
<1>6. y \in U
  BY <1>4, <1>5, PickLemma
<1>7. /\ SumFunctionOnSet(f, U) = f[y] + SumFunctionOnSet(f, U \ {y})
      /\ SumFunctionOnSet(g, U) = g[y] + SumFunctionOnSet(g, U \ {y})
  BY <1>3, <1>4, <1>5, SumEquation
<1>8. SumFunctionOnSet(f, U \ {y}) = SumFunctionOnSet(g, U \ {y})
  BY <1>2, <1>3, <1>6
<1> QED BY <1>2, <1>3, <1>6, <1>7, <1>8

\* The sum over two sets without a common element.
LEMMA SumUnion ==
  ASSUME NEW f, NEW S, NEW T, IsFiniteSet(S), IsFiniteSet(T), S \cap T = {},
         \A x \in S \cup T : f[x] \in Int
  PROVE  SumFunctionOnSet(f, S \cup T) = SumFunctionOnSet(f, S) + SumFunctionOnSet(f, T)
<1> DEFINE Joins(U) == SumFunctionOnSet(f, U \cup T)
                           = SumFunctionOnSet(f, U) + SumFunctionOnSet(f, T)
           Bad == {U \in SUBSET S : ~Joins(U)}
<1>1. SUFFICES ASSUME Bad # {} PROVE FALSE
  OBVIOUS
<1>2. PICK U \in Bad : \A V \in Bad : ~(V \subseteq U /\ V # U)
  <2>1. Bad \subseteq SUBSET S OBVIOUS
  <2> HIDE DEF Bad
  <2> QED BY <1>1, <2>1, MinimalSubset
<1>3. U \in SUBSET S /\ IsFiniteSet(U) /\ IsFiniteSet(U \cup T) /\ ~Joins(U)
  <2>1. U \in SUBSET S /\ IsFiniteSet(U)
    BY FS_Subset
  <2> QED BY <1>2, <2>1, FS_Union
<1>4. SumFunctionOnSet(f, T) \in Int
  BY SumType
<1>5. U # {}
  <2>1. {} \cup T = T OBVIOUS
  <2>2. Joins({}) BY <1>4, <2>1, SumEmpty
  <2> QED BY <1>3, <2>2
<1>6. PICK y \in U : TRUE
  BY <1>5
<1>7. Joins(U \ {y})
  BY <1>2, <1>3
<1>8. (U \ {y}) \cup T = (U \cup T) \ {y} /\ IsFiniteSet(U \ {y})
  BY <1>3, FS_Subset
<1>9. /\ SumFunctionOnSet(f, U) = f[y] + SumFunctionOnSet(f, U \ {y})
      /\ SumFunctionOnSet(f, U \cup T) = f[y] + SumFunctionOnSet(f, (U \cup T) \ {y})
  BY <1>3, SumSplit
<1>10. SumFunctionOnSet(f, U \ {y}) \in Int /\ f[y] \in Int
  BY <1>3, <1>8, SumType
<1>11. SumFunctionOnSet(f, (U \cup T) \ {y})
           = SumFunctionOnSet(f, U \ {y}) + SumFunctionOnSet(f, T)
  BY <1>7, <1>8
<1>12. Joins(U)
  BY <1>4, <1>9, <1>10, <1>11
<1> QED BY <1>3, <1>12

\* Summand by summand at most as large, and so the sum.
LEMMA SumAtMost ==
  ASSUME NEW f, NEW g, NEW S, IsFiniteSet(S),
         \A x \in S : f[x] \in Int /\ g[x] \in Int /\ f[x] <= g[x]
  PROVE  SumFunctionOnSet(f, S) <= SumFunctionOnSet(g, S)
<1> DEFINE Bad == {U \in SUBSET S : ~(SumFunctionOnSet(f, U) <= SumFunctionOnSet(g, U))}
<1>1. SUFFICES ASSUME Bad # {} PROVE FALSE
  OBVIOUS
<1>2. PICK U \in Bad : \A V \in Bad : ~(V \subseteq U /\ V # U)
  <2>1. Bad \subseteq SUBSET S OBVIOUS
  <2> HIDE DEF Bad
  <2> QED BY <1>1, <2>1, MinimalSubset
<1>3. U \in SUBSET S /\ IsFiniteSet(U) /\ IsFiniteSet(U \ {pick(U)})
  BY FS_Subset
<1>4. U # {}
  <2>1. ASSUME U = {} PROVE SumFunctionOnSet(f, U) = 0 /\ SumFunctionOnSet(g, U) = 0
    BY <2>1, SumEmpty, Zenon
  <2>2. ~(SumFunctionOnSet(f, U) <= SumFunctionOnSet(g, U))
    BY <1>2
  <2> QED BY <2>1, <2>2
<1>5. PICK y \in U : TRUE
  BY <1>4
<1>6. SumFunctionOnSet(f, U \ {y}) <= SumFunctionOnSet(g, U \ {y}) /\ IsFiniteSet(U \ {y})
  BY <1>2, <1>3, FS_Subset
<1>7. /\ SumFunctionOnSet(f, U) = f[y] + SumFunctionOnSet(f, U \ {y})
      /\ SumFunctionOnSet(g, U) = g[y] + SumFunctionOnSet(g, U \ {y})
  BY <1>3, SumSplit
<1>8. /\ SumFunctionOnSet(f, U \ {y}) \in Int /\ SumFunctionOnSet(g, U \ {y}) \in Int
      /\ f[y] \in Int /\ g[y] \in Int /\ f[y] <= g[y]
  BY <1>3, <1>6, SumType
<1> QED BY <1>2, <1>3, <1>6, <1>7, <1>8

\* On S the function h is the combination a f + b g.
Combines(h, a, f, b, g, S) ==
    \A x \in S : f[x] \in Int /\ g[x] \in Int /\ h[x] = a * f[x] + b * g[x]

\* A linear combination of sums, summand by summand.
LEMMA SumLinear ==
  ASSUME NEW f, NEW g, NEW h, NEW S, IsFiniteSet(S), NEW a \in Int, NEW b \in Int,
         Combines(h, a, f, b, g, S)
  PROVE  SumFunctionOnSet(h, S) = a * SumFunctionOnSet(f, S) + b * SumFunctionOnSet(g, S)
<1>0. \A x \in S : f[x] \in Int /\ g[x] \in Int /\ h[x] = a * f[x] + b * g[x]
  BY DEF Combines
<1> DEFINE Lin(U) == SumFunctionOnSet(h, U)
                         = a * SumFunctionOnSet(f, U) + b * SumFunctionOnSet(g, U)
           Bad == {U \in SUBSET S : ~Lin(U)}
<1>1. SUFFICES ASSUME Bad # {} PROVE FALSE
  OBVIOUS
<1>2. PICK U \in Bad : \A V \in Bad : ~(V \subseteq U /\ V # U)
  <2>1. Bad \subseteq SUBSET S OBVIOUS
  <2> HIDE DEF Bad
  <2> QED BY <1>1, <2>1, MinimalSubset
<1>3. U \in SUBSET S /\ IsFiniteSet(U) /\ ~Lin(U)
  BY <1>2, FS_Subset
<1>4. U # {}
  <2>1. Lin({})
    BY SumEmpty
  <2> QED BY <1>3, <2>1
<1>5. PICK y \in U : TRUE
  BY <1>4
<1>6. Lin(U \ {y}) /\ IsFiniteSet(U \ {y})
  BY <1>2, <1>3, FS_Subset
<1>7. \A x \in S : f[x] \in Int /\ g[x] \in Int /\ h[x] \in Int
  BY <1>0
<1>8. /\ SumFunctionOnSet(f, U) = f[y] + SumFunctionOnSet(f, U \ {y})
      /\ SumFunctionOnSet(g, U) = g[y] + SumFunctionOnSet(g, U \ {y})
      /\ SumFunctionOnSet(h, U) = h[y] + SumFunctionOnSet(h, U \ {y})
  BY <1>3, <1>7, SumSplit
<1>9. /\ SumFunctionOnSet(f, U \ {y}) \in Int /\ SumFunctionOnSet(g, U \ {y}) \in Int
      /\ f[y] \in Int /\ g[y] \in Int /\ h[y] = a * f[y] + b * g[y]
  BY <1>0, <1>3, <1>6, <1>7, SumType
<1>10. \A m, n, k, l \in Int : a * (m + n) + b * (k + l) = (a * m + b * k) + (a * n + b * l)
  OBVIOUS
<1> QED BY <1>3, <1>6, <1>8, <1>9, <1>10

\* The same summand everywhere.
LEMMA SumConstant ==
  ASSUME NEW f, NEW S, IsFiniteSet(S), NEW k \in Int, \A x \in S : f[x] = k
  PROVE  SumFunctionOnSet(f, S) = k * Cardinality(S)
<1> DEFINE Same(U) == SumFunctionOnSet(f, U) = k * Cardinality(U)
           Bad == {U \in SUBSET S : ~Same(U)}
<1>1. SUFFICES ASSUME Bad # {} PROVE FALSE
  OBVIOUS
<1>2. PICK U \in Bad : \A V \in Bad : ~(V \subseteq U /\ V # U)
  <2>1. Bad \subseteq SUBSET S OBVIOUS
  <2> HIDE DEF Bad
  <2> QED BY <1>1, <2>1, MinimalSubset
<1>3. U \in SUBSET S /\ IsFiniteSet(U) /\ ~Same(U)
  BY <1>2, FS_Subset
<1>4. U # {}
  <2>1. Same({})
    BY SumEmpty, FS_EmptySet
  <2> QED BY <1>3, <2>1
<1>5. PICK y \in U : TRUE
  BY <1>4
<1>6. Same(U \ {y}) /\ IsFiniteSet(U \ {y})
  BY <1>2, <1>3, FS_Subset
<1>7. SumFunctionOnSet(f, U) = f[y] + SumFunctionOnSet(f, U \ {y})
  BY <1>3, SumSplit
<1>8. Cardinality(U \ {y}) = Cardinality(U) - 1 /\ Cardinality(U) \in Nat
  BY <1>3, FS_RemoveElement, FS_CardinalityType
<1>9. \A n \in Nat : k * n = k + k * (n - 1)
  OBVIOUS
<1>10. Cardinality(U) \in Nat /\ f[y] = k
  BY <1>3, <1>8
<1> QED BY <1>3, <1>6, <1>7, <1>8, <1>9, <1>10

-----------------------------------------------------------------------------
(* Sums by key, and sums of what is not negative *)

\* Each element of S is in the part of its key.
Grouped(part, key, S, K) ==
    /\ \A x \in S : key[x] \in K
    /\ \A k \in K : part[k] \subseteq S /\ \A x \in S : x \in part[k] <=> key[x] = k

\* Summed by key and then over the keys, or at once.
LEMMA SumGroups ==
  ASSUME NEW f, NEW S, IsFiniteSet(S), \A x \in S : f[x] \in Int,
         NEW K, IsFiniteSet(K), NEW key, NEW part, Grouped(part, key, S, K),
         NEW g, \A k \in K : g[k] = SumFunctionOnSet(f, part[k])
  PROVE  SumFunctionOnSet(g, K) = SumFunctionOnSet(f, S)
<1>0. /\ \A x \in S : key[x] \in K
      /\ \A k \in K : part[k] \subseteq S /\ \A x \in S : x \in part[k] <=> key[x] = k
  BY DEF Grouped
<1> DEFINE Of(L) == {x \in S : key[x] \in L}
           Same(L) == SumFunctionOnSet(g, L) = SumFunctionOnSet(f, Of(L))
           Bad == {L \in SUBSET K : ~Same(L)}
<1>1. SUFFICES ASSUME Bad # {} PROVE FALSE
  <2>1. Of(K) = S
    BY <1>0
  <2>2. Bad = {} => Same(K)
    OBVIOUS
  <2> QED BY <2>1, <2>2
<1>2. PICK L \in Bad : \A M \in Bad : ~(M \subseteq L /\ M # L)
  <2>1. Bad \subseteq SUBSET K OBVIOUS
  <2> HIDE DEF Bad
  <2> QED BY <1>1, <2>1, MinimalSubset
<1>3. L \in SUBSET K /\ IsFiniteSet(L) /\ ~Same(L)
  BY <1>2, FS_Subset
<1>4. L # {}
  <2>1. Of({}) = {} OBVIOUS
  <2>2. Same({})
    BY <2>1, SumEmpty
  <2> QED BY <1>3, <2>2
<1>5. PICK k \in L : TRUE
  BY <1>4
<1>6. Same(L \ {k})
  BY <1>2, <1>3
<1>7. /\ IsFiniteSet(Of(L \ {k})) /\ IsFiniteSet(part[k])
      /\ Of(L \ {k}) \cap part[k] = {} /\ Of(L \ {k}) \cup part[k] = Of(L)
      /\ Of(L \ {k}) \subseteq S /\ part[k] \subseteq S
  <2>1. part[k] \subseteq S /\ \A x \in S : x \in part[k] <=> key[x] = k
    BY <1>0, <1>3
  <2>2. Of(L \ {k}) \subseteq S OBVIOUS
  <2>3. Of(L \ {k}) \cap part[k] = {} /\ Of(L \ {k}) \cup part[k] = Of(L)
    BY <1>3, <2>1
  <2>4. IsFiniteSet(Of(L \ {k})) /\ IsFiniteSet(part[k])
    <3> HIDE DEF Of
    <3> QED BY <2>1, <2>2, FS_Subset
  <2> QED BY <2>1, <2>2, <2>3, <2>4
<1> HIDE DEF Of
<1>8. SumFunctionOnSet(f, Of(L))
          = SumFunctionOnSet(f, Of(L \ {k})) + SumFunctionOnSet(f, part[k])
  <2>1. \A x \in Of(L \ {k}) \cup part[k] : f[x] \in Int
    BY <1>7
  <2>2. SumFunctionOnSet(f, Of(L \ {k}) \cup part[k])
          = SumFunctionOnSet(f, Of(L \ {k})) + SumFunctionOnSet(f, part[k])
    BY <1>7, <2>1, SumUnion
  <2> QED BY <1>7, <2>2
<1>9. \A j \in L : g[j] \in Int
  <2> SUFFICES ASSUME NEW j \in L PROVE g[j] \in Int
    OBVIOUS
  <2>1. g[j] = SumFunctionOnSet(f, part[j]) /\ part[j] \subseteq S
    BY <1>0, <1>3
  <2>2. IsFiniteSet(part[j]) /\ \A x \in part[j] : f[x] \in Int
    BY <2>1, FS_Subset
  <2> QED BY <2>1, <2>2, SumType
<1>10. SumFunctionOnSet(g, L) = g[k] + SumFunctionOnSet(g, L \ {k})
  BY <1>3, <1>9, SumSplit
<1>11. g[k] = SumFunctionOnSet(f, part[k]) /\ g[k] \in Int
  BY <1>3, <1>9
<1>12. SumFunctionOnSet(f, Of(L \ {k})) \in Int
  <2>1. \A x \in Of(L \ {k}) : f[x] \in Int
    BY <1>7
  <2> QED BY <1>7, <2>1, SumType
<1>13. Same(L)
  BY <1>6, <1>8, <1>10, <1>11, <1>12
<1> QED BY <1>3, <1>13

\* No summand is negative, nor is the sum.
LEMMA SumNonNegative ==
  ASSUME NEW f, NEW S, IsFiniteSet(S), \A x \in S : f[x] \in Int /\ f[x] >= 0
  PROVE  SumFunctionOnSet(f, S) \in Int /\ SumFunctionOnSet(f, S) >= 0
<1> DEFINE zero == [x \in S |-> 0]
<1>1. \A x \in S : zero[x] = 0
  OBVIOUS
<1> HIDE DEF zero
<1>2. SumFunctionOnSet(zero, S) = 0 * Cardinality(S)
  BY <1>1, SumConstant
<1>3. SumFunctionOnSet(zero, S) <= SumFunctionOnSet(f, S)
  BY <1>1, SumAtMost
<1>4. Cardinality(S) \in Nat /\ SumFunctionOnSet(f, S) \in Int
  BY FS_CardinalityType, SumType
<1> QED BY <1>2, <1>3, <1>4

\* A part of a sum of which no summand is negative.
LEMMA SumPart ==
  ASSUME NEW f, NEW S, IsFiniteSet(S), \A x \in S : f[x] \in Int /\ f[x] >= 0,
         NEW T, T \subseteq S
  PROVE  SumFunctionOnSet(f, T) <= SumFunctionOnSet(f, S)
<1>1. IsFiniteSet(T) /\ IsFiniteSet(S \ T) /\ T \cap (S \ T) = {} /\ T \cup (S \ T) = S
  BY FS_Subset
<1>2. SumFunctionOnSet(f, T \cup (S \ T))
        = SumFunctionOnSet(f, T) + SumFunctionOnSet(f, S \ T)
  <2>1. \A x \in T \cup (S \ T) : f[x] \in Int
    OBVIOUS
  <2> QED BY <1>1, <2>1, SumUnion
<1>3. SumFunctionOnSet(f, S \ T) \in Int /\ SumFunctionOnSet(f, S \ T) >= 0
  <2>1. \A x \in S \ T : f[x] \in Int /\ f[x] >= 0
    OBVIOUS
  <2> QED BY <1>1, <2>1, SumNonNegative
<1>4. SumFunctionOnSet(f, T) \in Int
  <2>1. \A x \in T : f[x] \in Int
    OBVIOUS
  <2> QED BY <1>1, <2>1, SumType
<1>5. SumFunctionOnSet(f, S) = SumFunctionOnSet(f, T) + SumFunctionOnSet(f, S \ T)
  BY <1>1, <1>2
<1> QED BY <1>3, <1>4, <1>5

-----------------------------------------------------------------------------
(* The shares of one source *)

\* The quotient that \div leaves, bounded by its remainder.
LEMMA DivLemma ==
  ASSUME NEW n \in Int, NEW d \in Int, d > 0
  PROVE  /\ n \div d \in Int
         /\ d * (n \div d) <= n /\ n < d * (n \div d) + d
  OBVIOUS

\* A share is off its exact value by half a cent at most.
LEMMA ShareLemma ==
  ASSUME NEW t \in Int, t >= 0, NEW k \in Int, k > 0, NEW q \in Int, q > 0
  PROVE  /\ Share(t, k, q) \in Int /\ Share(t, k, q) >= 0
         /\ 2 * t * k - 2 * Share(t, k, q) * q <= q
         /\ -q <= 2 * t * k - 2 * Share(t, k, q) * q
<1> DEFINE n == 2 * t * k + q
           d == 2 * q
           s == n \div d
<1>1. t * k \in Int /\ t * k >= 0 /\ 2 * t * k = 2 * (t * k)
  OBVIOUS
<1>2. n \in Int /\ d \in Int /\ d > 0 /\ n >= 0
  BY <1>1
<1>3. s \in Int /\ d * s <= n /\ n < d * s + d
  <2> HIDE DEF n, d
  <2> QED BY <1>2, DivLemma
<1>4. Share(t, k, q) = s
  BY DEF Share
<1>5. d * s = 2 * s * q
  BY <1>3
<1>6. s >= 0
  <2>1. CASE s < 0
    <3>1. d * s <= -d
      <4> HIDE DEF d, s
      <4>1. s <= -1 BY <1>3, <2>1
      <4> QED BY <1>2, <1>3, <4>1
    <3> HIDE DEF d, s, n
    <3> QED BY <1>2, <1>3, <3>1
  <2> QED BY <1>3, <2>1
<1> QED BY <1>3, <1>4, <1>5, <1>6, <1>1

\* A sum whose summands are bounded.
LEMMA SumBounds ==
  ASSUME NEW f, NEW S, IsFiniteSet(S), NEW k \in Int,
         \A x \in S : f[x] \in Int /\ -k <= f[x] /\ f[x] <= k
  PROVE  /\ SumFunctionOnSet(f, S) \in Int /\ k * Cardinality(S) \in Int
         /\ -(k * Cardinality(S)) <= SumFunctionOnSet(f, S)
         /\ SumFunctionOnSet(f, S) <= k * Cardinality(S)
<1> DEFINE hi == [x \in S |-> k]
           lo == [x \in S |-> -k]
<1>1. SumFunctionOnSet(hi, S) = k * Cardinality(S)
  <2> PICK h : h = hi OBVIOUS
  <2> QED BY SumConstant
<1>2. SumFunctionOnSet(lo, S) = (-k) * Cardinality(S)
  <2>1. \A x \in S : lo[x] = -k OBVIOUS
  <2>2. -k \in Int OBVIOUS
  <2> HIDE DEF lo
  <2> QED BY <2>1, <2>2, SumConstant
<1>3. Cardinality(S) \in Nat
  BY FS_CardinalityType
<1>4. (-k) * Cardinality(S) = -(k * Cardinality(S)) /\ k * Cardinality(S) \in Int
  BY <1>3
<1>5. SumFunctionOnSet(f, S) <= SumFunctionOnSet(hi, S)
  <2>1. \A x \in S : hi[x] = k OBVIOUS
  <2> HIDE DEF hi
  <2> QED BY <2>1, SumAtMost
<1>6. SumFunctionOnSet(lo, S) <= SumFunctionOnSet(f, S)
  <2>1. \A x \in S : lo[x] \in Int /\ lo[x] <= f[x] OBVIOUS
  <2> HIDE DEF lo
  <2> QED BY <2>1, SumAtMost
<1>7. SumFunctionOnSet(f, S) \in Int
  BY SumType
<1> HIDE DEF hi, lo
<1> QED BY <1>1, <1>2, <1>4, <1>5, <1>6, <1>7

\* R is a strict and total order of D.
Sorts(R, D) ==
    /\ \A x \in D : <<x, x>> \notin R
    /\ \A x, y, z \in D : <<x, y>> \in R /\ <<y, z>> \in R => <<x, z>> \in R
    /\ \A x, y \in D : x = y \/ <<x, y>> \in R \/ <<y, x>> \in R

\* A finite set that an order sorts has a last element.
LEMMA LastLemma ==
  ASSUME NEW D, IsFiniteSet(D), D # {}, NEW R, Sorts(R, D)
  PROVE  \E x \in D : \A y \in D \ {x} : <<y, x>> \in R
<1>0. /\ \A x \in D : <<x, x>> \notin R
      /\ \A x, y, z \in D : <<x, y>> \in R /\ <<y, z>> \in R => <<x, z>> \in R
      /\ \A x, y \in D : x = y \/ <<x, y>> \in R \/ <<y, x>> \in R
  BY DEF Sorts
<1> DEFINE After(x) == {y \in D : <<x, y>> \in R}
           T == {After(x) : x \in D}
<1>1. PICK U \in T : \A V \in T : ~(V \subseteq U /\ V # U)
  <2>1. T \subseteq SUBSET D OBVIOUS
  <2>2. PICK x \in D : TRUE OBVIOUS
  <2>3. After(x) \in T OBVIOUS
  <2> HIDE DEF T
  <2> QED BY <2>1, <2>3, MinimalSubset
<1>2. PICK x \in D : U = After(x)
  OBVIOUS
<1>3. U = {}
  <2>1. SUFFICES ASSUME NEW y \in U PROVE FALSE
    OBVIOUS
  <2>2. y \in D /\ <<x, y>> \in R
    BY <1>2, <2>1
  <2>3. After(y) \subseteq U /\ y \notin After(y) /\ After(y) \in T
    BY <1>0, <1>2, <2>2
  <2> QED BY <1>1, <2>1, <2>3
<1>4. \A y \in D \ {x} : <<y, x>> \in R
  BY <1>0, <1>2, <1>3
<1> QED BY <1>4

\* The cents taken from the shares: those before an element have been cut already.
Cuts(cut, share, m, R, before, C) == \A x \in C :
    /\ share[x] \in Nat
    /\ before[x] \subseteq C
    /\ \A y \in C : y \in before[x] <=> <<y, x>> \in R
    /\ cut[x] = Smaller(share[x], Greater(0, m - SumFunctionOnSet(share, before[x])))

\* Cents in excess, taken from the shares one after the other, each to its last.
LEMMA CutsLemma ==
  ASSUME NEW C, IsFiniteSet(C), NEW share, NEW cut, NEW m \in Nat, NEW R, NEW before,
         Sorts(R, C), Cuts(cut, share, m, R, before, C)
  PROVE  /\ \A x \in C : cut[x] \in Nat /\ cut[x] <= share[x] /\ cut[x] <= m
         /\ SumFunctionOnSet(cut, C) = Smaller(m, SumFunctionOnSet(share, C))
<1>0. \A x \in C : /\ share[x] \in Nat /\ before[x] \subseteq C
                   /\ \A y \in C : y \in before[x] <=> <<y, x>> \in R
                   /\ cut[x] = Smaller(share[x],
                                  Greater(0, m - SumFunctionOnSet(share, before[x])))
  BY DEF Cuts
<1>a. \A x, y, z \in C : <<x, y>> \in R /\ <<y, z>> \in R => <<x, z>> \in R
  BY DEF Sorts
<1>b. \A x \in C : <<x, x>> \notin R
  BY DEF Sorts
<1> DEFINE Initial(D) == \A x \in D : before[x] \subseteq D
           Taken(D) == SumFunctionOnSet(cut, D) = Smaller(m, SumFunctionOnSet(share, D))
           Bad == {D \in SUBSET C : Initial(D) /\ ~Taken(D)}
<1>1. ASSUME NEW D \in SUBSET C
      PROVE  /\ IsFiniteSet(D) /\ SumFunctionOnSet(share, D) \in Int
             /\ SumFunctionOnSet(share, D) >= 0
  <2> DEFINE zero == [x \in D |-> 0]
  <2>1. IsFiniteSet(D)
    BY FS_Subset
  <2>2. SumFunctionOnSet(share, D) \in Int
    BY <1>0, <2>1, SumType
  <2>3. SumFunctionOnSet(zero, D) = 0 * Cardinality(D)
    <3>1. \A x \in D : zero[x] = 0 OBVIOUS
    <3> HIDE DEF zero
    <3> QED BY <2>1, <3>1, SumConstant
  <2>4. SumFunctionOnSet(zero, D) <= SumFunctionOnSet(share, D)
    <3>1. \A x \in D : zero[x] = 0 OBVIOUS
    <3> HIDE DEF zero
    <3> QED BY <1>0, <2>1, <3>1, SumAtMost
  <2>5. 0 * Cardinality(D) = 0
    BY <2>1, FS_CardinalityType
  <2> QED BY <2>1, <2>2, <2>3, <2>4, <2>5
<1>2. ASSUME NEW x \in C
      PROVE  cut[x] \in Nat /\ cut[x] <= share[x] /\ cut[x] <= m
  <2>1. PICK b : b = SumFunctionOnSet(share, before[x])
    OBVIOUS
  <2>2. b \in Int /\ b >= 0
    BY <1>0, <1>1, <2>1
  <2>3. cut[x] = Smaller(share[x], Greater(0, m - b)) /\ share[x] \in Nat
    BY <1>0, <2>1
  <2> QED BY <2>2, <2>3 DEF Smaller, Greater
<1>3. Bad = {}
  <2>1. SUFFICES ASSUME Bad # {} PROVE FALSE
    OBVIOUS
  <2>2. PICK D \in Bad : \A E \in Bad : ~(E \subseteq D /\ E # D)
    <3>1. Bad \subseteq SUBSET C OBVIOUS
    <3> HIDE DEF Bad
    <3> QED BY <2>1, <3>1, MinimalSubset
  <2>3. D \in SUBSET C /\ Initial(D) /\ ~Taken(D) /\ IsFiniteSet(D)
    BY <2>2, FS_Subset
  <2>4. D # {}
    <3>1. SumFunctionOnSet(cut, {}) = 0 /\ SumFunctionOnSet(share, {}) = 0
      BY SumEmpty
    <3>2. Taken({})
      BY <3>1 DEF Smaller
    <3> QED BY <2>3, <3>2
  <2>5. PICK x \in D : \A y \in D \ {x} : <<y, x>> \in R
    <3>1. Sorts(R, D)
      BY <2>3 DEF Sorts
    <3> QED BY <2>3, <2>4, <3>1, LastLemma
  <2>6. before[x] = D \ {x}
    BY <1>0, <1>b, <2>3, <2>5
  <2>7. Initial(before[x]) /\ before[x] \in SUBSET C
    BY <1>0, <1>a, <2>3, <2>5
  <2>8. Taken(D \ {x})
    <3>1. Taken(before[x])
      <4>1. before[x] \subseteq D /\ before[x] # D
        BY <2>6
      <4> QED BY <2>2, <2>7, <4>1
    <3> HIDE DEF Taken
    <3> QED BY <2>6, <3>1
  <2>9. PICK b : b = SumFunctionOnSet(share, D \ {x})
    OBVIOUS
  <2>10. b \in Int /\ b >= 0
    BY <1>1, <2>3, <2>9
  <2>11. cut[x] = Smaller(share[x], Greater(0, m - b)) /\ share[x] \in Nat
    <3>1. x \in C BY <2>3
    <3>2. cut[x] = Smaller(share[x], Greater(0, m - SumFunctionOnSet(share, before[x])))
      BY <1>0, <3>1
    <3> QED BY <1>0, <2>6, <2>9, <3>1, <3>2
  <2>12. SumFunctionOnSet(share, D) = share[x] + b
    BY <1>0, <2>3, <2>9, SumSplit
  <2>13. SumFunctionOnSet(cut, D) = cut[x] + SumFunctionOnSet(cut, D \ {x})
    <3>1. \A y \in D : cut[y] \in Int
      BY <1>2, <2>3
    <3> QED BY <2>3, <3>1, SumSplit
  <2>14. SumFunctionOnSet(cut, D \ {x}) = Smaller(m, b)
    BY <2>8, <2>9
  <2>15. cut[x] + Smaller(m, b) = Smaller(m, share[x] + b)
    BY <2>10, <2>11 DEF Smaller, Greater
  <2>16. Taken(D)
    BY <2>12, <2>13, <2>14, <2>15
  <2> QED BY <2>3, <2>16
<1>4. Taken(C)
  BY <1>0, <1>3
<1> QED BY <1>2, <1>4

\* What the shares a of the edges C must be.
Shares(a, total, q, c, C) ==
    /\ a \in [C -> Int] /\ \A i \in C : a[i] >= 0
    /\ SumFunction(c) = q => SumFunctionOnSet(a, C) = total
    /\ \A i \in C : 2 * total * c[i] - 2 * a[i] * q
                      \in (-q * Cardinality(C))..(q * Cardinality(C))

\* The shares of one source: none is negative, each is off its exact value by a cent
\* for every edge at most, and if the edges consume all there is, they add up.
LEMMA AllocateLemma ==
  ASSUME NEW total \in Nat, NEW q \in Int, q > 0,
         NEW C, C \subseteq Inputs, IsFiniteSet(C), C # {},
         NEW c \in [C -> Int], \A i \in C : c[i] > 0,
         NEW a, a = Allocate(total, q, c)
  PROVE  Shares(a, total, q, c, C)
<1> DEFINE share == [i \in C |-> Share(total, c[i], q)]
           err   == [i \in C |-> 2 * total * c[i] - 2 * share[i] * q]
           up    == [i \in C |-> share[i] * q - total * c[i]]
<1>1. DOMAIN c = C /\ SumFunction(c) = SumFunctionOnSet(c, C)
  BY DEF SumFunction
<1>2. ASSUME NEW i \in C
      PROVE  /\ c[i] \in Int /\ share[i] \in Nat /\ share[i] \in Int /\ err[i] \in Int
             /\ up[i] \in Int /\ -q <= err[i] /\ err[i] <= q
  <2>1. c[i] \in Int /\ c[i] > 0 /\ total \in Int /\ total >= 0
    OBVIOUS
  <2>2. /\ Share(total, c[i], q) \in Int /\ Share(total, c[i], q) >= 0
        /\ 2 * total * c[i] - 2 * Share(total, c[i], q) * q <= q
        /\ -q <= 2 * total * c[i] - 2 * Share(total, c[i], q) * q
    BY <2>1, ShareLemma
  <2>3. share[i] = Share(total, c[i], q)
    OBVIOUS
  <2>4. err[i] = 2 * total * c[i] - 2 * share[i] * q /\ up[i] = share[i] * q - total * c[i]
    OBVIOUS
  <2> HIDE DEF share, err, up
  <2> QED BY <2>1, <2>2, <2>3, <2>4
<1>3. PICK s : s = SumFunctionOnSet(share, C)
  OBVIOUS
<1>4. \A i \in C : err[i] = 2 * total * c[i] - 2 * share[i] * q
  OBVIOUS
<1>5. DOMAIN share = C
  OBVIOUS
<1>6. \A i \in C : up[i] = share[i] * q - total * c[i]
  OBVIOUS
<1>7. Allocate(total, q, c) =
        IF SumFunction(c) # q THEN share
        ELSE IF total - s > 0
        THEN [i \in C |-> IF \A j \in C : j <= i THEN share[i] + (total - s) ELSE share[i]]
        ELSE [i \in C |-> share[i] -
                 Smaller(share[i], Greater(0, (-(total - s)) - SumFunctionOnSet(share,
                     {j \in C : up[j] > up[i] \/ (up[j] = up[i] /\ j < i)})))]
  <2>1. s = SumFunction(share)
    BY <1>3, <1>5 DEF SumFunction
  <2> QED BY <1>1, <2>1 DEF Allocate
<1> HIDE DEF share, err, up
<1>8. s \in Int /\ s >= 0
  <2>1. s \in Int
    BY <1>2, <1>3, SumType
  <2> DEFINE zero == [i \in C |-> 0]
  <2>2. \A i \in C : zero[i] = 0
    OBVIOUS
  <2> HIDE DEF zero
  <2>3. SumFunctionOnSet(zero, C) = 0 * Cardinality(C)
    <3>1. 0 \in Int OBVIOUS
    <3> QED BY <2>2, <3>1, SumConstant
  <2>4. SumFunctionOnSet(zero, C) <= SumFunctionOnSet(share, C)
    <3>1. \A i \in C : zero[i] \in Int /\ share[i] \in Int /\ zero[i] <= share[i]
      BY <1>2, <2>2
    <3> QED BY <3>1, SumAtMost
  <2>5. Cardinality(C) \in Nat
    BY FS_CardinalityType
  <2> QED BY <1>3, <2>1, <2>3, <2>4, <2>5
<1>9. SumFunctionOnSet(err, C) = (2 * total) * SumFunctionOnSet(c, C) + (-(2 * q)) * s
  <2>1. PICK u \in Int, w \in Int : u = 2 * total /\ w = -(2 * q)
    OBVIOUS
  <2>2. Combines(err, u, c, w, share, C)
    <3>1. \A x, y \in Int : 2 * total * x - 2 * y * q = (2 * total) * x + (-(2 * q)) * y
      OBVIOUS
    <3> QED BY <1>2, <1>4, <2>1, <3>1 DEF Combines
  <2>3. SumFunctionOnSet(err, C)
           = u * SumFunctionOnSet(c, C) + w * SumFunctionOnSet(share, C)
    BY <2>2, SumLinear
  <2> QED BY <1>3, <2>1, <2>3
<1>10. PICK n : n = Cardinality(C)
  OBVIOUS
<1>11. n \in Nat /\ n >= 1
  <2>1. n \in Nat /\ n # 0
    BY <1>10, FS_CardinalityType, FS_EmptySet
  <2> QED BY <2>1
<1>12. q * n \in Int /\ q * (n - 1) = q * n - q /\ -q * n = -(q * n) /\ q <= q * n
  <2>1. q * n \in Int /\ q * (n - 1) = q * n - q /\ -q * n = -(q * n) /\ q * (n - 1) >= 0
    BY <1>11
  <2> QED BY <2>1
<1>13. ASSUME NEW i \in C
       PROVE  \E r \in Int : /\ SumFunctionOnSet(err, C) = err[i] + r
                             /\ -(q * n) <= r /\ r <= q * n
  <2>1. PICK r : r = SumFunctionOnSet(err, C \ {i})
    OBVIOUS
  <2>2. IsFiniteSet(C \ {i}) /\ Cardinality(C \ {i}) = n - 1
    BY <1>10, FS_Subset, FS_RemoveElement
  <2>3. r \in Int /\ -(q * (n - 1)) <= r /\ r <= q * (n - 1)
    BY <1>2, <2>1, <2>2, SumBounds
  <2>4. SumFunctionOnSet(err, C) = err[i] + r
    <3>1. \A j \in C : err[j] \in Int
      BY <1>2
    <3> QED BY <2>1, <3>1, SumSplit
  <2> QED BY <1>12, <2>3, <2>4
<1>14. CASE SumFunction(c) # q
  <2>1. a = share
    BY <1>7, <1>14
  <2>2. \A i \in C : -(q * n) <= err[i] /\ err[i] <= q * n
    BY <1>2, <1>12
  <2>3. share \in [C -> Int]
    BY <1>2, <1>5 DEF share
  <2>4. \A i \in C : 2 * total * c[i] - 2 * a[i] * q \in (-q * n)..(q * n)
    <3> SUFFICES ASSUME NEW i \in C
                 PROVE  2 * total * c[i] - 2 * a[i] * q \in (-q * n)..(q * n)
      OBVIOUS
    <3>1. 2 * total * c[i] - 2 * a[i] * q = err[i] /\ err[i] \in Int
      BY <1>2, <1>4, <2>1
    <3> QED BY <1>12, <2>2, <3>1
  <2> QED BY <1>2, <1>10, <1>14, <2>1, <2>3, <2>4 DEF Shares
<1>15. CASE SumFunction(c) = q
  <2>1. PICK missing : missing = total - s
    OBVIOUS
  <2>2. missing \in Int
    BY <1>8, <2>1
  <2>3. SumFunctionOnSet(err, C) = 2 * q * missing
    <3>1. SumFunctionOnSet(c, C) = q
      BY <1>1, <1>15
    <3>2. (2 * total) * q + (-(2 * q)) * s = 2 * q * (total - s)
      BY <1>8
    <3> QED BY <1>9, <2>1, <3>1, <3>2
  <2>4. CASE missing > 0
    <3>1. PICK l \in C : \A j \in C : j <= l
      <4>0. \A i \in C : i \in Nat
        BY CostRollupAssumption
      <4> DEFINE R == {p \in C \X C : p[1] < p[2]}
      <4>1. Sorts(R, C)
        BY <4>0 DEF Sorts
      <4>2. \A x, y \in C : <<x, y>> \in R => x <= y
        BY <4>0
      <4> HIDE DEF R
      <4>3. PICK l \in C : \A y \in C \ {l} : <<y, l>> \in R
        BY <4>1, LastLemma
      <4>4. l \in Nat
        BY <4>0
      <4>5. ASSUME NEW j \in C PROVE j <= l
        <5>1. CASE j = l BY <4>4, <5>1
        <5>2. CASE j # l BY <4>2, <4>3, <5>2
        <5> QED BY <5>1, <5>2
      <4> QED BY <4>5
    <3>2. \A i \in C : (\A j \in C : j <= i) <=> i = l
      <4>1. \A i \in C : i \in Nat
        BY CostRollupAssumption
      <4> QED BY <3>1, <4>1
    <3>3. /\ a = [i \in C |-> IF \A j \in C : j <= i THEN share[i] + missing ELSE share[i]]
      BY <1>7, <1>15, <2>1, <2>4
    <3>4. /\ a[l] = share[l] + missing
          /\ \A i \in C \ {l} : a[i] = share[i]
      BY <3>2, <3>3
    <3>5. a \in [C -> Int] /\ \A i \in C : a[i] >= 0
      BY <1>2, <2>2, <2>4, <3>3
    <3>6. SumFunctionOnSet(a, C) = total
      <4>1. SumFunctionOnSet(a, C) = a[l] + SumFunctionOnSet(a, C \ {l})
        <5>1. \A i \in C : a[i] \in Int
          BY <3>5
        <5> QED BY <5>1, SumSplit
      <4>2. SumFunctionOnSet(share, C) = share[l] + SumFunctionOnSet(share, C \ {l})
        <5>1. \A i \in C : share[i] \in Int
          BY <1>2
        <5> QED BY <5>1, SumSplit
      <4>3. IsFiniteSet(C \ {l})
        BY FS_Subset
      <4>4. SumFunctionOnSet(a, C \ {l}) = SumFunctionOnSet(share, C \ {l})
        BY <3>4, <4>3, SumSame
      <4>5. SumFunctionOnSet(share, C \ {l}) \in Int
        BY <1>2, <4>3, SumType
      <4> QED BY <1>2, <1>3, <1>8, <2>1, <2>2, <3>4, <4>1, <4>2, <4>4, <4>5
    <3>7. ASSUME NEW i \in C PROVE 2 * total * c[i] - 2 * a[i] * q \in (-q * n)..(q * n)
      <4>1. CASE i = l
        <5>1. PICK r \in Int : /\ SumFunctionOnSet(err, C) = err[i] + r
                               /\ -(q * n) <= r /\ r <= q * n
          BY <1>13
        <5>2. 2 * total * c[i] - 2 * (share[i] + missing) * q = err[i] - 2 * q * missing
          <6>1. \A t, x, y \in Int : t - 2 * (x + y) * q = (t - 2 * x * q) - 2 * q * y
            OBVIOUS
          <6>2. share[i] \in Int /\ 2 * total * c[i] \in Int
            BY <1>2
          <6> QED BY <1>4, <2>2, <6>1, <6>2
        <5>3. 2 * total * c[i] - 2 * a[i] * q = -r
          BY <1>2, <2>3, <3>4, <4>1, <5>1, <5>2
        <5> QED BY <1>12, <5>1, <5>3
      <4>2. CASE i # l
        <5>1. 2 * total * c[i] - 2 * a[i] * q = err[i]
          BY <1>4, <3>4, <4>2
        <5> QED BY <1>2, <1>12, <5>1
      <4> QED BY <4>1, <4>2
    <3> QED BY <1>10, <3>5, <3>6, <3>7 DEF Shares
  <2>5. CASE missing <= 0
    <3> DEFINE R == {p \in C \X C : up[p[1]] > up[p[2]]
                                      \/ (up[p[1]] = up[p[2]] /\ p[1] < p[2])}
               before == [i \in C |-> {j \in C : up[j] > up[i] \/ (up[j] = up[i] /\ j < i)}]
               cut == [i \in C |-> Smaller(share[i], Greater(0, (-missing) -
                                              SumFunctionOnSet(share, before[i])))]
    <3>1. Sorts(R, C)
      <4>1. \A x, y \in C : <<x, y>> \in R <=> (up[x] > up[y] \/ (up[x] = up[y] /\ x < y))
        OBVIOUS
      <4>2. \A i \in C : i \in Nat
        BY CostRollupAssumption
      <4> HIDE DEF R
      <4> QED BY <1>2, <4>1, <4>2 DEF Sorts
    <3>2. /\ \A i \in C : before[i] \subseteq C
          /\ \A i, j \in C : j \in before[i] <=> <<j, i>> \in R
      OBVIOUS
    <3>3. \A i \in C : cut[i] = Smaller(share[i], Greater(0, (-missing) -
                                              SumFunctionOnSet(share, before[i])))
      OBVIOUS
    <3> HIDE DEF R
    <3>4. a = [i \in C |-> share[i] - cut[i]]
      <4>1. \A i \in C : cut[i] = Smaller(share[i], Greater(0, (-missing) -
               SumFunctionOnSet(share,
                  {j \in C : up[j] > up[i] \/ (up[j] = up[i] /\ j < i)})))
        BY <3>3
      <4> HIDE DEF cut, before
      <4>2. ~(total - s > 0)
        BY <1>8, <2>1, <2>5
      <4> QED BY <1>7, <1>15, <2>1, <4>1, <4>2
    <3> HIDE DEF cut, before
    <3>5. PICK m \in Nat : m = -missing
      BY <2>2, <2>5
    <3>6. /\ \A i \in C : cut[i] \in Nat /\ cut[i] <= share[i] /\ cut[i] <= m
          /\ SumFunctionOnSet(cut, C) = Smaller(m, s)
      <4>1. \A i \in C : share[i] \in Nat
        BY <1>2
      <4>2. Cuts(cut, share, m, R, before, C)
        BY <3>2, <3>3, <3>5, <4>1 DEF Cuts
      <4>3. /\ \A i \in C : cut[i] \in Nat /\ cut[i] <= share[i] /\ cut[i] <= m
            /\ SumFunctionOnSet(cut, C) = Smaller(m, SumFunctionOnSet(share, C))
        BY <3>1, <4>2, CutsLemma
      <4> QED BY <1>3, <4>3
    <3>7. a \in [C -> Int] /\ \A i \in C : a[i] >= 0
      BY <1>2, <3>4, <3>6
    <3>8. SumFunctionOnSet(a, C) = total
      <4>1. \A i \in C : /\ share[i] \in Int /\ cut[i] \in Int
                         /\ a[i] = 1 * share[i] + (-1) * cut[i]
        BY <1>2, <3>4, <3>6
      <4>2. SumFunctionOnSet(a, C) = 1 * SumFunctionOnSet(share, C)
                                      + (-1) * SumFunctionOnSet(cut, C)
        <5>1. PICK u \in Int, w \in Int : u = 1 /\ w = -1
          OBVIOUS
        <5>2. Combines(a, u, share, w, cut, C)
          BY <4>1, <5>1 DEF Combines
        <5>3. SumFunctionOnSet(a, C) = u * SumFunctionOnSet(share, C)
                                        + w * SumFunctionOnSet(cut, C)
          BY <5>2, SumLinear
        <5> QED BY <5>1, <5>3
      <4>3. s = total + m /\ Smaller(m, s) = m
        BY <1>8, <2>1, <2>2, <3>5 DEF Smaller
      <4> QED BY <1>3, <1>8, <3>6, <4>2, <4>3
    <3>9. ASSUME NEW i \in C PROVE 2 * total * c[i] - 2 * a[i] * q \in (-q * n)..(q * n)
      <4>1. PICK r \in Int : /\ SumFunctionOnSet(err, C) = err[i] + r
                             /\ -(q * n) <= r /\ r <= q * n
        BY <1>13
      <4>2. 2 * total * c[i] - 2 * a[i] * q = err[i] + 2 * (q * cut[i])
        <5>1. \A t, x, y \in Int : t - 2 * (x - y) * q = (t - 2 * x * q) + 2 * (q * y)
          OBVIOUS
        <5>2. share[i] \in Int /\ cut[i] \in Int /\ 2 * total * c[i] \in Int
          BY <1>2, <3>6
        <5> QED BY <1>4, <3>4, <5>1, <5>2
      <4>3. q * cut[i] \in Int /\ 0 <= q * cut[i] /\ q * cut[i] <= q * m
        <5>1. \A x, y \in Nat : x <= y => q * x \in Int /\ 0 <= q * x /\ q * x <= q * y
          OBVIOUS
        <5> QED BY <3>6, <5>1
      <4>4. 2 * (q * m) = -(err[i] + r)
        <5>1. 2 * q * missing = -(2 * (q * m))
          BY <2>2, <3>5
        <5> QED BY <1>2, <2>3, <4>1, <5>1
      <4>5. q * m \in Int /\ err[i] \in Int /\ -q <= err[i]
        BY <1>2
      <4>6. /\ -(q * n) <= err[i] + 2 * (q * cut[i])
            /\ err[i] + 2 * (q * cut[i]) <= q * n
            /\ err[i] + 2 * (q * cut[i]) \in Int
        BY <1>12, <4>1, <4>3, <4>4, <4>5
      <4> QED BY <1>12, <4>2, <4>6
    <3> QED BY <1>10, <3>7, <3>8, <3>9 DEF Shares
  <2> QED BY <2>2, <2>4, <2>5
<1> QED BY <1>14, <1>15

-----------------------------------------------------------------------------
(* The graph of a payload that the validation has accepted *)

\* What the definitions say of a payload depends on the payload alone.
LEMMA FrameLemma ==
  ASSUME payload' = payload
  PROVE  /\ Edges' = Edges
         /\ \A i : /\ Source(i)' = Source(i) /\ Target(i)' = Target(i)
                   /\ Consumed(i)' = Consumed(i)
         /\ \A e : Qualified(e)' = Qualified(e) /\ Completed(e)' = Completed(e)
         /\ \A e, X : OutOf(e, X)' = OutOf(e, X) /\ Into(e, X)' = Into(e, X)
         /\ \A e, X : Used(e, X)' = Used(e, X) /\ (Exhausted(e, X)' <=> Exhausted(e, X))
         /\ \A X : Within(X)' = Within(X)
         /\ \A r : Needed(r)' = Needed(r)
         /\ Roots' = Roots /\ (Accepted' <=> Accepted)
         /\ \A E : Cyclic(E)' <=> Cyclic(E)
<1>1. Edges' = Edges
  BY DEF Edges
<1>2. \A i : Source(i)' = Source(i) /\ Target(i)' = Target(i) /\ Consumed(i)' = Consumed(i)
  BY DEF Source, Target, Consumed
<1>3. \A e : Qualified(e)' = Qualified(e) /\ Completed(e)' = Completed(e)
  BY DEF Qualified, Completed
<1>4. \A e, X : OutOf(e, X)' = OutOf(e, X) /\ Into(e, X)' = Into(e, X)
  BY <1>2 DEF OutOf, Into
<1>5. \A e, X : Used(e, X)' = Used(e, X)
  <2> SUFFICES ASSUME NEW e, NEW X PROVE Used(e, X)' = Used(e, X)
    OBVIOUS
  <2>1. [i \in OutOf(e, X)' |-> Consumed(i)'] = [i \in OutOf(e, X) |-> Consumed(i)]
    BY <1>2, <1>4
  <2> QED BY <2>1, Zenon DEF Used
<1>6. \A e, X : Exhausted(e, X)' <=> Exhausted(e, X)
  BY <1>3, <1>4, <1>5 DEF Exhausted
<1>7. \A X : Within(X)' = Within(X)
  BY <1>1, <1>2 DEF Within
<1>8. \A E : Closed(E)' <=> Closed(E)
  BY <1>1, <1>2 DEF Closed
<1>9. \A r : Needed(r)' = Needed(r)
  BY <1>8 DEF Needed
<1>10. Roots' = Roots
  BY <1>1, <1>4 DEF Roots
<1>11. \A E : Cyclic(E)' <=> Cyclic(E)
  BY <1>1, <1>2, <1>4 DEF Cyclic
<1>12. Accepted' <=> Accepted
  <2>1. \A e : LotErrors(e)' <=> LotErrors(e)
    BY <1>3 DEF LotErrors
  <2>2. \A i : EdgeErrors(i)' <=> EdgeErrors(i)
    BY <1>2 DEF EdgeErrors
  <2>3. \A e : OverConsumed(e)' <=> OverConsumed(e)
    BY <1>1, <1>3, <1>5 DEF OverConsumed
  <2> QED BY <1>1, <1>11, <2>1, <2>2, <2>3 DEF Accepted
<1> QED BY <1>1, <1>2, <1>3, <1>4, <1>5, <1>6, <1>7, <1>9, <1>10, <1>11, <1>12

\* What the validation guarantees of one lot and of one edge.
LEMMA AcceptedLemma ==
  ASSUME IsPayload(payload), Accepted
  PROVE  /\ \A e \in Events : /\ Qualified(e) \in Int /\ Qualified(e) >= 0
                              /\ payload.lots[e].defective \in Int
                              /\ payload.lots[e].defective >= 0
                              /\ Completed(e) > 0
                              /\ payload.lots[e].amount \in Int
                              /\ payload.lots[e].amount >= 0
         /\ \A i \in Edges : /\ Source(i) \in Events /\ Target(i) \in Events
                             /\ Source(i) # Target(i)
                             /\ Consumed(i) \in Int /\ Consumed(i) > 0
         /\ Edges \subseteq Inputs /\ IsFiniteSet(Edges)
<1>1. ASSUME NEW e \in Events
      PROVE  /\ Qualified(e) \in Int /\ Qualified(e) >= 0
             /\ payload.lots[e].defective \in Int
             /\ payload.lots[e].defective >= 0
             /\ Completed(e) > 0
             /\ payload.lots[e].amount \in Int
             /\ payload.lots[e].amount >= 0
  <2>1. payload.lots[e] \in Lot /\ ~LotErrors(e)
    BY DEF IsPayload, Accepted
  <2> QED BY <2>1 DEF Lot, LotErrors, Qualified, Completed
<1>2. ASSUME NEW i \in Edges
      PROVE  /\ Source(i) \in Events /\ Target(i) \in Events
             /\ Source(i) # Target(i)
             /\ Consumed(i) \in Int /\ Consumed(i) > 0
  <2>1. payload.inputs[i] \in Edge /\ ~EdgeErrors(i)
    BY DEF IsPayload, Partial, Accepted, Edges
  <2>2. /\ Source(i) \in Events \cup {NoEvent} /\ Target(i) \in Events \cup {NoEvent}
        /\ Consumed(i) \in Int
    BY <2>1 DEF Edge, Source, Target, Consumed
  <2>3. /\ Source(i) # NoEvent /\ Target(i) # NoEvent /\ Target(i) # Source(i)
        /\ ~(Consumed(i) <= 0)
    BY <2>1 DEF EdgeErrors
  <2> QED BY <2>2, <2>3
<1>3. Edges \subseteq Inputs
  BY DEF IsPayload, Partial, Edges
<1>4. IsFiniteSet(Edges)
  BY <1>3, CostRollupAssumption, FS_Subset
<1> QED BY <1>1, <1>2, <1>3, <1>4

\* A part of the edges consumes no more than all of them.
LEMMA UsedLemma ==
  ASSUME IsPayload(payload), Accepted, NEW e \in Events, NEW X, X \subseteq Edges
  PROVE  /\ Used(e, X) \in Int /\ Used(e, X) <= Qualified(e)
         /\ Used(e, OutOf(e, X)) = Used(e, X)
         /\ OutOf(e, X) # {} => Qualified(e) > 0
         /\ Used(e, X) = SumFunction([i \in OutOf(e, X) |-> Consumed(i)])
<1> DEFINE f == [i \in Edges |-> Consumed(i)]
<1>1. \A i \in Edges : f[i] = Consumed(i) /\ f[i] \in Int /\ f[i] > 0
  BY AcceptedLemma
<1>2. IsFiniteSet(Edges)
  BY AcceptedLemma
<1>3. OutOf(e, X) \subseteq OutOf(e, Edges) /\ OutOf(e, Edges) \subseteq Edges
  BY DEF OutOf
<1> HIDE DEF f
<1>4. ASSUME NEW Y, Y \subseteq Edges
      PROVE  Used(e, Y) = SumFunctionOnSet(f, OutOf(e, Y)) /\ IsFiniteSet(OutOf(e, Y))
  <2> DEFINE h == [i \in OutOf(e, Y) |-> Consumed(i)]
  <2>1. OutOf(e, Y) \subseteq Edges
    BY <1>4 DEF OutOf
  <2>2. \A i \in OutOf(e, Y) : h[i] = f[i]
    BY <1>1, <2>1
  <2>3. DOMAIN h = OutOf(e, Y)
    OBVIOUS
  <2>4. Used(e, Y) = SumFunctionOnSet(h, OutOf(e, Y))
    <3>1. Used(e, Y) = SumFunctionOnSet(h, DOMAIN h)
      BY Zenon DEF Used, SumFunction
    <3> QED BY <2>3, <3>1
  <2>5. IsFiniteSet(OutOf(e, Y))
    BY <1>2, <2>1, FS_Subset
  <2> HIDE DEF h
  <2>6. PICK Z : Z = OutOf(e, Y)
    OBVIOUS
  <2>7. SumFunctionOnSet(h, Z) = SumFunctionOnSet(f, Z)
    BY <2>2, <2>5, <2>6, SumSame
  <2> QED BY <2>4, <2>5, <2>6, <2>7
<1>5. PICK A, B : A = OutOf(e, X) /\ B = OutOf(e, Edges)
  OBVIOUS
<1>6. SumFunctionOnSet(f, A) <= SumFunctionOnSet(f, B)
  <2>1. IsFiniteSet(B) /\ A \subseteq B /\ \A i \in B : f[i] \in Int /\ f[i] >= 0
    BY <1>1, <1>3, <1>4, <1>5
  <2> QED BY <2>1, SumPart
<1>7. SumFunctionOnSet(f, A) \in Int /\ SumFunctionOnSet(f, B) \in Int
  <2>1. /\ IsFiniteSet(A) /\ IsFiniteSet(B)
        /\ \A i \in A : f[i] \in Int
        /\ \A i \in B : f[i] \in Int
    BY <1>1, <1>3, <1>4, <1>5
  <2> QED BY <2>1, SumType
<1>8. Used(e, Edges) <= Qualified(e)
  <2>1. ~(Used(e, Edges) > Qualified(e))
    BY DEF Accepted, OverConsumed
  <2>2. Used(e, Edges) \in Int /\ Qualified(e) \in Int
    BY <1>4, <1>5, <1>7, AcceptedLemma
  <2> QED BY <2>1, <2>2
<1>9. Used(e, X) = SumFunctionOnSet(f, A) /\ Used(e, Edges) = SumFunctionOnSet(f, B)
  BY <1>4, <1>5
<1>10. Qualified(e) \in Int
  BY AcceptedLemma
<1>11. OutOf(e, X) # {} => Qualified(e) > 0
  <2> SUFFICES ASSUME NEW i \in A PROVE Qualified(e) > 0
    BY <1>5
  <2>1. f[i] \in Int /\ f[i] > 0
    BY <1>1, <1>3, <1>5
  <2>2. PICK I : I = {i}
    OBVIOUS
  <2>3. /\ IsFiniteSet(A) /\ I \subseteq A /\ \A j \in A : f[j] \in Int /\ f[j] >= 0
    BY <1>1, <1>3, <1>4, <1>5, <2>2
  <2>4. SumFunctionOnSet(f, I) <= SumFunctionOnSet(f, A)
    BY <2>3, SumPart
  <2>5. SumFunctionOnSet(f, I) = f[i]
    <3>1. IsFiniteSet(I) /\ i \in I /\ I \ {i} = {} /\ \A j \in I : f[j] \in Int
      BY <2>1, <2>2, <2>3, FS_Subset
    <3>2. SumFunctionOnSet(f, I) = f[i] + SumFunctionOnSet(f, I \ {i})
      BY <3>1, SumSplit
    <3> QED BY <2>1, <3>1, <3>2, SumEmpty
  <2> QED BY <1>6, <1>7, <1>8, <1>9, <1>10, <2>1, <2>4, <2>5
<1>12. OutOf(e, OutOf(e, X)) = OutOf(e, X)
  BY DEF OutOf
<1>13. Used(e, OutOf(e, X)) = Used(e, X)
  BY <1>12, Zenon DEF Used
<1>14. Used(e, X) = SumFunction([i \in OutOf(e, X) |-> Consumed(i)])
  BY Zenon DEF Used
<1> QED BY <1>6, <1>7, <1>8, <1>9, <1>10, <1>11, <1>13, <1>14

\* What a batch was made of: known events, among which none needs itself.
LEMMA NeededLemma ==
  ASSUME IsPayload(payload), Accepted, NEW root \in Events
  PROVE  /\ Needed(root) \subseteq Events /\ root \in Needed(root)
         /\ ~Cyclic(Needed(root))
         /\ NoEvent \notin Needed(root)
<1>1. Closed(Events) /\ Events \subseteq Ids
  BY AcceptedLemma DEF Closed, Ids
<1>2. Needed(root) \subseteq Events
  BY <1>1 DEF Needed
<1>3. root \in Needed(root)
  BY DEF Needed, Ids
<1>4. ~Cyclic(Needed(root))
  BY <1>2 DEF Accepted, Cyclic
<1> QED BY <1>2, <1>3, <1>4, CostRollupAssumption

-----------------------------------------------------------------------------
(* The inductive invariant *)

\* A record of the fields of a result and no other.
Shaped(r) == r = [root |-> r.root, events |-> r.events, edges |-> r.edges,
                  accumulated |-> r.accumulated, allocated |-> r.allocated]

\* A roll-up of what its root was made of. Edges have an allocation as soon as
\* their source has its cost, and no amount is negative.
Begun(r) ==
    /\ Shaped(r)
    /\ r.root \in Roots
    /\ r.events = Needed(r.root) /\ r.edges = Within(r.events)
    /\ IsResult(r)
    /\ DOMAIN r.allocated = {i \in r.edges : Source(i) \in DOMAIN r.accumulated}
    /\ \A e \in DOMAIN r.accumulated : r.accumulated[e] \in Int /\ r.accumulated[e] >= 0
    /\ \A i \in DOMAIN r.allocated : r.allocated[i] \in Int /\ r.allocated[i] >= 0

\* An event with a cost: its sources had theirs before, the cost is what the
\* equation says, and so are the shares of its edges.
Rolled(r, e) ==
    /\ \A i \in Into(e, r.edges) : Source(i) \in DOMAIN r.accumulated
    /\ r.accumulated[e] = payload.lots[e].amount
                            + SumFunctionOnSet(r.allocated, Into(e, r.edges))
    /\ Exhausted(e, r.edges) =>
          SumFunctionOnSet(r.allocated, OutOf(e, r.edges)) = r.accumulated[e]
    /\ \A i \in OutOf(e, r.edges) :
          2 * r.accumulated[e] * Consumed(i) - 2 * r.allocated[i] * Qualified(e)
          \in (-Qualified(e) * Cardinality(OutOf(e, r.edges)))
                ..(Qualified(e) * Cardinality(OutOf(e, r.edges)))

\* A result, finished or in progress, that is right as far as it goes.
ResultOK(r) == Begun(r) /\ \A e \in DOMAIN r.accumulated : Rolled(r, e)

\* The inductive invariant.
IInv == /\ TypeOK
        /\ phase # "publish_failed"
        /\ phase \in {"approved", "publishing", "published"} => Accepted
        /\ DOMAIN projection # {} => Accepted
        /\ phase # "publishing" => todo = {} /\ rollup = NoRollup
        /\ todo \subseteq Roots
        /\ rollup = NoRollup \/ ResultOK(rollup)
        /\ \A r \in DOMAIN projection :
              /\ projection[r].root = r /\ ResultOK(projection[r])
              /\ DOMAIN projection[r].accumulated = projection[r].events

\* The cost of an event and its shares, added to a roll-up.
With(r, e, cost, out, shares) ==
    [r EXCEPT !.accumulated = [d \in DOMAIN @ \cup {e} |-> IF d = e THEN cost ELSE @[d]],
              !.allocated = [i \in DOMAIN @ \cup out |->
                                IF i \in out THEN shares[i] ELSE @[i]]]

\* A roll-up stays right when an event is added whose sources have their costs.
LEMMA RollUpLemma ==
  ASSUME IsPayload(payload), Accepted, NEW r, ResultOK(r),
         NEW e \in r.events \ DOMAIN r.accumulated,
         \A i \in Into(e, r.edges) : Source(i) \in DOMAIN r.accumulated,
         NEW cost, cost = payload.lots[e].amount
                            + SumFunctionOnSet(r.allocated, Into(e, r.edges)),
         NEW out, out = OutOf(e, r.edges),
         NEW shares, shares = Allocate(cost, Qualified(e), [i \in out |-> Consumed(i)]),
         NEW s, s = With(r, e, cost, out, shares)
  PROVE  ResultOK(s)
<1> DEFINE acc == r.accumulated
           all == r.allocated
           acc2 == [d \in DOMAIN acc \cup {e} |-> IF d = e THEN cost ELSE acc[d]]
           all2 == [i \in DOMAIN all \cup out |-> IF i \in out THEN shares[i] ELSE all[i]]
<1>1. /\ s.root = r.root /\ s.events = r.events /\ s.edges = r.edges
      /\ s.accumulated = acc2 /\ s.allocated = all2 /\ Shaped(s)
  <2>1. r = [root |-> r.root, events |-> r.events, edges |-> r.edges,
             accumulated |-> acc, allocated |-> all]
    BY DEF ResultOK, Begun, Shaped
  <2>2. s = [r EXCEPT !.accumulated = acc2, !.allocated = all2]
    BY DEF With
  <2> HIDE DEF acc2, all2
  <2>3. s = [root |-> r.root, events |-> r.events, edges |-> r.edges,
             accumulated |-> acc2, allocated |-> all2]
    BY <2>1, <2>2
  <2>4. /\ s.root = r.root /\ s.events = r.events /\ s.edges = r.edges
        /\ s.accumulated = acc2 /\ s.allocated = all2
    <3>1. PICK t : t = [root |-> r.root, events |-> r.events, edges |-> r.edges,
                        accumulated |-> acc2, allocated |-> all2]
      OBVIOUS
    <3>2. /\ t.root = r.root /\ t.events = r.events /\ t.edges = r.edges
          /\ t.accumulated = acc2 /\ t.allocated = all2
      BY <3>1
    <3> QED BY <2>3, <3>1, <3>2, Zenon
  <2>5. Shaped(s)
    BY <2>3, <2>4 DEF Shaped
  <2> QED BY <2>4, <2>5
<1>2. /\ r.root \in Roots /\ r.events = Needed(r.root) /\ r.edges = Within(r.events)
      /\ r.events \subseteq Events
      /\ DOMAIN acc \subseteq r.events
      /\ DOMAIN all = {i \in r.edges : Source(i) \in DOMAIN acc}
      /\ \A d \in DOMAIN acc : acc[d] \in Int /\ acc[d] >= 0
      /\ \A i \in DOMAIN all : all[i] \in Int /\ all[i] >= 0
  BY DEF ResultOK, Begun, IsResult, Partial
<1>3. e \in Events /\ e \in r.events /\ e \notin DOMAIN acc
  BY <1>2
<1>4. r.edges \subseteq Edges /\ IsFiniteSet(r.edges)
  BY <1>2, AcceptedLemma, FS_Subset DEF Within
<1>5. out \subseteq r.edges /\ out \cap DOMAIN all = {} /\ IsFiniteSet(out)
  <2>1. out \subseteq r.edges /\ \A i \in out : Source(i) = e
    BY DEF OutOf
  <2> QED BY <1>2, <1>3, <1>4, <2>1, FS_Subset
<1>6. Into(e, r.edges) \subseteq DOMAIN all
  BY <1>2 DEF Into
<1>7. cost \in Nat
  <2>1. PICK I : I = Into(e, r.edges)
    OBVIOUS
  <2>2. IsFiniteSet(I) /\ \A i \in I : all[i] \in Int /\ all[i] >= 0
    BY <1>2, <1>4, <1>6, <2>1, FS_Subset DEF Into
  <2>3. SumFunctionOnSet(all, I) \in Int /\ SumFunctionOnSet(all, I) >= 0
    BY <2>2, SumNonNegative
  <2>4. payload.lots[e].amount \in Int /\ payload.lots[e].amount >= 0
    BY <1>3, AcceptedLemma
  <2> QED BY <2>1, <2>3, <2>4
<1>8. /\ \A i \in out : shares[i] \in Int /\ shares[i] >= 0
      /\ Exhausted(e, r.edges) => SumFunctionOnSet(shares, out) = cost
      /\ \A i \in out : 2 * cost * Consumed(i) - 2 * shares[i] * Qualified(e)
                          \in (-Qualified(e) * Cardinality(out))
                                ..(Qualified(e) * Cardinality(out))
  <2>1. CASE out = {}
    BY <2>1 DEF Exhausted
  <2>2. CASE out # {}
    <3> DEFINE c == [i \in out |-> Consumed(i)]
    <3>1. PICK q : q = Qualified(e)
      OBVIOUS
    <3>2. q \in Int /\ q > 0
      BY <1>3, <1>4, <2>2, <3>1, AcceptedLemma, UsedLemma
    <3>3. out \subseteq Inputs
      BY <1>4, <1>5, AcceptedLemma
    <3>4. c \in [out -> Int] /\ \A i \in out : c[i] > 0
      BY <1>4, <1>5, AcceptedLemma
    <3>5. shares = Allocate(cost, q, c)
      BY <3>1
    <3>6. SumFunction(c) = Used(e, r.edges)
      BY <1>3, <1>4, UsedLemma
    <3>7. \A i \in out : c[i] = Consumed(i)
      OBVIOUS
    <3> HIDE DEF c
    <3>8. /\ shares \in [out -> Int] /\ \A i \in out : shares[i] >= 0
          /\ SumFunction(c) = q => SumFunctionOnSet(shares, out) = cost
          /\ \A i \in out : 2 * cost * c[i] - 2 * shares[i] * q
                              \in (-q * Cardinality(out))..(q * Cardinality(out))
      <4>1. Shares(shares, cost, q, c, out)
        BY <1>5, <1>7, <2>2, <3>2, <3>3, <3>4, <3>5, AllocateLemma
      <4> QED BY <4>1 DEF Shares
    <3>9. \A i \in out : shares[i] \in Int
      BY <3>8
    <3>10. Exhausted(e, r.edges) => SumFunctionOnSet(shares, out) = cost
      BY <3>1, <3>6, <3>8 DEF Exhausted
    <3> QED BY <3>1, <3>7, <3>8, <3>9, <3>10
  <2> QED BY <2>1, <2>2
<1>9. /\ DOMAIN acc2 = DOMAIN acc \cup {e} /\ DOMAIN all2 = DOMAIN all \cup out
      /\ acc2[e] = cost /\ \A d \in DOMAIN acc : acc2[d] = acc[d]
      /\ \A i \in out : all2[i] = shares[i]
      /\ \A i \in DOMAIN all : all2[i] = all[i]
  BY <1>3, <1>5
<1>a. acc2 = [d \in DOMAIN acc2 |-> acc2[d]] /\ all2 = [i \in DOMAIN all2 |-> all2[i]]
  OBVIOUS
<1> HIDE DEF acc2, all2
<1>10. Begun(s)
  <2>1. DOMAIN all2 = {i \in r.edges : Source(i) \in DOMAIN acc2}
    <3>1. \A i \in r.edges : i \in out <=> Source(i) = e
      BY DEF OutOf
    <3> QED BY <1>2, <1>5, <1>9, <3>1
  <2>2. DOMAIN acc2 \subseteq r.events
    BY <1>2, <1>3, <1>9
  <2>3. \A d \in DOMAIN acc2 : acc2[d] \in Int /\ acc2[d] >= 0
    BY <1>2, <1>7, <1>9
  <2>4. \A i \in DOMAIN all2 : all2[i] \in Int /\ all2[i] >= 0
    BY <1>2, <1>8, <1>9
  <2>5. IsResult(s)
    <3>1. s.events \subseteq Events /\ s.edges \subseteq Inputs
      BY <1>1, <1>2, <1>4, AcceptedLemma
    <3>2. Partial(acc2, r.events, Int)
      BY <1>a, <2>2, <2>3 DEF Partial
    <3>3. Partial(all2, r.edges, Int)
      BY <1>a, <2>1, <2>4 DEF Partial
    <3> QED BY <1>1, <3>1, <3>2, <3>3 DEF IsResult
  <2>6. Shaped(s)
    BY <1>1
  <2>7. s.root \in Roots
    BY <1>1, <1>2
  <2>8. s.events = Needed(s.root)
    BY <1>1, <1>2
  <2>9. s.edges = Within(s.events)
    BY <1>1, <1>2
  <2>10. DOMAIN s.allocated = {i \in s.edges : Source(i) \in DOMAIN s.accumulated}
    BY <1>1, <2>1
  <2>11. \A x \in DOMAIN s.accumulated : s.accumulated[x] \in Int /\ s.accumulated[x] >= 0
    BY <1>1, <2>3
  <2>12. \A i \in DOMAIN s.allocated : s.allocated[i] \in Int /\ s.allocated[i] >= 0
    BY <1>1, <2>4
  <2> QED BY <2>6, <2>7, <2>8, <2>9, <2>10, <2>11, <2>12, <2>5 DEF Begun
<1>11. ASSUME NEW X, X \subseteq DOMAIN all
       PROVE  SumFunctionOnSet(all2, X) = SumFunctionOnSet(all, X)
  <2>1. IsFiniteSet(X)
    BY <1>2, <1>4, <1>11, FS_Subset
  <2>2. \A i \in X : all2[i] = all[i]
    BY <1>9, <1>11
  <2> QED BY <2>1, <2>2, SumSame
<1>12. ASSUME NEW d \in DOMAIN acc PROVE Rolled(s, d)
  <2>1. Rolled(r, d)
    BY DEF ResultOK
  <2>2. Into(d, r.edges) \subseteq DOMAIN all /\ OutOf(d, r.edges) \subseteq DOMAIN all
    BY <1>2, <2>1 DEF Rolled, Into, OutOf
  <2>3. \A i \in OutOf(d, r.edges) : all2[i] = all[i]
    BY <1>9, <2>2
  <2>4. \A i \in Into(d, r.edges) : Source(i) \in DOMAIN acc2
    BY <1>9, <2>1 DEF Rolled
  <2>5. acc2[d] = acc[d]
    BY <1>9
  <2>6. \A X \in {Into(d, r.edges), OutOf(d, r.edges)} :
           SumFunctionOnSet(all2, X) = SumFunctionOnSet(all, X)
    BY <1>11, <2>2
  <2>7. \A i \in Into(d, s.edges) : Source(i) \in DOMAIN s.accumulated
    BY <1>1, <2>4
  <2>8. s.accumulated[d] = payload.lots[d].amount
                             + SumFunctionOnSet(s.allocated, Into(d, s.edges))
    <3>1. acc[d] = payload.lots[d].amount + SumFunctionOnSet(all, Into(d, r.edges))
      BY <2>1 DEF Rolled
    <3> QED BY <1>1, <2>5, <2>6, <3>1
  <2>9. Exhausted(d, s.edges) =>
           SumFunctionOnSet(s.allocated, OutOf(d, s.edges)) = s.accumulated[d]
    <3>1. Exhausted(d, r.edges) => SumFunctionOnSet(all, OutOf(d, r.edges)) = acc[d]
      BY <2>1 DEF Rolled
    <3> QED BY <1>1, <2>5, <2>6, <3>1
  <2>10. \A i \in OutOf(d, s.edges) :
            2 * s.accumulated[d] * Consumed(i) - 2 * s.allocated[i] * Qualified(d)
            \in (-Qualified(d) * Cardinality(OutOf(d, s.edges)))
                  ..(Qualified(d) * Cardinality(OutOf(d, s.edges)))
    <3> SUFFICES ASSUME NEW i \in OutOf(d, r.edges)
                 PROVE  2 * acc2[d] * Consumed(i) - 2 * all2[i] * Qualified(d)
                        \in (-Qualified(d) * Cardinality(OutOf(d, r.edges)))
                              ..(Qualified(d) * Cardinality(OutOf(d, r.edges)))
      BY <1>1
    <3>1. 2 * acc[d] * Consumed(i) - 2 * all[i] * Qualified(d)
          \in (-Qualified(d) * Cardinality(OutOf(d, r.edges)))
                ..(Qualified(d) * Cardinality(OutOf(d, r.edges)))
      BY <2>1 DEF Rolled
    <3>2. all2[i] = all[i]
      BY <2>3
    <3> QED BY <2>5, <3>1, <3>2
  <2> QED BY <2>7, <2>8, <2>9, <2>10 DEF Rolled
<1>13. Rolled(s, e)
  <2>1. \A i \in Into(e, r.edges) : Source(i) \in DOMAIN acc2
    BY <1>9
  <2>2. acc2[e] = payload.lots[e].amount + SumFunctionOnSet(all2, Into(e, r.edges))
    BY <1>6, <1>9, <1>11
  <2>3. SumFunctionOnSet(all2, out) = SumFunctionOnSet(shares, out)
    BY <1>5, <1>9, SumSame
  <2>4. Exhausted(e, r.edges) => SumFunctionOnSet(all2, out) = acc2[e]
    BY <1>8, <1>9, <2>3
  <2>5. \A i \in out : 2 * acc2[e] * Consumed(i) - 2 * all2[i] * Qualified(e)
                         \in (-Qualified(e) * Cardinality(out))
                               ..(Qualified(e) * Cardinality(out))
    BY <1>8, <1>9
  <2>6. \A i \in Into(e, s.edges) : Source(i) \in DOMAIN s.accumulated
    BY <1>1, <2>1
  <2>7. s.accumulated[e] = payload.lots[e].amount
                             + SumFunctionOnSet(s.allocated, Into(e, s.edges))
    BY <1>1, <2>2
  <2>8. out = OutOf(e, s.edges)
    BY <1>1
  <2>9. Exhausted(e, s.edges) =>
           SumFunctionOnSet(s.allocated, OutOf(e, s.edges)) = s.accumulated[e]
    BY <1>1, <2>4, <2>8
  <2>10. \A i \in OutOf(e, s.edges) :
            2 * s.accumulated[e] * Consumed(i) - 2 * s.allocated[i] * Qualified(e)
            \in (-Qualified(e) * Cardinality(OutOf(e, s.edges)))
                  ..(Qualified(e) * Cardinality(OutOf(e, s.edges)))
    <3> SUFFICES ASSUME NEW i \in out
                 PROVE  2 * acc2[e] * Consumed(i) - 2 * all2[i] * Qualified(e)
                        \in (-Qualified(e) * Cardinality(out))
                              ..(Qualified(e) * Cardinality(out))
      BY <1>1
    <3> QED BY <2>5
  <2> QED BY <2>6, <2>7, <2>9, <2>10 DEF Rolled
<1>14. ASSUME NEW d \in DOMAIN s.accumulated PROVE Rolled(s, d)
  <2>1. d \in DOMAIN acc \/ d = e
    BY <1>1, <1>9, <1>14
  <2> QED BY <1>12, <1>13, <2>1
<1> QED BY <1>10, <1>14 DEF ResultOK

\* The payload decides alone whether a result is right.
LEMMA FrameResult ==
  ASSUME payload' = payload
  PROVE  \A s : ResultOK(s)' <=> ResultOK(s)
<1> SUFFICES ASSUME NEW s PROVE ResultOK(s)' <=> ResultOK(s)
  OBVIOUS
<1> USE FrameLemma
<1>1. Begun(s)' <=> Begun(s)
  <2>1. IsResult(s)' <=> IsResult(s)
    BY DEF IsResult, Partial
  <2>2. Shaped(s)' <=> Shaped(s)
    BY DEF Shaped
  <2> QED BY <2>1, <2>2 DEF Begun
<1>2. \A e : Rolled(s, e)' <=> Rolled(s, e)
  BY DEF Rolled
<1> QED BY <1>1, <1>2 DEF ResultOK

\* The invariant, when nothing but the phase and the queue changes.
LEMMA KeptLemma ==
  ASSUME IInv, payload' = payload, rollup' \in {rollup, NoRollup},
         \A r \in DOMAIN projection' :
            r \in DOMAIN projection /\ projection'[r] = projection[r]
  PROVE  /\ IsPayload(payload)' /\ (Accepted' <=> Accepted) /\ Roots' = Roots
         /\ rollup'.root \in Events \cup {NoEvent} /\ IsResult(rollup)'
         /\ rollup' = NoRollup \/ ResultOK(rollup)'
         /\ \A r \in DOMAIN projection' :
               /\ r \in Finished /\ projection'[r].root = r
               /\ IsResult(projection[r])' /\ ResultOK(projection[r])'
               /\ DOMAIN projection'[r].accumulated = projection'[r].events
<1>1. /\ IsPayload(payload)' /\ (Accepted' <=> Accepted) /\ Roots' = Roots
  BY FrameLemma DEF IInv, TypeOK, IsPayload, Partial
<1>2. \A s : ResultOK(s)' <=> ResultOK(s)
  BY FrameResult
<1>3. rollup'.root \in Events \cup {NoEvent} /\ IsResult(rollup)'
  <2>1. IsResult(NoRollup) /\ NoRollup.root = NoEvent
    BY DEF NoRollup, IsResult, Partial, Empty
  <2>2. NoRollup' = NoRollup
    BY DEF NoRollup, Empty
  <2> QED BY <2>1, <2>2 DEF IInv, TypeOK, IsResult, Partial
<1>4. rollup' = NoRollup \/ ResultOK(rollup)'
  BY <1>2 DEF IInv
<1>5. ASSUME NEW r \in DOMAIN projection'
      PROVE  /\ r \in Finished /\ projection'[r].root = r
             /\ IsResult(projection[r])' /\ ResultOK(projection[r])'
             /\ DOMAIN projection'[r].accumulated = projection'[r].events
  <2>1. r \in DOMAIN projection /\ projection'[r] = projection[r]
    BY <1>5
  <2>2. /\ r \in Finished /\ projection[r].root = r
        /\ IsResult(projection[r]) /\ ResultOK(projection[r])
        /\ DOMAIN projection[r].accumulated = projection[r].events
    BY <2>1 DEF IInv, TypeOK
  <2>3. PICK s : s = projection[r]
    OBVIOUS
  <2>4. ResultOK(s)' /\ IsResult(s)
    BY <1>2, <2>2, <2>3
  <2> QED BY <2>1, <2>2, <2>3, <2>4 DEF IsResult, Partial
<1> QED BY <1>1, <1>3, <1>4, <1>5

-----------------------------------------------------------------------------
(* Every step *)

\* It holds of a payload that was just submitted.
LEMMA InitInv == Init => IInv
<1> SUFFICES ASSUME Init PROVE IInv
  OBVIOUS
<1>1. IsPayload(payload) /\ phase = "validating" /\ todo = {} /\ rollup = NoRollup
  BY CostRollupAssumption DEF Init
<1>2. DOMAIN projection = {}
  BY DEF Init, Empty
<1>3. IsResult(NoRollup) /\ NoRollup.root = NoEvent
  BY DEF NoRollup, IsResult, Partial, Empty
<1>4. TypeOK
  BY <1>1, <1>2, <1>3 DEF TypeOK, Phases
<1> QED BY <1>1, <1>2, <1>4 DEF IInv

\* The phase and the queue change only.
LEMMA PhaseStep ==
  ASSUME IInv, Validate \/ Publish \/ Commit
  PROVE  IInv'
<1>1. payload' = payload /\ rollup' = rollup /\ projection' = projection
  BY DEF Validate, Publish, Commit
<1>2. /\ IsPayload(payload)' /\ (Accepted' <=> Accepted) /\ Roots' = Roots
      /\ rollup'.root \in Events \cup {NoEvent} /\ IsResult(rollup)'
      /\ rollup' = NoRollup \/ ResultOK(rollup)'
      /\ \A r \in DOMAIN projection' :
            /\ r \in Finished /\ projection'[r].root = r
            /\ IsResult(projection[r])' /\ ResultOK(projection[r])'
            /\ DOMAIN projection'[r].accumulated = projection'[r].events
  BY <1>1, KeptLemma
<1>3. /\ phase' \in Phases /\ phase' # "publish_failed"
      /\ phase' \in {"approved", "publishing", "published"} => Accepted
      /\ todo' \subseteq Roots /\ todo' \subseteq Finished
      /\ phase' # "publishing" => todo' = {} /\ rollup' = NoRollup
  <2>1. Roots \subseteq Finished
    BY DEF Roots
  <2>2. CASE Validate
    BY <2>2 DEF Validate, IInv, TypeOK, Phases
  <2>3. CASE Publish
    BY <2>1, <2>3 DEF Publish, IInv, TypeOK, Phases
  <2>4. CASE Commit
    BY <2>4 DEF Commit, IInv, TypeOK, Phases
  <2> QED BY <2>2, <2>3, <2>4
<1>4. TypeOK'
  BY <1>2, <1>3 DEF TypeOK
<1>5. DOMAIN projection' # {} => Accepted'
  BY <1>1, <1>2 DEF IInv
<1> QED BY <1>2, <1>3, <1>4, <1>5 DEF IInv

\* A new value of the roll-up in progress.
LEMMA RollupStep ==
  ASSUME IInv, phase = "publishing", NEW s, ResultOK(s),
         rollup' = s, UNCHANGED <<payload, phase, todo, projection>>
  PROVE  IInv'
<1>1. /\ IsPayload(payload)' /\ (Accepted' <=> Accepted) /\ Roots' = Roots
  BY FrameLemma DEF IInv, TypeOK, IsPayload, Partial
<1>2. ResultOK(s)' /\ (\A p : ResultOK(p)' <=> ResultOK(p))
  BY FrameResult
<1>3. ResultOK(rollup)' /\ IsResult(rollup)' /\ rollup'.root \in Events
  <2>1. ResultOK(rollup)'
    BY <1>2
  <2>2. s.root \in Events /\ IsResult(s)
    BY CostRollupAssumption DEF ResultOK, Begun, Roots
  <2> QED BY <2>1, <2>2 DEF IsResult, Partial
<1>4. \A r \in DOMAIN projection : ResultOK(projection[r])'
  <2> SUFFICES ASSUME NEW r \in DOMAIN projection PROVE ResultOK(projection[r])'
    OBVIOUS
  <2>1. PICK p : p = projection[r]
    OBVIOUS
  <2>2. ResultOK(p) /\ projection'[r] = p
    BY <2>1 DEF IInv
  <2> QED BY <1>2, <2>2
<1>5. TypeOK'
  BY <1>1, <1>3 DEF IInv, TypeOK, IsResult, Partial
<1> QED BY <1>1, <1>3, <1>4, <1>5 DEF IInv

\* Validation leaves nothing on which a roll-up could fail to begin.
LEMMA BeginStep == ASSUME IInv, NEW e \in Events, Begin(e) PROVE IInv'
<1>1. /\ phase = "publishing" /\ rollup = NoRollup /\ e \in Roots
      /\ Accepted /\ IsPayload(payload)
  BY DEF Begin, IInv, TypeOK
<1>2. Needed(e) \subseteq Events /\ NoEvent \notin Needed(e) /\ ~Cyclic(Needed(e))
  BY <1>1, NeededLemma
<1> DEFINE s == [NoRollup EXCEPT !.root = e, !.events = Needed(e),
                                 !.edges = Within(Needed(e))]
<1>3. rollup' = s /\ UNCHANGED <<payload, phase, todo, projection>>
  BY <1>2 DEF Begin
<1>5. /\ s.root = e /\ s.events = Needed(e) /\ s.edges = Within(Needed(e))
      /\ s.accumulated = Empty /\ s.allocated = Empty /\ Shaped(s)
  <2>1. PICK n, N, W, o : /\ n = NoRollup /\ N = Needed(e) /\ W = Within(N)
                          /\ o = [n EXCEPT !.root = e, !.events = N, !.edges = W]
    OBVIOUS
  <2>2. n = [root |-> NoEvent, events |-> {}, edges |-> {},
             accumulated |-> Empty, allocated |-> Empty]
    BY <2>1 DEF NoRollup
  <2>3. o = s
    BY <2>1
  <2> HIDE DEF s
  <2>4. /\ o.root = e /\ o.events = N /\ o.edges = W
        /\ o.accumulated = Empty /\ o.allocated = Empty
    BY <2>1, <2>2
  <2>5. o = [root |-> o.root, events |-> o.events, edges |-> o.edges,
             accumulated |-> o.accumulated, allocated |-> o.allocated]
    BY <2>1, <2>2
  <2> QED BY <2>1, <2>3, <2>4, <2>5 DEF Shaped
<1> HIDE DEF s
<1>6. DOMAIN Empty = {} /\ Empty \in [{} -> Int]
  BY DEF Empty
<1>7. Within(Needed(e)) \subseteq Inputs
  BY <1>1, AcceptedLemma DEF Within
<1>8. IsResult(s)
  BY <1>2, <1>5, <1>6, <1>7 DEF IsResult, Partial
<1>9. ResultOK(s)
  BY <1>1, <1>5, <1>6, <1>8 DEF ResultOK, Begun
<1> QED BY <1>1, <1>3, <1>9, RollupStep

\* Nor one on which an event could fail.
LEMMA RollUpStep == ASSUME IInv, NEW e \in Events, RollUp(e) PROVE IInv'
<1>1. rollup.root \in Events /\ e \in rollup.events \ DOMAIN rollup.accumulated /\ Ready(e)
  BY DEF RollUp
<1>2. rollup # NoRollup
  BY <1>1, CostRollupAssumption DEF NoRollup
<1>3. phase = "publishing" /\ Accepted /\ IsPayload(payload) /\ ResultOK(rollup)
  BY <1>2 DEF IInv, TypeOK
<1> DEFINE out == OutOf(e, rollup.edges)
           cost == payload.lots[e].amount
                     + SumFunctionOnSet(rollup.allocated, Into(e, rollup.edges))
           shares == Allocate(cost, Qualified(e), [i \in out |-> Consumed(i)])
           s == With(rollup, e, cost, out, shares)
<1>4. ~(out # {} /\ Qualified(e) <= 0) /\ ~(Used(e, out) > Qualified(e))
  <2>1. rollup.edges \subseteq Edges
    BY <1>3 DEF ResultOK, Begun, Within
  <2>2. /\ Used(e, rollup.edges) \in Int /\ Used(e, rollup.edges) <= Qualified(e)
        /\ Used(e, OutOf(e, rollup.edges)) = Used(e, rollup.edges)
        /\ OutOf(e, rollup.edges) # {} => Qualified(e) > 0
    BY <1>3, <2>1, UsedLemma
  <2>3. Qualified(e) \in Int
    BY <1>3, AcceptedLemma
  <2> QED BY <2>2, <2>3
<1>5. rollup' = s /\ UNCHANGED <<payload, phase, todo, projection>>
  BY <1>4 DEF RollUp, Inherited, With
<1>6. ResultOK(s)
  <2>1. \A i \in Into(e, rollup.edges) : Source(i) \in DOMAIN rollup.accumulated
    BY <1>1 DEF Ready
  <2>2. PICK r, c, o, h : r = rollup /\ c = cost /\ o = out /\ h = shares
    OBVIOUS
  <2>3. ResultOK(r) /\ e \in r.events \ DOMAIN r.accumulated
        /\ (\A i \in Into(e, r.edges) : Source(i) \in DOMAIN r.accumulated)
    BY <1>1, <1>3, <2>1, <2>2
  <2>4. c = payload.lots[e].amount + SumFunctionOnSet(r.allocated, Into(e, r.edges))
        /\ o = OutOf(e, r.edges) /\ h = Allocate(c, Qualified(e), [i \in o |-> Consumed(i)])
    BY <2>2
  <2>5. PICK t : t = With(r, e, c, o, h)
    OBVIOUS
  <2>6. ResultOK(t)
    BY <1>3, <2>3, <2>4, <2>5, RollUpLemma
  <2>7. t = s
    BY <2>2, <2>5
  <2> QED BY <2>6, <2>7
<1> HIDE DEF s
<1>7. PICK t : t = s
  OBVIOUS
<1> QED BY <1>3, <1>5, <1>6, <1>7, RollupStep

\* Nor one of which the contract would refuse the result.
LEMMA ProjectStep == ASSUME IInv, Project PROVE IInv'
<1>1. rollup.root \in Events /\ DOMAIN rollup.accumulated = rollup.events
  BY DEF Project
<1>2. rollup # NoRollup
  BY <1>1, CostRollupAssumption DEF NoRollup
<1>3. phase = "publishing" /\ Accepted /\ IsPayload(payload) /\ ResultOK(rollup)
  BY <1>2 DEF IInv, TypeOK
<1>4. Presentable
  <2>1. ASSUME NEW e \in DOMAIN rollup.accumulated
        PROVE  /\ Qualified(e) >= 0 /\ payload.lots[e].defective >= 0
               /\ Completed(e) > 0
               /\ payload.lots[e].amount >= 0 /\ rollup.accumulated[e] >= 0
    <3>1. e \in Events
      BY <1>1, <2>1 DEF IInv, TypeOK, IsResult
    <3>2. rollup.accumulated[e] >= 0
      BY <1>3, <2>1 DEF ResultOK, Begun
    <3> QED BY <1>3, <3>1, <3>2, AcceptedLemma
  <2>2. ASSUME NEW i \in DOMAIN rollup.allocated
        PROVE  Consumed(i) > 0 /\ rollup.allocated[i] >= 0
    <3>1. i \in Edges /\ rollup.allocated[i] >= 0
      BY <1>3, <2>2 DEF ResultOK, Begun, Within
    <3> QED BY <1>3, <3>1, AcceptedLemma
  <2> QED BY <2>1, <2>2 DEF Presentable
<1>5. /\ projection' = [r \in DOMAIN projection \cup {rollup.root} |->
                          IF r = rollup.root THEN rollup ELSE projection[r]]
      /\ todo' = todo \ {rollup.root} /\ rollup' = NoRollup
      /\ payload' = payload /\ phase' = phase
  BY <1>4 DEF Project
<1>6. /\ IsPayload(payload)' /\ (Accepted' <=> Accepted) /\ Roots' = Roots
      /\ \A p : ResultOK(p)' <=> ResultOK(p)
  BY <1>5, FrameLemma, FrameResult DEF IInv, TypeOK, IsPayload, Partial
<1>7. NoRollup' = NoRollup /\ IsResult(NoRollup) /\ NoRollup.root = NoEvent
  BY DEF NoRollup, Empty, IsResult, Partial
<1>8. ASSUME NEW r \in DOMAIN projection'
      PROVE  \E p : /\ p = projection'[r] /\ r \in Finished /\ p.root = r
                    /\ ResultOK(p) /\ IsResult(p) /\ DOMAIN p.accumulated = p.events
  <2>1. CASE r = rollup.root
    <3>1. projection'[r] = rollup
      BY <1>5, <2>1
    <3>2. IsResult(rollup) /\ r \in Finished
      BY <1>3, <2>1 DEF ResultOK, Begun, Roots
    <3> QED BY <1>1, <1>3, <2>1, <3>1, <3>2
  <2>2. CASE r # rollup.root
    <3>1. r \in DOMAIN projection /\ projection'[r] = projection[r]
      BY <1>5, <1>8, <2>2
    <3> QED BY <3>1 DEF IInv, TypeOK
  <2> QED BY <2>1, <2>2
<1>9. ASSUME NEW r \in DOMAIN projection'
      PROVE  /\ r \in Finished /\ projection'[r].root = r
             /\ IsResult(projection[r])' /\ ResultOK(projection[r])'
             /\ DOMAIN projection'[r].accumulated = projection'[r].events
  <2>1. PICK p : /\ p = projection'[r] /\ r \in Finished /\ p.root = r
                 /\ ResultOK(p) /\ IsResult(p) /\ DOMAIN p.accumulated = p.events
    BY <1>8, <1>9
  <2>2. ResultOK(p)'
    BY <1>6, <2>1
  <2> QED BY <2>1, <2>2 DEF IsResult, Partial
<1>10. TypeOK'
  BY <1>5, <1>6, <1>7, <1>9 DEF IInv, TypeOK, IsResult, Partial
<1> QED BY <1>3, <1>5, <1>6, <1>7, <1>9, <1>10 DEF IInv

\* Nothing changes.
LEMMA StutterStep == ASSUME IInv, UNCHANGED vars PROVE IInv'
<1>1. /\ payload' = payload /\ rollup' = rollup /\ projection' = projection
      /\ phase' = phase /\ todo' = todo
  BY DEF vars
<1>2. /\ IsPayload(payload)' /\ (Accepted' <=> Accepted) /\ Roots' = Roots
      /\ rollup'.root \in Events \cup {NoEvent} /\ IsResult(rollup)'
      /\ rollup' = NoRollup \/ ResultOK(rollup)'
      /\ \A r \in DOMAIN projection' :
            /\ r \in Finished /\ projection'[r].root = r
            /\ IsResult(projection[r])' /\ ResultOK(projection[r])'
            /\ DOMAIN projection'[r].accumulated = projection'[r].events
  BY <1>1, KeptLemma
<1>3. TypeOK'
  BY <1>1, <1>2 DEF IInv, TypeOK
<1> QED BY <1>1, <1>2, <1>3 DEF IInv

\* Every step keeps it.
LEMMA NextInv == IInv /\ [Next]_vars => IInv'
<1> SUFFICES ASSUME IInv, [Next]_vars PROVE IInv'
  OBVIOUS
<1>1. CASE Validate \/ Publish \/ Commit
  BY <1>1, PhaseStep
<1>2. CASE Project
  BY <1>2, ProjectStep
<1>3. ASSUME NEW e \in Events, Begin(e) PROVE IInv'
  BY <1>3, BeginStep
<1>4. ASSUME NEW e \in Events, RollUp(e) PROVE IInv'
  BY <1>4, RollUpStep
<1>5. CASE Over \/ UNCHANGED vars
  BY <1>5, StutterStep DEF Over
<1> QED BY <1>1, <1>2, <1>3, <1>4, <1>5 DEF Next

\* It is an invariant.
LEMMA Invariant == Spec => []IInv
<1> QED BY InitInv, NextInv, PTL DEF Spec

\* The cost of the events, each cent once: what the edges carry away from one
\* event they carry into another.
LEMMA WholeLemma ==
  ASSUME IsPayload(payload), Accepted, NEW p, ResultOK(p),
         DOMAIN p.accumulated = p.events,
         \A e \in p.events \ {p.root} : Exhausted(e, p.edges)
  PROVE  p.accumulated[p.root]
            = SumFunctionOnSet([e \in Events |-> payload.lots[e].amount], p.events)
<1>1. PICK N, E, root, acc, all :
         /\ N = p.events /\ E = p.edges /\ root = p.root
         /\ acc = p.accumulated /\ all = p.allocated
  OBVIOUS
<1>2. /\ root \in Roots /\ N = Needed(root) /\ E = Within(N) /\ DOMAIN acc = N
      /\ DOMAIN all = {i \in E : Source(i) \in N}
      /\ \A e \in N : acc[e] \in Int
      /\ \A i \in DOMAIN all : all[i] \in Int
  BY <1>1 DEF ResultOK, Begun
<1>3. root \in Events /\ OutOf(root, Edges) = {}
  BY <1>2, CostRollupAssumption DEF Roots
<1>4. N \subseteq Events /\ root \in N /\ IsFiniteSet(N)
  BY <1>2, <1>3, NeededLemma, CostRollupAssumption, FS_Subset
<1>5. /\ E \subseteq Edges /\ IsFiniteSet(E)
      /\ \A i \in E : Source(i) \in N /\ Target(i) \in N /\ all[i] \in Int
  BY <1>2, AcceptedLemma, FS_Subset DEF Within
<1> DEFINE amount == [e \in Events |-> payload.lots[e].amount]
           into == [e \in N |-> Into(e, E)]
           outOf == [e \in N |-> OutOf(e, E)]
           in == [e \in N |-> SumFunctionOnSet(all, into[e])]
           out == [e \in N |-> SumFunctionOnSet(all, outOf[e])]
           target == [i \in E |-> Target(i)]
           source == [i \in E |-> Source(i)]
<1>6. /\ \A e \in N : amount[e] \in Int /\ amount[e] = payload.lots[e].amount
      /\ \A e \in N : acc[e] = amount[e] + in[e]
      /\ \A e \in N : e # root => out[e] = acc[e]
      /\ outOf[root] = {}
  <2>1. ASSUME NEW e \in N
        PROVE  amount[e] \in Int /\ amount[e] = payload.lots[e].amount
    BY <1>4, AcceptedLemma
  <2>2. ASSUME NEW e \in N PROVE acc[e] = amount[e] + in[e]
    <3>1. acc[e] = payload.lots[e].amount + SumFunctionOnSet(all, Into(e, E))
      BY <1>1 DEF ResultOK, Rolled
    <3> QED BY <2>1, <3>1
  <2>3. ASSUME NEW e \in N, e # root PROVE out[e] = acc[e]
    <3>1. Exhausted(e, E)
      BY <1>1, <2>3
    <3>2. SumFunctionOnSet(all, OutOf(e, E)) = acc[e]
      BY <1>1, <3>1 DEF ResultOK, Rolled
    <3> QED BY <3>2
  <2>4. outOf[root] = {}
    BY <1>3, <1>4, <1>5 DEF OutOf
  <2> QED BY <2>1, <2>2, <2>3, <2>4
<1>7. /\ Grouped(into, target, E, N) /\ Grouped(outOf, source, E, N)
  <2>1. Grouped(into, target, E, N)
    BY <1>5 DEF Grouped, Into
  <2>2. Grouped(outOf, source, E, N)
    BY <1>5 DEF Grouped, OutOf
  <2> QED BY <2>1, <2>2
<1>8. /\ \A e \in N : in[e] = SumFunctionOnSet(all, into[e])
      /\ \A e \in N : out[e] = SumFunctionOnSet(all, outOf[e])
  OBVIOUS
<1>9. ASSUME NEW e \in N PROVE in[e] \in Int /\ out[e] \in Int
  <2>1. PICK I, O : I = into[e] /\ O = outOf[e]
    OBVIOUS
  <2>2. /\ IsFiniteSet(I) /\ \A i \in I : all[i] \in Int
        /\ IsFiniteSet(O) /\ \A i \in O : all[i] \in Int
    BY <1>5, <2>1, FS_Subset DEF Into, OutOf
  <2>3. SumFunctionOnSet(all, I) \in Int /\ SumFunctionOnSet(all, O) \in Int
    BY <2>2, SumType
  <2> QED BY <2>1, <2>3
<1> HIDE DEF amount, into, outOf, in, out, target, source
<1>10. SumFunctionOnSet(in, N) = SumFunctionOnSet(all, E)
  BY <1>4, <1>5, <1>7, <1>8, SumGroups
<1>11. SumFunctionOnSet(out, N) = SumFunctionOnSet(all, E)
  BY <1>4, <1>5, <1>7, <1>8, SumGroups
<1>12. SumFunctionOnSet(acc, N) = SumFunctionOnSet(amount, N) + SumFunctionOnSet(in, N)
  <2>1. PICK u \in Int, w \in Int : u = 1 /\ w = 1
    OBVIOUS
  <2>2. Combines(acc, u, amount, w, in, N)
    BY <1>6, <1>9, <2>1 DEF Combines
  <2>3. SumFunctionOnSet(acc, N)
           = u * SumFunctionOnSet(amount, N) + w * SumFunctionOnSet(in, N)
    BY <1>4, <2>2, SumLinear
  <2>4. SumFunctionOnSet(amount, N) \in Int /\ SumFunctionOnSet(in, N) \in Int
    BY <1>4, <1>6, <1>9, SumType
  <2> QED BY <2>1, <2>3, <2>4
<1>13. PICK M : M = N \ {root}
  OBVIOUS
<1>14. SumFunctionOnSet(out, M) = SumFunctionOnSet(acc, M)
  <2>1. IsFiniteSet(M) /\ \A e \in M : out[e] = acc[e]
    BY <1>4, <1>6, <1>13, FS_Subset
  <2> QED BY <2>1, SumSame
<1>15. SumFunctionOnSet(acc, N) = acc[root] + SumFunctionOnSet(acc, M)
  BY <1>2, <1>4, <1>13, SumSplit
<1>16. SumFunctionOnSet(out, N) = SumFunctionOnSet(out, M)
  <2>1. SumFunctionOnSet(out, N) = out[root] + SumFunctionOnSet(out, M)
    BY <1>4, <1>9, <1>13, SumSplit
  <2>2. out[root] = 0
    BY <1>4, <1>6, <1>8, SumEmpty
  <2>3. SumFunctionOnSet(out, M) \in Int
    BY <1>4, <1>9, <1>13, FS_Subset, SumType
  <2> QED BY <2>1, <2>2, <2>3
<1>17. SumFunctionOnSet(acc, M) \in Int /\ SumFunctionOnSet(amount, N) \in Int
  BY <1>2, <1>4, <1>6, <1>13, FS_Subset, SumType
<1>18. SumFunctionOnSet(all, E) \in Int
  BY <1>5, SumType
<1>19. acc[root] = SumFunctionOnSet(amount, N)
  <2>1. acc[root] \in Int
    BY <1>2, <1>4
  <2> QED BY <1>10, <1>11, <1>12, <1>14, <1>15, <1>16, <1>17, <1>18, <2>1
<1> QED BY <1>1, <1>19 DEF amount

-----------------------------------------------------------------------------
(* What follows from it *)

\* All records of an import have their types, those of the roll-up in progress included.
THEOREM TypeCorrect == Spec => []TypeOK
<1>1. IInv => TypeOK
  BY DEF IInv
<1> QED BY <1>1, Invariant, PTL

\* A payload that _validate_records accepts is published: neither the sorter, nor an
\* event without qualified quantity or with too much consumed, nor the contract of the
\* result raises an error.
THEOREM PublicationNeverFails == Spec => []AcceptedNeverFails
<1>1. IInv => AcceptedNeverFails
  BY DEF IInv, AcceptedNeverFails
<1> QED BY <1>1, Invariant, PTL

\* Until all events have their cost, the sorter has one whose sources are done:
\* a roll-up neither waits for ever nor leaves an event out.
SorterGoesOn ==
    rollup.root \in Events /\ DOMAIN rollup.accumulated # rollup.events =>
       \E e \in rollup.events \ DOMAIN rollup.accumulated : Ready(e)

\* The TopologicalSorter of a roll-up that began never runs out of events.
THEOREM SorterIsNeverStuck == Spec => []SorterGoesOn
<1>1. IInv => SorterGoesOn
  <2> SUFFICES ASSUME IInv, rollup.root \in Events,
                      DOMAIN rollup.accumulated # rollup.events
               PROVE  \E e \in rollup.events \ DOMAIN rollup.accumulated : Ready(e)
    BY DEF SorterGoesOn
  <2>1. rollup # NoRollup
    BY CostRollupAssumption DEF NoRollup
  <2>2. phase = "publishing" /\ Accepted /\ IsPayload(payload) /\ ResultOK(rollup)
    BY <2>1 DEF IInv, TypeOK
  <2>3. /\ rollup.events = Needed(rollup.root) /\ rollup.edges = Within(rollup.events)
        /\ DOMAIN rollup.accumulated \subseteq rollup.events
    BY <2>2 DEF ResultOK, Begun, IsResult, Partial
  <2>4. ~Cyclic(rollup.events)
    BY <2>2, <2>3, NeededLemma
  <2>5. PICK E : E = rollup.events \ DOMAIN rollup.accumulated
    OBVIOUS
  <2>6. E \in SUBSET rollup.events /\ E # {}
    BY <2>3, <2>5
  <2>7. PICK e \in E : \A i \in Into(e, Edges) : Source(i) \notin E
    BY <2>4, <2>6 DEF Cyclic
  <2>8. ASSUME NEW i \in Into(e, rollup.edges)
        PROVE  Source(i) \in DOMAIN rollup.accumulated
    <3>1. i \in Into(e, Edges) /\ Source(i) \in rollup.events
      BY <2>3, <2>8 DEF Into, Within
    <3> QED BY <2>5, <2>7, <3>1
  <2> QED BY <2>5, <2>7, <2>8 DEF Ready
<1> QED BY <1>1, Invariant, PTL

\* Every projection solves the equations of the cost graph: the cost of an event is its
\* amount and all it inherits, and a share differs from its exact value by half a cent
\* for every edge of the source at most, however the events were ordered.
THEOREM EquationsSolved == Spec => []ResultSolvesTheEquations
<1>1. IInv => ResultSolvesTheEquations
  <2>1. ASSUME IInv, NEW r \in DOMAIN projection, NEW e \in projection[r].events
        PROVE  Rolled(projection[r], e)
    BY <2>1 DEF IInv, ResultOK
  <2> QED BY <2>1 DEF ResultSolvesTheEquations, Solved, Rolled
<1> QED BY <1>1, Invariant, PTL

\* Shares are never negative, and those of an event that is consumed in full within a
\* projection add up to its cost to the cent.
THEOREM ConsumptionConserves == Spec => []FullConsumptionConserves
<1>1. IInv => FullConsumptionConserves
  <2>1. ASSUME IInv, NEW r \in DOMAIN projection, NEW e \in projection[r].events
        PROVE  LET p == projection[r] IN
               /\ \A i \in OutOf(e, p.edges) : p.allocated[i] >= 0
               /\ Exhausted(e, p.edges) =>
                     SumFunctionOnSet(p.allocated, OutOf(e, p.edges)) = p.accumulated[e]
    <3>1. PICK p : p = projection[r]
      OBVIOUS
    <3>2. ResultOK(p) /\ DOMAIN p.accumulated = p.events /\ e \in p.events
      BY <2>1, <3>1 DEF IInv
    <3>3. \A i \in OutOf(e, p.edges) : p.allocated[i] >= 0
      BY <3>2 DEF ResultOK, Begun, OutOf
    <3>4. Exhausted(e, p.edges) =>
             SumFunctionOnSet(p.allocated, OutOf(e, p.edges)) = p.accumulated[e]
      BY <3>2 DEF ResultOK, Rolled
    <3> QED BY <3>1, <3>3, <3>4
  <2> QED BY <2>1 DEF FullConsumptionConserves
<1> QED BY <1>1, Invariant, PTL

\* A batch that used up all it was made of carries the amounts of all these events, each
\* once, however many paths they have to it.
THEOREM NothingIsLost == Spec => []WholeCostArrives
<1>1. IInv => WholeCostArrives
  <2> SUFFICES ASSUME IInv, NEW r \in DOMAIN projection,
                      \A e \in projection[r].events \ {r} :
                         Exhausted(e, projection[r].edges)
               PROVE  projection[r].accumulated[r]
                         = SumFunctionOnSet([e \in Events |-> payload.lots[e].amount],
                                            projection[r].events)
    BY DEF WholeCostArrives
  <2>1. PICK p : p = projection[r]
    OBVIOUS
  <2>2. ResultOK(p) /\ DOMAIN p.accumulated = p.events /\ p.root = r
    BY <2>1 DEF IInv
  <2>3. IsPayload(payload) /\ Accepted
    BY DEF IInv, TypeOK
  <2> QED BY <2>1, <2>2, <2>3, WholeLemma
<1> QED BY <1>1, Invariant, PTL
=============================================================================
