---------------------------- MODULE SumTheorems -----------------------------
(***************************************************************************)
(* What the sum of a function over a finite set is: the community module's *)
(* MapThenSumSet, in which the models state how the ledger's balances      *)
(* reconcile with the transactions behind them.  The facts follow from its *)
(* recursive definition by taking a minimal counterexample among the       *)
(* finite subsets of a set (WFMin), which needs no induction rule.         *)
(***************************************************************************)
EXTENDS Integers, FiniteSets, FiniteSetsExt, FiniteSetTheorems,
        WellFoundedInduction, TLAPS

\* The sum of f[x] over the elements x of S.
Sum(f, S) == MapThenSumSet(LAMBDA x : f[x], S)

\* The element a set's sum takes first.
First(s) == CHOOSE x \in s : TRUE

\* g holds the sum of every subset of S.
Adds(g, f, S) ==
    g = [s \in SUBSET S |-> IF s = {} THEN 0 ELSE f[First(s)] + g[s \ {First(s)}]]

\* Sum takes its value from such a function.
LEMMA SumDef ==
    ASSUME NEW f, NEW S
    PROVE  Sum(f, S) = (CHOOSE g : Adds(g, f, S))[S]
BY DEF Sum, MapThenSumSet, MapThenFoldSet, Adds, First

\* The first element is one.
LEMMA FirstIn ==
    ASSUME NEW s, s # {}
    PROVE  First(s) \in s
BY DEF First

\* Among finite subsets with a property there is a minimal one.
LEMMA Minimal ==
    ASSUME NEW S, IsFiniteSet(S), NEW T, T \subseteq SUBSET S, T # {}
    PROVE  \E t \in T : \A u \in T : u \subseteq t => u = t
<1>1. T \subseteq FiniteSubsetsOf(S)
  BY FS_Subset DEF FiniteSubsetsOf
<1>2. PICK t \in T : \A u \in T : ~(<<u, t>> \in StrictSubsetOrdering(S))
  BY <1>1, FS_StrictSubsetOrderingWellFounded, WFMin
<1> QED
  BY <1>1, <1>2 DEF StrictSubsetOrdering, FiniteSubsetsOf

\* Two such functions agree wherever both are defined.
LEMMA Agree ==
    ASSUME NEW f, NEW A, NEW B, NEW g, NEW h, Adds(g, f, A), Adds(h, f, B),
           NEW V, V \subseteq A, V \subseteq B, IsFiniteSet(V)
    PROVE  g[V] = h[V]
<1> DEFINE Bad == {s \in SUBSET V : g[s] # h[s]}
<1>1. SUFFICES Bad = {}
  OBVIOUS
<1>2. SUFFICES ASSUME Bad # {} PROVE FALSE
  OBVIOUS
<1>3. PICK s \in Bad : \A u \in Bad : u \subseteq s => u = s
  <2>1. Bad \subseteq SUBSET V
    OBVIOUS
  <2> HIDE DEF Bad
  <2> QED
    BY <1>2, <2>1, Minimal
<1>4. s # {}
  BY DEF Adds
<1>5. g[s \ {First(s)}] = h[s \ {First(s)}]
  BY <1>3, <1>4, FirstIn
<1> QED
  BY <1>4, <1>5 DEF Adds

\* There is one for every finite set.
LEMMA Exists ==
    ASSUME NEW f, NEW S, IsFiniteSet(S)
    PROVE  \E g : Adds(g, f, S)
<1> DEFINE Bad == {s \in SUBSET S : ~ \E g : Adds(g, f, s)}
           H(U) == CHOOSE g : Adds(g, f, U)
<1>1. SUFFICES ASSUME Bad # {} PROVE FALSE
  OBVIOUS
<1>2. PICK T \in Bad : \A u \in Bad : u \subseteq T => u = T
  <2>1. Bad \subseteq SUBSET S
    OBVIOUS
  <2> HIDE DEF Bad
  <2> QED
    BY <1>1, <2>1, Minimal
<1>3. ASSUME NEW U \in SUBSET T, U # T
      PROVE  Adds(H(U), f, U)
  BY <1>2, <1>3
<1>4. ASSUME NEW U \in SUBSET T, U # T, NEW V \in SUBSET U
      PROVE  H(U)[V] = H(V)[V]
  <2>1. Adds(H(U), f, U) /\ Adds(H(V), f, V)
    BY <1>3, <1>4
  <2>2. IsFiniteSet(V)
    BY <1>4, FS_Subset
  <2> HIDE DEF H
  <2> QED
    BY <2>1, <2>2, Agree
<1> DEFINE k == [s \in SUBSET T |->
                    IF s = {} THEN 0
                    ELSE f[First(s)] + H(s \ {First(s)})[s \ {First(s)}]]
<1>5. ASSUME NEW U \in SUBSET T, U # T
      PROVE  H(U)[U] = k[U]
  <2>0. Adds(H(U), f, U)
    BY <1>3, <1>5
  <2>1. CASE U = {}
    <3> HIDE DEF H
    <3> QED
      BY <2>0, <2>1 DEF Adds
  <2>2. CASE U # {}
    <3>1. H(U)[U] = f[First(U)] + H(U)[U \ {First(U)}]
      <4> HIDE DEF H, k
      <4> QED
        BY <2>0, <2>2 DEF Adds
    <3>2. H(U)[U \ {First(U)}] = H(U \ {First(U)})[U \ {First(U)}]
      BY <1>4, <1>5
    <3> HIDE DEF H
    <3> QED
      BY <3>1, <3>2, <2>2
  <2> QED
    BY <2>1, <2>2
<1>6. ASSUME NEW s \in SUBSET T, s # {}
      PROVE  H(s \ {First(s)})[s \ {First(s)}] = k[s \ {First(s)}]
  <2>1. s \ {First(s)} \in SUBSET T /\ s \ {First(s)} # T
    BY <1>6, FirstIn
  <2> HIDE DEF H, k
  <2> QED
    BY <2>1, <1>5
<1>7. k = [s \in SUBSET T |-> IF s = {} THEN 0 ELSE f[First(s)] + k[s \ {First(s)}]]
  <2> HIDE DEF H
  <2> QED
    BY <1>6
<1> QED
  BY <1>2, <1>7 DEF Adds

\* The sum of a subset is what such a function holds for it.
LEMMA SumOfSubset ==
    ASSUME NEW f, NEW S, IsFiniteSet(S), NEW g, Adds(g, f, S), NEW V \in SUBSET S
    PROVE  Sum(f, V) = g[V]
<1>1. IsFiniteSet(V)
  BY FS_Subset
<1>2. Adds(CHOOSE h : Adds(h, f, V), f, V)
  BY <1>1, Exists
<1>3. (CHOOSE h : Adds(h, f, V))[V] = g[V]
  BY <1>1, <1>2, Agree
<1> QED
  BY <1>3, SumDef

\* The sum over no elements.
THEOREM SumEmpty ==
    ASSUME NEW f
    PROVE  Sum(f, {}) = 0
<1>1. IsFiniteSet({})
  BY FS_EmptySet
<1>2. PICK g : Adds(g, f, {})
  BY <1>1, Exists
<1>3. Sum(f, {}) = g[{}]
  BY <1>1, <1>2, SumOfSubset, {} \in SUBSET {}
<1>4. g[{}] = 0
  BY <1>2, {} \in SUBSET {} DEF Adds
<1> QED
  BY <1>3, <1>4

\* What the definition says: the first element and the rest.
LEMMA SumFirst ==
    ASSUME NEW f, NEW S, IsFiniteSet(S), S # {}
    PROVE  Sum(f, S) = f[First(S)] + Sum(f, S \ {First(S)})
<1>1. PICK g : Adds(g, f, S)
  BY Exists
<1>2. Sum(f, S) = g[S]
  BY <1>1, SumOfSubset
<1>3. Sum(f, S \ {First(S)}) = g[S \ {First(S)}]
  BY <1>1, SumOfSubset
<1> QED
  BY <1>1, <1>2, <1>3 DEF Adds

\* A sum of integers is one, and no number below a sum of naturals.
THEOREM SumType ==
    ASSUME NEW S, IsFiniteSet(S), NEW f, \A x \in S : f[x] \in Int
    PROVE  /\ Sum(f, S) \in Int
           /\ (\A x \in S : f[x] >= 0) => Sum(f, S) >= 0
<1> DEFINE Good(T) == Sum(f, T) \in Int /\ ((\A x \in S : f[x] >= 0) => Sum(f, T) >= 0)
           Bad == {T \in SUBSET S : ~Good(T)}
<1>1. SUFFICES ASSUME Bad # {} PROVE FALSE
  OBVIOUS
<1>2. PICK T \in Bad : \A u \in Bad : u \subseteq T => u = T
  <2>1. Bad \subseteq SUBSET S
    OBVIOUS
  <2> HIDE DEF Bad
  <2> QED
    BY <1>1, <2>1, Minimal
<1>3. T # {}
  BY SumEmpty
<1>4. First(T) \in T /\ IsFiniteSet(T) /\ f[First(T)] \in Int
  BY <1>3, FirstIn, FS_Subset
<1>5. Good(T \ {First(T)})
  BY <1>2, <1>4
<1>6. Sum(f, T) = f[First(T)] + Sum(f, T \ {First(T)})
  BY <1>3, <1>4, SumFirst
<1> QED
  BY <1>4, <1>5, <1>6

\* Any element may be taken first.
THEOREM SumRemove ==
    ASSUME NEW S, IsFiniteSet(S), NEW f, \A x \in S : f[x] \in Int, NEW x \in S
    PROVE  Sum(f, S) = f[x] + Sum(f, S \ {x})
<1> DEFINE Good(T) == \A y \in T : Sum(f, T) = f[y] + Sum(f, T \ {y})
           Bad == {T \in SUBSET S : ~Good(T)}
<1>1. SUFFICES ASSUME Bad # {} PROVE FALSE
  OBVIOUS
<1>2. PICK T \in Bad : \A u \in Bad : u \subseteq T => u = T
  <2>1. Bad \subseteq SUBSET S
    OBVIOUS
  <2> HIDE DEF Bad
  <2> QED
    BY <1>1, <2>1, Minimal
<1>3. PICK y \in T : Sum(f, T) # f[y] + Sum(f, T \ {y})
  OBVIOUS
<1> DEFINE z == First(T)
<1>4. z \in T /\ IsFiniteSet(T) /\ f[z] \in Int /\ f[y] \in Int
  BY FirstIn, FS_Subset
<1>5. Sum(f, T) = f[z] + Sum(f, T \ {z})
  BY <1>4, SumFirst
<1>6. y # z
  BY <1>3, <1>5
<1> HIDE DEF z
<1>7. Good(T \ {z}) /\ Good(T \ {y})
  BY <1>2, <1>4
<1>8. Sum(f, T \ {z}) = f[y] + Sum(f, (T \ {z}) \ {y})
  BY <1>6, <1>7
<1>9. Sum(f, T \ {y}) = f[z] + Sum(f, (T \ {y}) \ {z})
  BY <1>4, <1>6, <1>7
<1>10. (T \ {z}) \ {y} = (T \ {y}) \ {z}
  OBVIOUS
<1>11. Sum(f, (T \ {y}) \ {z}) \in Int
  <2>1. IsFiniteSet((T \ {y}) \ {z}) /\ (T \ {y}) \ {z} \subseteq S
    BY <1>4, FS_Subset
  <2> QED
    BY <2>1, SumType
<1>12. Sum(f, (T \ {z}) \ {y}) = Sum(f, (T \ {y}) \ {z})
  BY <1>10, Zenon
<1> QED
  BY <1>3, <1>4, <1>5, <1>8, <1>9, <1>11, <1>12

\* An element more.
THEOREM SumAdd ==
    ASSUME NEW S, IsFiniteSet(S), NEW x, x \notin S, NEW f,
           \A y \in S \union {x} : f[y] \in Int
    PROVE  Sum(f, S \union {x}) = Sum(f, S) + f[x]
<1>1. IsFiniteSet(S \union {x}) /\ (S \union {x}) \ {x} = S
  BY FS_AddElement
<1>2. Sum(f, S \union {x}) = f[x] + Sum(f, (S \union {x}) \ {x})
  BY <1>1, SumRemove
<1>3. Sum(f, S) \in Int /\ f[x] \in Int
  BY SumType
<1>4. Sum(f, (S \union {x}) \ {x}) = Sum(f, S)
  BY <1>1, Zenon
<1> QED
  BY <1>2, <1>3, <1>4

\* The sum depends on the function's values on the set alone.
THEOREM SumSame ==
    ASSUME NEW S, IsFiniteSet(S), NEW f, NEW h, \A x \in S : f[x] = h[x]
    PROVE  Sum(f, S) = Sum(h, S)
<1> DEFINE Bad == {T \in SUBSET S : Sum(f, T) # Sum(h, T)}
<1>1. SUFFICES ASSUME Bad # {} PROVE FALSE
  OBVIOUS
<1>2. PICK T \in Bad : \A u \in Bad : u \subseteq T => u = T
  <2>1. Bad \subseteq SUBSET S
    OBVIOUS
  <2> HIDE DEF Bad
  <2> QED
    BY <1>1, <2>1, Minimal
<1>3. T # {}
  BY SumEmpty
<1>4. First(T) \in T /\ IsFiniteSet(T)
  BY <1>3, FirstIn, FS_Subset
<1>5. Sum(f, T \ {First(T)}) = Sum(h, T \ {First(T)})
  BY <1>2, <1>4
<1> QED
  BY <1>3, <1>4, <1>5, SumFirst

\* Equal terms add up to their number times their value.
THEOREM SumConstant ==
    ASSUME NEW S, IsFiniteSet(S), NEW c \in Int, NEW f, \A x \in S : f[x] = c
    PROVE  Sum(f, S) = Cardinality(S) * c
<1> DEFINE Bad == {T \in SUBSET S : Sum(f, T) # Cardinality(T) * c}
<1>1. SUFFICES ASSUME Bad # {} PROVE FALSE
  OBVIOUS
<1>2. PICK T \in Bad : \A u \in Bad : u \subseteq T => u = T
  <2>1. Bad \subseteq SUBSET S
    OBVIOUS
  <2> HIDE DEF Bad
  <2> QED
    BY <1>1, <2>1, Minimal
<1>3. T # {}
  BY SumEmpty, FS_EmptySet
<1>4. First(T) \in T /\ IsFiniteSet(T) /\ f[First(T)] = c
  BY <1>3, FirstIn, FS_Subset
<1>5. Sum(f, T \ {First(T)}) = Cardinality(T \ {First(T)}) * c
  BY <1>2, <1>4
<1>6. Cardinality(T \ {First(T)}) = Cardinality(T) - 1 /\ Cardinality(T) \in Nat
  BY <1>4, FS_RemoveElement, FS_CardinalityType
<1>7. c + (Cardinality(T) - 1) * c = Cardinality(T) * c
  BY <1>6
<1>8. Sum(f, T) = c + (Cardinality(T) - 1) * c
  BY <1>3, <1>4, <1>5, <1>6, SumFirst
<1> QED
  BY <1>7, <1>8

\* Terms that do not exceed their parts c * w[x] / d of c do not add up to more
\* than the same part of c of the weights' sum.
THEOREM SumScaled ==
    ASSUME NEW S, IsFiniteSet(S), NEW c \in Nat, NEW d \in Nat, NEW f, NEW w,
           \A x \in S : f[x] \in Int /\ w[x] \in Int /\ d * f[x] <= c * w[x]
    PROVE  d * Sum(f, S) <= c * Sum(w, S)
<1> DEFINE Bad == {T \in SUBSET S : ~(d * Sum(f, T) <= c * Sum(w, T))}
<1>1. SUFFICES ASSUME Bad # {} PROVE FALSE
  OBVIOUS
<1>2. PICK T \in Bad : \A u \in Bad : u \subseteq T => u = T
  <2>1. Bad \subseteq SUBSET S
    OBVIOUS
  <2> HIDE DEF Bad
  <2> QED
    BY <1>1, <2>1, Minimal
<1>3. T # {}
  <2>1. Sum(f, {}) = 0 /\ Sum(w, {}) = 0 /\ d * 0 <= c * 0
    BY SumEmpty
  <2> QED
    BY <2>1
<1> DEFINE z == First(T)
           R == T \ {z}
<1>4. z \in T /\ z \in S /\ IsFiniteSet(T) /\ IsFiniteSet(R) /\ R \in SUBSET S
  BY <1>3, FirstIn, FS_Subset
<1>5. d * Sum(f, R) <= c * Sum(w, R)
  BY <1>2, <1>4
<1>6. Sum(f, T) = f[z] + Sum(f, R) /\ Sum(w, T) = w[z] + Sum(w, R)
  BY <1>3, <1>4, SumFirst
<1>7. Sum(f, R) \in Int /\ Sum(w, R) \in Int /\ f[z] \in Int /\ w[z] \in Int
  BY <1>4, SumType
<1>8. d * f[z] <= c * w[z]
  BY <1>4
<1>9. ASSUME NEW p \in Int, NEW q \in Int, NEW u \in Int, NEW v \in Int,
             d * p <= c * u, d * q <= c * v
      PROVE  d * (p + q) <= c * (u + v)
  <2>1. d * (p + q) = d * p + d * q /\ c * (u + v) = c * u + c * v
    OBVIOUS
  <2>2. d * p \in Int /\ d * q \in Int /\ c * u \in Int /\ c * v \in Int
    OBVIOUS
  <2> QED
    BY <1>9, <2>1, <2>2
<1>10. d * Sum(f, T) <= c * Sum(w, T)
  <2> HIDE DEF z, R
  <2> QED
    BY <1>5, <1>6, <1>7, <1>8, <1>9
<1> QED
  BY <1>10

\* A set with no smaller values has no smaller sum.
THEOREM SumSubset ==
    ASSUME NEW S, IsFiniteSet(S), NEW f, \A x \in S : f[x] \in Int /\ f[x] >= 0,
           NEW T \in SUBSET S
    PROVE  Sum(f, T) <= Sum(f, S)
<1> DEFINE Bad == {U \in SUBSET S : ~(Sum(f, T) <= Sum(f, T \union U))}
<1>0. SUFFICES Bad = {}
  BY T \union S = S
<1>1. SUFFICES ASSUME Bad # {} PROVE FALSE
  OBVIOUS
<1>2. PICK U \in Bad : \A u \in Bad : u \subseteq U => u = U
  <2>1. Bad \subseteq SUBSET S
    OBVIOUS
  <2> HIDE DEF Bad
  <2> QED
    BY <1>1, <2>1, Minimal
<1>3. Sum(f, T) \in Int
  BY SumType, FS_Subset
<1>4. ~(U \subseteq T)
  <2>1. U \subseteq T => T \union U = T
    OBVIOUS
  <2> QED
    BY <2>1, <1>3
<1>5. PICK x \in U : x \notin T
  BY <1>4
<1>6. Sum(f, T) <= Sum(f, T \union (U \ {x}))
  BY <1>2, <1>5
<1>7. T \union U = (T \union (U \ {x})) \union {x} /\ x \notin T \union (U \ {x})
  BY <1>5
<1>8. IsFiniteSet(T \union (U \ {x})) /\ T \union (U \ {x}) \subseteq S /\ x \in S
  BY FS_Subset
<1>9. Sum(f, T \union U) = Sum(f, T \union (U \ {x})) + f[x]
  BY <1>7, <1>8, SumAdd
<1>10. Sum(f, T \union (U \ {x})) \in Int /\ f[x] \in Int /\ f[x] >= 0
  BY <1>8, SumType
<1> QED
  BY <1>3, <1>6, <1>9, <1>10
=============================================================================
