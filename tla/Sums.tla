--------------------------------- MODULE Sums ----------------------------------
(***************************************************************************)
(* Sums over finite sets: what SumFunctionOnSet of the community modules,  *)
(* a fold, returns.  The library's theorems of induction take an operator, *)
(* so each fact is proved on a smallest set that would break it.           *)
(***************************************************************************)
EXTENDS Integers, FiniteSets, Functions, FiniteSetTheorems, TLAPS

LEMMA SmallestBreaks ==
  ASSUME NEW S, IsFiniteSet(S), NEW Bad \in SUBSET SUBSET S, Bad # {}
  PROVE  \E T \in Bad : /\ T \subseteq S /\ IsFiniteSet(T)
                        /\ \A U \in Bad : U \subseteq T => U = T
<1>1. Bad \subseteq FiniteSubsetsOf(S)
  BY FS_Subset DEF FiniteSubsetsOf
<1>2. PICK T \in Bad : \A U \in Bad : ~(<<U, T>> \in StrictSubsetOrdering(S))
  BY <1>1, FS_StrictSubsetOrderingWellFounded, WFMin
<1>3. QED
  BY <1>1, <1>2 DEF StrictSubsetOrdering, FiniteSubsetsOf

Pick(s) == CHOOSE x \in s : TRUE
SumsTo(f, g, S) ==
  g = [s \in SUBSET S |-> IF s = {} THEN 0 ELSE f[Pick(s)] + g[s \ {Pick(s)}]]

LEMMA PickIn == \A s : s # {} => Pick(s) \in s
  BY DEF Pick

LEMMA SumsAreUnique ==
  ASSUME NEW f, NEW S, IsFiniteSet(S), NEW T \in SUBSET S,
         NEW g, SumsTo(f, g, S), NEW h, SumsTo(f, h, T)
  PROVE  \A s \in SUBSET T : g[s] = h[s]
<1> DEFINE Bad == {s \in SUBSET T : g[s] # h[s]}
<1>1. SUFFICES ASSUME Bad # {} PROVE FALSE
  OBVIOUS
<1>2. PICK s \in Bad : \A u \in Bad : u \subseteq s => u = s
  <2>1. Bad \in SUBSET SUBSET S
    OBVIOUS
  <2> HIDE DEF Bad
  <2>2. QED
    BY <1>1, <2>1, SmallestBreaks
<1>3. s # {}
  BY <1>2 DEF SumsTo
<1>4. Pick(s) \in s /\ s \ {Pick(s)} \in SUBSET T /\ s \ {Pick(s)} \notin Bad
  BY <1>2, <1>3, PickIn
<1>5. g[s \ {Pick(s)}] = h[s \ {Pick(s)}]
  BY <1>4
<1>6. g[s] = f[Pick(s)] + g[s \ {Pick(s)}] /\ h[s] = f[Pick(s)] + h[s \ {Pick(s)}]
  BY <1>2, <1>3 DEF SumsTo
<1>7. QED
  BY <1>2, <1>5, <1>6

LEMMA SumsExist ==
  ASSUME NEW f, NEW S, IsFiniteSet(S)
  PROVE  \E g : SumsTo(f, g, S)
<1> DEFINE Bad == {s \in SUBSET S : \A g : ~SumsTo(f, g, s)}
<1>1. SUFFICES ASSUME Bad # {} PROVE FALSE
  OBVIOUS
<1>2. PICK T \in Bad : T \subseteq S /\ IsFiniteSet(T) /\ \A u \in Bad : u \subseteq T => u = T
  <2>1. Bad \in SUBSET SUBSET S
    OBVIOUS
  <2> HIDE DEF Bad
  <2>2. QED
    BY <1>1, <2>1, SmallestBreaks
<1> DEFINE h(u) == CHOOSE g : SumsTo(f, g, u)
           sum == [s \in SUBSET T |->
                     IF s = {} THEN 0
                     ELSE f[Pick(s)] + h(s \ {Pick(s)})[s \ {Pick(s)}]]
<1>3. ASSUME NEW u \in SUBSET T, u # T
      PROVE  SumsTo(f, h(u), u) /\ IsFiniteSet(u)
  <2>1. \E g : SumsTo(f, g, u)
    BY <1>2, <1>3
  <2>2. QED
    BY <1>2, <2>1, FS_Subset
<1> HIDE DEF h
<1>4. ASSUME NEW u \in SUBSET T, u # T
      PROVE  sum[u] = h(u)[u]
  <2>1. CASE u = {}
    BY <1>3, <2>1 DEF SumsTo
  <2>2. CASE u # {}
    <3> DEFINE v == u \ {Pick(u)}
    <3>1. v \in SUBSET u /\ v \in SUBSET T /\ v # T
      BY <1>4, <2>2, PickIn
    <3>2. h(u)[u] = f[Pick(u)] + h(u)[v]
      BY <1>3, <1>4, <2>2 DEF SumsTo
    <3>3. h(u)[v] = h(v)[v]
      <4> HIDE DEF v
      <4>1. SumsTo(f, h(u), u) /\ IsFiniteSet(u) /\ SumsTo(f, h(v), v)
        BY <1>3, <1>4, <3>1
      <4>2. \A s \in SUBSET v : h(u)[s] = h(v)[s]
        BY <3>1, <4>1, SumsAreUnique
      <4>3. QED
        BY <4>2
    <3>4. sum[u] = f[Pick(u)] + h(v)[v]
      BY <2>2
    <3>5. QED
      BY <3>2, <3>3, <3>4
  <2>3. QED
    BY <2>1, <2>2
<1>5. ASSUME NEW s \in SUBSET T, s # {}
      PROVE  sum[s] = f[Pick(s)] + sum[s \ {Pick(s)}]
  <2>1. s \ {Pick(s)} \in SUBSET T /\ s \ {Pick(s)} # T
    BY <1>5, PickIn
  <2>2. QED
    BY <1>4, <1>5, <2>1
<1>6. SumsTo(f, sum, T)
  <2>1. sum[{}] = 0 /\ sum = [s \in SUBSET T |-> sum[s]]
    OBVIOUS
  <2> HIDE DEF sum
  <2>2. QED
    BY <1>5, <2>1 DEF SumsTo
<1>7. QED
  BY <1>2, <1>6

LEMMA SumUnfolds ==
  ASSUME NEW f, NEW S, IsFiniteSet(S)
  PROVE  /\ SumFunctionOnSet(f, {}) = 0
         /\ S # {} => SumFunctionOnSet(f, S) =
                        f[Pick(S)] + SumFunctionOnSet(f, S \ {Pick(S)})
<1>1. ASSUME NEW T, IsFiniteSet(T)
      PROVE  LET g == CHOOSE g : SumsTo(f, g, T) IN
             SumFunctionOnSet(f, T) = g[T] /\ SumsTo(f, g, T)
  <2>1. \E g : SumsTo(f, g, T)
    BY <1>1, SumsExist
  <2>2. QED
    BY <2>1 DEF SumFunctionOnSet, FoldFunctionOnSet, MapThenFoldSet, SumsTo, Pick
<1>2. SumFunctionOnSet(f, {}) = 0
  BY <1>1, FS_EmptySet DEF SumsTo
<1>3. ASSUME S # {}
      PROVE  SumFunctionOnSet(f, S) = f[Pick(S)] + SumFunctionOnSet(f, S \ {Pick(S)})
  <2> DEFINE T == S \ {Pick(S)}
             g == CHOOSE g : SumsTo(f, g, S)
             h == CHOOSE h : SumsTo(f, h, T)
  <2>1. T \in SUBSET S /\ IsFiniteSet(T)
    BY FS_Subset
  <2>2. SumFunctionOnSet(f, S) = g[S] /\ SumsTo(f, g, S)
    BY <1>1
  <2>3. SumFunctionOnSet(f, T) = h[T] /\ SumsTo(f, h, T)
    BY <1>1, <2>1
  <2>4. g[S] = f[Pick(S)] + g[T]
    BY <1>3, <2>2 DEF SumsTo
  <2> HIDE DEF g, h, T
  <2>5. g[T] = h[T]
    BY <2>1, <2>2, <2>3, SumsAreUnique
  <2>6. QED
    BY <2>2, <2>3, <2>4, <2>5 DEF T
<1>4. QED
  BY <1>2, <1>3

LEMMA SumType ==
  ASSUME NEW D \in {Nat, Int}, NEW f, NEW S, IsFiniteSet(S), \A x \in S : f[x] \in D
  PROVE  SumFunctionOnSet(f, S) \in D
<1> DEFINE Bad == {s \in SUBSET S : SumFunctionOnSet(f, s) \notin D}
<1>1. SUFFICES ASSUME Bad # {} PROVE FALSE
  OBVIOUS
<1>2. PICK T \in Bad : T \subseteq S /\ IsFiniteSet(T) /\ \A u \in Bad : u \subseteq T => u = T
  <2>1. Bad \in SUBSET SUBSET S
    OBVIOUS
  <2> HIDE DEF Bad
  <2>2. QED
    BY <1>1, <2>1, SmallestBreaks
<1>3. SumFunctionOnSet(f, {}) = 0 /\ (T # {} =>
        SumFunctionOnSet(f, T) = f[Pick(T)] + SumFunctionOnSet(f, T \ {Pick(T)}))
  BY <1>2, SumUnfolds
<1>4. 0 \in D /\ \A m, n \in D : m + n \in D
  OBVIOUS
<1>5. T # {}
  <2>1. SumFunctionOnSet(f, {}) \in D
    BY <1>3, <1>4, Zenon
  <2>2. QED
    BY <1>2, <2>1, Zenon
<1>6. Pick(T) \in T /\ SumFunctionOnSet(f, T \ {Pick(T)}) \in D
  BY <1>2, <1>5, PickIn
<1>7. f[Pick(T)] + SumFunctionOnSet(f, T \ {Pick(T)}) \in D
  BY <1>2, <1>4, <1>6
<1>8. QED
  BY <1>2, <1>3, <1>5, <1>7

(* Any element can be taken out of a sum.                                    *)
LEMMA SumTakesOut ==
  ASSUME NEW f, NEW S, IsFiniteSet(S), \A x \in S : f[x] \in Int, NEW x \in S
  PROVE  SumFunctionOnSet(f, S) = f[x] + SumFunctionOnSet(f, S \ {x})
<1> DEFINE Sum(s) == SumFunctionOnSet(f, s)
           Bad == {s \in SUBSET S : \E z \in s : Sum(s) # f[z] + Sum(s \ {z})}
<1>1. SUFFICES ASSUME Bad # {} PROVE FALSE
  OBVIOUS
<1>2. PICK T \in Bad : T \subseteq S /\ IsFiniteSet(T) /\ \A u \in Bad : u \subseteq T => u = T
  <2>1. Bad \in SUBSET SUBSET S
    OBVIOUS
  <2> HIDE DEF Bad
  <2>2. QED
    BY <1>1, <2>1, SmallestBreaks
<1>3. PICK z \in T : Sum(T) # f[z] + Sum(T \ {z})
  BY <1>2
<1> DEFINE y == Pick(T)
<1>4. y \in T /\ Sum(T) = f[y] + Sum(T \ {y})
  BY <1>2, <1>3, PickIn, SumUnfolds
<1>5. y # z
  BY <1>3, <1>4
<1> HIDE DEF y
<1>6. \A u \in SUBSET T : Sum(u) \in Int
  BY <1>2, FS_Subset, SumType
<1> HIDE DEF Sum
<1>7. Sum(T \ {y}) = f[z] + Sum((T \ {y}) \ {z})
  BY <1>2, <1>4, <1>5
<1>8. Sum(T \ {z}) = f[y] + Sum((T \ {z}) \ {y})
  BY <1>2, <1>3, <1>4, <1>5
<1>9. (T \ {z}) \ {y} = (T \ {y}) \ {z} /\ (T \ {z}) \ {y} \in SUBSET T
  OBVIOUS
<1>10. Sum((T \ {z}) \ {y}) \in Int /\ f[y] \in Int /\ f[z] \in Int
  BY <1>2, <1>3, <1>4, <1>6, <1>9
<1>11. Sum((T \ {z}) \ {y}) = Sum((T \ {y}) \ {z})
  BY <1>9
<1> HIDE DEF Bad
<1>12. Sum(T) = f[z] + Sum(T \ {z})
  BY <1>4, <1>7, <1>8, <1>10, <1>11
<1>13. QED
  BY <1>3, <1>12

LEMMA SumOfZeros ==
  ASSUME NEW f, NEW S, IsFiniteSet(S), \A x \in S : f[x] = 0
  PROVE  SumFunctionOnSet(f, S) = 0
<1> DEFINE Bad == {s \in SUBSET S : SumFunctionOnSet(f, s) # 0}
<1>1. SUFFICES ASSUME Bad # {} PROVE FALSE
  OBVIOUS
<1>2. PICK T \in Bad : T \subseteq S /\ IsFiniteSet(T) /\ \A u \in Bad : u \subseteq T => u = T
  <2>1. Bad \in SUBSET SUBSET S
    OBVIOUS
  <2> HIDE DEF Bad
  <2>2. QED
    BY <1>1, <2>1, SmallestBreaks
<1>3. T # {} /\ SumFunctionOnSet(f, T) = f[Pick(T)] + SumFunctionOnSet(f, T \ {Pick(T)})
  BY <1>2, SumUnfolds
<1>4. Pick(T) \in T /\ SumFunctionOnSet(f, T \ {Pick(T)}) = 0
  BY <1>2, <1>3, PickIn
<1>5. QED
  BY <1>2, <1>3, <1>4

(* Functions that agree on a set have the same sum over it.                  *)
LEMMA SumsAgree ==
  ASSUME NEW f, NEW g, NEW S, IsFiniteSet(S), \A x \in S : f[x] = g[x]
  PROVE  SumFunctionOnSet(f, S) = SumFunctionOnSet(g, S)
<1> DEFINE Bad == {s \in SUBSET S : SumFunctionOnSet(f, s) # SumFunctionOnSet(g, s)}
<1>1. SUFFICES ASSUME Bad # {} PROVE FALSE
  OBVIOUS
<1>2. PICK T \in Bad : T \subseteq S /\ IsFiniteSet(T) /\ \A u \in Bad : u \subseteq T => u = T
  <2>1. Bad \in SUBSET SUBSET S
    OBVIOUS
  <2> HIDE DEF Bad
  <2>2. QED
    BY <1>1, <2>1, SmallestBreaks
<1>3. /\ SumFunctionOnSet(f, {}) = 0 /\ SumFunctionOnSet(g, {}) = 0
      /\ T # {} =>
           /\ SumFunctionOnSet(f, T) = f[Pick(T)] + SumFunctionOnSet(f, T \ {Pick(T)})
           /\ SumFunctionOnSet(g, T) = g[Pick(T)] + SumFunctionOnSet(g, T \ {Pick(T)})
  BY <1>2, SumUnfolds
<1>4. T # {}
  BY <1>2, <1>3
<1>5. /\ Pick(T) \in T
      /\ SumFunctionOnSet(f, T \ {Pick(T)}) = SumFunctionOnSet(g, T \ {Pick(T)})
  BY <1>2, <1>4, PickIn
<1>6. QED
  BY <1>2, <1>3, <1>4, <1>5

(* A sum changes by what one of its terms changes.                           *)
LEMMA SumChanges ==
  ASSUME NEW f, NEW g, NEW S, IsFiniteSet(S), NEW x \in S,
         \A z \in S : f[z] \in Int, g[x] \in Int, \A z \in S \ {x} : g[z] = f[z]
  PROVE  SumFunctionOnSet(g, S) = SumFunctionOnSet(f, S) + (g[x] - f[x])
<1>1. SumFunctionOnSet(f, S) = f[x] + SumFunctionOnSet(f, S \ {x})
  BY SumTakesOut
<1>2. SumFunctionOnSet(g, S) = g[x] + SumFunctionOnSet(g, S \ {x})
  <2>1. \A z \in S : g[z] \in Int
    OBVIOUS
  <2>2. QED
    BY <2>1, SumTakesOut
<1>3. IsFiniteSet(S \ {x})
  BY FS_RemoveElement
<1>4. SumFunctionOnSet(f, S \ {x}) = SumFunctionOnSet(g, S \ {x})
  BY <1>3, SumsAgree
<1>5. SumFunctionOnSet(f, S \ {x}) \in Int /\ f[x] \in Int
  BY <1>3, SumType
<1>6. QED
  BY <1>1, <1>2, <1>4, <1>5
===============================================================================
