----------------------------- MODULE SumTheorems -----------------------------
(***************************************************************************)
(* Facts about SumFunctionOnSet, the sum of f[x] over a finite set: the     *)
(* sums of amounts that the models add up; and the maximum of a finite set  *)
(* of naturals.                                                             *)
(***************************************************************************)
EXTENDS Integers, FiniteSets, FiniteSetTheorems, TLAPS

First(s) == CHOOSE x \in s : TRUE

SumStep(f, g, s) == IF s = {} THEN 0 ELSE f[First(s)] + g[s \ {First(s)}]

(* g sums f along a set U of sets that is closed under taking First away.   *)
Sums(f, g, U) ==
    /\ \A s \in U : s # {} => s \ {First(s)} \in U
    /\ \A s \in U : g[s] \in Int /\ g[s] = SumStep(f, g, s)

(* s is in a set that can be summed along.                                  *)
Reached(f, S, s) == \E U \in SUBSET (SUBSET S) : \E g : s \in U /\ Sums(f, g, U)

Total(f, S) == CHOOSE iter : iter = [s \in SUBSET S |-> SumStep(f, iter, s)]

LEMMA SumIsTotal ==
    ASSUME NEW f, NEW S
    PROVE  SumFunctionOnSet(f, S) = Total(f, S)[S]
BY DEF SumFunctionOnSet, FoldFunctionOnSet, MapThenFoldSet, Total, SumStep, First

LEMMA FirstIn == ASSUME NEW s, s # {} PROVE First(s) \in s /\ s \ {First(s)} \subseteq s
BY DEF First

(* Every nonempty set of subsets of a finite set has a smallest one.        *)
LEMMA SmallestSet ==
    ASSUME NEW S, IsFiniteSet(S), NEW T \in SUBSET (SUBSET S), T # {}
    PROVE  \E s \in T : \A t \in T : t \subseteq s => t = s
<1>1. IsWellFoundedOn(StrictSubsetOrdering(S), SUBSET S)
  BY FS_StrictSubsetOrderingWellFounded, FS_FiniteSubsetsOfFinite
<1>2. PICK s \in T : \A t \in T : ~ (<<t, s>> \in StrictSubsetOrdering(S))
  <2> HIDE DEF IsWellFoundedOn, StrictSubsetOrdering
  <2> QED
    BY <1>1, WFMin
<1> QED
  BY <1>2 DEF StrictSubsetOrdering

LEMMA SumsUnique ==
    ASSUME NEW S, IsFiniteSet(S), NEW f, NEW g, NEW h, NEW U \in SUBSET (SUBSET S), NEW V \in SUBSET (SUBSET S),
           Sums(f, g, U), Sums(f, h, V)
    PROVE  \A s \in U \cap V : g[s] = h[s]
<1> DEFINE T == {s \in U \cap V : g[s] # h[s]}
<1> SUFFICES ASSUME T # {} PROVE FALSE
  OBVIOUS
<1>1. T \in SUBSET (SUBSET S)
  OBVIOUS
<1>2. PICK s \in T : \A t \in T : t \subseteq s => t = s
  <2> HIDE DEF T
  <2> QED
    BY <1>1, SmallestSet
<1>3. CASE s = {}
  BY <1>2, <1>3 DEF Sums, SumStep
<1>4. CASE s # {}
  <2>1. s \ {First(s)} # s /\ s \ {First(s)} \subseteq s /\ s \ {First(s)} \in U \cap V
    BY <1>2, <1>4, FirstIn DEF Sums
  <2>2. g[s \ {First(s)}] = h[s \ {First(s)}]
    BY <1>2, <2>1
  <2> QED
    BY <1>2, <1>4, <2>2 DEF Sums, SumStep
<1> QED
  BY <1>3, <1>4

LEMMA SumsExist ==
    ASSUME NEW S, IsFiniteSet(S), NEW f, \A x \in S : f[x] \in Int
    PROVE  \A s \in SUBSET S : Reached(f, S, s)
<1> DEFINE T == {s \in SUBSET S : ~Reached(f, S, s)}
<1> SUFFICES ASSUME T # {} PROVE FALSE
  OBVIOUS
<1>1. T \in SUBSET (SUBSET S)
  OBVIOUS
<1>2. PICK s \in T : \A t \in T : t \subseteq s => t = s
  <2> HIDE DEF T
  <2> QED
    BY <1>1, SmallestSet
<1>3. CASE s = {}
  <2> DEFINE g == [t \in {{}} |-> 0]
  <2>1. Sums(f, g, {{}})
    BY DEF Sums, SumStep
  <2>2. s \in {{}} /\ {{}} \in SUBSET (SUBSET S)
    BY <1>3
  <2>3. Reached(f, S, s)
    <3> HIDE DEF g
    <3> QED
      BY <2>1, <2>2 DEF Reached
  <2> QED
    BY <1>2, <2>3
<1>4. CASE s # {}
  <2> DEFINE r == s \ {First(s)}
  <2>1. r # s /\ r \subseteq s /\ First(s) \in S /\ s \in SUBSET S
    BY <1>2, <1>4, FirstIn
  <2>2. Reached(f, S, r)
    BY <1>2, <2>1
  <2>3. PICK U, g : U \in SUBSET (SUBSET S) /\ r \in U /\ Sums(f, g, U)
    BY <2>2 DEF Reached
  <2>4. s \notin U
    BY <1>2, <2>3 DEF Reached
  <2> DEFINE h == [t \in U \cup {s} |-> IF t = s THEN f[First(s)] + g[r] ELSE g[t]]
             W == U \cup {s}
  <2>5. \A t \in W : t # {} => t \ {First(t)} \in W
    BY <2>3 DEF Sums
  <2>6. \A t \in U : h[t] = g[t]
    BY <2>4
  <2>7. h[s] = SumStep(f, h, s) /\ h[s] \in Int
    <3>1. h[s] = f[First(s)] + g[r] /\ h[r] = g[r] /\ g[r] \in Int /\ f[First(s)] \in Int
      BY <2>1, <2>3, <2>6 DEF Sums
    <3> HIDE DEF h
    <3> QED
      BY <1>4, <3>1 DEF SumStep
  <2>8. \A t \in U : h[t] = SumStep(f, h, t) /\ h[t] \in Int
    <3> HIDE DEF h
    <3> QED
      BY <2>3, <2>6 DEF Sums, SumStep
  <2>9. Sums(f, h, W)
    <3> HIDE DEF h
    <3> QED
      BY <2>5, <2>7, <2>8 DEF Sums
  <2>10. s \in W /\ W \in SUBSET (SUBSET S)
    BY <2>1, <2>3
  <2>11. Reached(f, S, s)
    <3> HIDE DEF h, W
    <3> QED
      BY <2>9, <2>10 DEF Reached
  <2> QED
    BY <1>2, <2>11
<1> QED
  BY <1>3, <1>4

(* The recursive function behind the sum is one, and it sums.               *)
LEMMA TotalSums ==
    ASSUME NEW S, IsFiniteSet(S), NEW f, \A x \in S : f[x] \in Int
    PROVE  Sums(f, Total(f, S), SUBSET S)
<1>0. \A s \in SUBSET S : Reached(f, S, s)
  BY SumsExist
<1> DEFINE IsSum(s, v) == \E U \in SUBSET (SUBSET S) : \E g : s \in U /\ Sums(f, g, U) /\ v = g[s]
           value(s) == CHOOSE v : IsSum(s, v)
           G == [s \in SUBSET S |-> value(s)]
<1>1. ASSUME NEW s \in SUBSET S, NEW U \in SUBSET (SUBSET S), NEW g, s \in U, Sums(f, g, U)
      PROVE  G[s] = g[s]
  <2>1. IsSum(s, g[s])
    BY <1>1
  <2>2. IsSum(s, G[s])
    <3> HIDE DEF IsSum
    <3> QED
      BY <2>1
  <2>3. PICK V, h : V \in SUBSET (SUBSET S) /\ s \in V /\ Sums(f, h, V) /\ G[s] = h[s]
    <3> HIDE DEF G
    <3> QED
      BY <2>2
  <2>4. g[s] = h[s]
    <3> HIDE DEF G, IsSum
    <3> QED
      BY <1>1, <2>3, SumsUnique
  <2> QED
    BY <2>3, <2>4
<1>2. ASSUME NEW s \in SUBSET S PROVE G[s] = SumStep(f, G, s) /\ G[s] \in Int
  <2>0. PICK U \in SUBSET (SUBSET S) : \E g : s \in U /\ Sums(f, g, U)
    BY <1>0 DEF Reached
  <2>1. PICK g : s \in U /\ Sums(f, g, U)
    BY <2>0
  <2>2. G[s] = g[s] /\ g[s] = SumStep(f, g, s) /\ g[s] \in Int
    <3> HIDE DEF G
    <3> QED
      BY <1>1, <2>1 DEF Sums
  <2>3. CASE s = {}
    <3> HIDE DEF G
    <3> QED
      BY <2>2, <2>3 DEF SumStep
  <2>4. CASE s # {}
    <3>1. s \ {First(s)} \in U /\ s \ {First(s)} \in SUBSET S
      BY <2>1, <2>4 DEF Sums
    <3>2. G[s \ {First(s)}] = g[s \ {First(s)}]
      <4> HIDE DEF G
      <4> QED
        BY <1>1, <2>1, <3>1
    <3> HIDE DEF G
    <3> QED
      BY <2>2, <2>4, <3>2 DEF SumStep
  <2> QED
    BY <2>3, <2>4
<1>3. G = [s \in SUBSET S |-> SumStep(f, G, s)]
  <2>1. \A s \in SUBSET S : G[s] = SumStep(f, G, s)
    BY <1>2
  <2>2. G = [s \in SUBSET S |-> G[s]]
    <3> HIDE DEF value
    <3> QED
      OBVIOUS
  <2> HIDE DEF G
  <2> QED
    BY <2>1, <2>2
<1> DEFINE I == Total(f, S)
<1>4. I = [s \in SUBSET S |-> SumStep(f, I, s)]
  <2> HIDE DEF G
  <2> QED
    BY <1>3 DEF Total
<1> HIDE DEF G, I
<1>5. \A s \in SUBSET S : I[s] = SumStep(f, I, s)
  BY <1>4
<1>6. \A s \in SUBSET S : I[s] \in Int
  <2> DEFINE T == {s \in SUBSET S : I[s] \notin Int}
  <2> SUFFICES ASSUME T # {} PROVE FALSE
    OBVIOUS
  <2>1. T \in SUBSET (SUBSET S)
    OBVIOUS
  <2>2. PICK s \in T : \A t \in T : t \subseteq s => t = s
    <3> HIDE DEF T
    <3> QED
      BY <2>1, SmallestSet
  <2>3. CASE s = {}
    <3>1. I[s] = 0
      BY <1>5, <2>2, <2>3 DEF SumStep
    <3> QED
      BY <2>2, <3>1
  <2>4. CASE s # {}
    <3>1. s \ {First(s)} # s /\ s \ {First(s)} \subseteq s /\ First(s) \in S /\ s \ {First(s)} \in SUBSET S
      BY <2>2, <2>4, FirstIn
    <3>2. I[s \ {First(s)}] \in Int
      BY <2>2, <3>1
    <3>3. I[s] = f[First(s)] + I[s \ {First(s)}] /\ f[First(s)] \in Int
      BY <1>5, <2>2, <2>4, <3>1 DEF SumStep
    <3> QED
      BY <2>2, <3>2, <3>3
  <2> QED
    BY <2>3, <2>4
<1>7. \A s \in SUBSET S : s # {} => s \ {First(s)} \in SUBSET S
  OBVIOUS
<1> QED
  BY <1>5, <1>6, <1>7 DEF Sums, I

LEMMA SumOfPart ==
    ASSUME NEW S, IsFiniteSet(S), NEW f, \A x \in S : f[x] \in Int, NEW T \in SUBSET S
    PROVE  SumFunctionOnSet(f, T) = Total(f, S)[T]
<1>1. IsFiniteSet(T) /\ \A x \in T : f[x] \in Int
  BY FS_Subset
<1> DEFINE g == Total(f, T)  h == Total(f, S)  U == SUBSET T  V == SUBSET S
<1>2. Sums(f, g, U)
  BY <1>1, TotalSums
<1>3. Sums(f, h, V)
  BY TotalSums
<1>4. U \in SUBSET (SUBSET S) /\ V \in SUBSET (SUBSET S) /\ T \in U \cap V
  OBVIOUS
<1> HIDE DEF g, h, U, V
<1>5. g[T] = h[T]
  BY <1>2, <1>3, <1>4, SumsUnique
<1> QED
  BY <1>5, SumIsTotal DEF g, h

-----------------------------------------------------------------------------
(* What the proofs use.                                                     *)
(* Nothing sums to nothing.                                                 *)
THEOREM SumEmpty == ASSUME NEW f PROVE SumFunctionOnSet(f, {}) = 0
<1>1. IsFiniteSet({}) /\ \A x \in {} : f[x] \in Int
  BY FS_EmptySet
<1>2. Sums(f, Total(f, {}), SUBSET {})
  BY <1>1, TotalSums
<1> QED
  BY <1>2, SumIsTotal DEF Sums, SumStep

(* A sum of integers is one.                                                *)
THEOREM SumInt ==
    ASSUME NEW S, IsFiniteSet(S), NEW f, \A x \in S : f[x] \in Int
    PROVE  SumFunctionOnSet(f, S) \in Int
BY TotalSums, SumIsTotal DEF Sums

LEMMA SumFirst ==
    ASSUME NEW S, IsFiniteSet(S), NEW f, \A x \in S : f[x] \in Int, NEW T \in SUBSET S, T # {}
    PROVE  SumFunctionOnSet(f, T) = f[First(T)] + SumFunctionOnSet(f, T \ {First(T)})
<1>1. SumFunctionOnSet(f, T) = Total(f, S)[T]
  BY SumOfPart
<1>2. T \ {First(T)} \in SUBSET S
  OBVIOUS
<1>3. SumFunctionOnSet(f, T \ {First(T)}) = Total(f, S)[T \ {First(T)}]
  BY <1>2, SumOfPart
<1>4. Sums(f, Total(f, S), SUBSET S)
  BY TotalSums
<1> QED
  BY <1>1, <1>3, <1>4 DEF Sums, SumStep

(* Any element may be summed last.                                          *)
THEOREM SumRemove ==
    ASSUME NEW S, IsFiniteSet(S), NEW f, \A x \in S : f[x] \in Int, NEW x \in S
    PROVE  SumFunctionOnSet(f, S) = f[x] + SumFunctionOnSet(f, S \ {x})
<1> DEFINE Sum(T) == SumFunctionOnSet(f, T)
           Splits(T) == \A y \in T : Sum(T) = f[y] + Sum(T \ {y})
           Bad == {T \in SUBSET S : ~Splits(T)}
<1>0. \A T \in SUBSET S : Sum(T) \in Int
  <2> TAKE T \in SUBSET S
  <2>1. IsFiniteSet(T) /\ \A y \in T : f[y] \in Int
    BY FS_Subset
  <2> QED
    BY <2>1, SumInt
<1>1. \A T \in SUBSET S : T # {} => Sum(T) = f[First(T)] + Sum(T \ {First(T)})
  BY SumFirst
<1> HIDE DEF Sum
<1>2. ASSUME Bad # {} PROVE FALSE
  <2>1. Bad \in SUBSET (SUBSET S)
    OBVIOUS
  <2>2. PICK T \in Bad : \A t \in Bad : t \subseteq T => t = T
    <3> HIDE DEF Bad
    <3> QED
      BY <1>2, <2>1, SmallestSet
  <2>3. PICK y \in T : Sum(T) # f[y] + Sum(T \ {y})
    BY <2>2
  <2> DEFINE c == First(T)
  <2>4. c \in T /\ T \in SUBSET S
    BY <2>2, <2>3, FirstIn
  <2> HIDE DEF c
  <2>5. Sum(T) = f[c] + Sum(T \ {c})
    BY <1>1, <2>3, <2>4 DEF c
  <2>6. c # y
    BY <2>3, <2>5
  <2>7. Splits(T \ {c}) /\ Splits(T \ {y})
    BY <2>2, <2>3, <2>4
  <2>8. Sum(T \ {c}) = f[y] + Sum((T \ {c}) \ {y})
    BY <2>3, <2>6, <2>7
  <2>9. Sum(T \ {y}) = f[c] + Sum((T \ {y}) \ {c})
    BY <2>4, <2>6, <2>7
  <2>10. (T \ {c}) \ {y} = (T \ {y}) \ {c}
    OBVIOUS
  <2> DEFINE a == f[c]  b == f[y]  rest == Sum((T \ {c}) \ {y})
  <2>11. a \in Int /\ b \in Int /\ rest \in Int
    BY <1>0, <2>3, <2>4
  <2>12. Sum(T) = a + Sum(T \ {c}) /\ Sum(T \ {c}) = b + rest /\ Sum(T \ {y}) = a + rest
    BY <2>5, <2>8, <2>9, <2>10
  <2>13. Sum(T) # b + Sum(T \ {y})
    BY <2>3
  <2> HIDE DEF a, b, rest
  <2> QED
    BY <2>11, <2>12, <2>13
<1>3. Splits(S)
  BY <1>2
<1> QED
  BY <1>3 DEF Sum

(* One more element.                                                        *)
THEOREM SumAdd ==
    ASSUME NEW S, IsFiniteSet(S), NEW x, NEW f, \A y \in S \cup {x} : f[y] \in Int, x \notin S
    PROVE  SumFunctionOnSet(f, S \cup {x}) = SumFunctionOnSet(f, S) + f[x]
<1> DEFINE R == S \cup {x}
<1>1. IsFiniteSet(R) /\ x \in R /\ R \ {x} = S /\ \A y \in R : f[y] \in Int
  BY FS_AddElement
<1>2. SumFunctionOnSet(f, S) \in Int /\ f[x] \in Int
  BY SumInt
<1> HIDE DEF R
<1>3. SumFunctionOnSet(f, R) = f[x] + SumFunctionOnSet(f, R \ {x})
  BY <1>1, SumRemove
<1>4. SumFunctionOnSet(f, R) = SumFunctionOnSet(f, S) + f[x]
  <2> DEFINE a == f[x]  s == SumFunctionOnSet(f, S)
  <2>1. SumFunctionOnSet(f, R) = a + s
    BY <1>1, <1>3
  <2>2. a \in Int /\ s \in Int
    BY <1>2
  <2> HIDE DEF a, s
  <2>3. SumFunctionOnSet(f, R) = s + a
    BY <2>1, <2>2
  <2> QED
    BY <2>3 DEF a, s
<1> QED
  BY <1>4 DEF R

(* Smaller summands have a smaller sum.                                     *)
THEOREM SumLeq ==
    ASSUME NEW S, IsFiniteSet(S), NEW f, NEW g,
           \A x \in S : f[x] \in Int /\ g[x] \in Int /\ f[x] <= g[x]
    PROVE  SumFunctionOnSet(f, S) <= SumFunctionOnSet(g, S)
<1> DEFINE F(T) == SumFunctionOnSet(f, T)
           G(T) == SumFunctionOnSet(g, T)
           Bad == {T \in SUBSET S : ~(F(T) <= G(T))}
<1>0. \A T \in SUBSET S : F(T) \in Int /\ G(T) \in Int
  <2> TAKE T \in SUBSET S
  <2>1. IsFiniteSet(T) /\ (\A y \in T : f[y] \in Int) /\ (\A y \in T : g[y] \in Int)
    BY FS_Subset
  <2> QED
    BY <2>1, SumInt
<1>1. \A T \in SUBSET S : T # {} => F(T) = f[First(T)] + F(T \ {First(T)}) /\ G(T) = g[First(T)] + G(T \ {First(T)})
  <2>1. (\A y \in S : f[y] \in Int) /\ (\A y \in S : g[y] \in Int)
    OBVIOUS
  <2> QED
    BY <2>1, SumFirst
<1>2. F({}) = 0 /\ G({}) = 0
  BY SumEmpty
<1> HIDE DEF F, G
<1>3. ASSUME Bad # {} PROVE FALSE
  <2>1. Bad \in SUBSET (SUBSET S)
    OBVIOUS
  <2>2. PICK T \in Bad : \A t \in Bad : t \subseteq T => t = T
    <3> HIDE DEF Bad
    <3> QED
      BY <1>3, <2>1, SmallestSet
  <2>3. T # {} /\ T \in SUBSET S /\ ~(F(T) <= G(T))
    <3>1. T = {} => F(T) = 0 /\ G(T) = 0
      BY <1>2
    <3>2. T \in SUBSET S /\ ~(F(T) <= G(T))
      BY <2>2
    <3> QED
      BY <3>1, <3>2
  <2> DEFINE c == First(T)  R == T \ {c}
  <2>4. c \in T /\ R # T /\ R \subseteq T
    BY <2>3, FirstIn
  <2>5. F(T) = f[c] + F(R) /\ G(T) = g[c] + G(R)
    BY <1>1, <2>3
  <2> HIDE DEF c, R
  <2>6. F(R) <= G(R)
    BY <2>2, <2>3, <2>4
  <2>7. f[c] <= g[c] /\ {f[c], g[c], F(R), G(R)} \subseteq Int
    BY <1>0, <2>3, <2>4
  <2> QED
    BY <2>3, <2>5, <2>6, <2>7
<1>4. F(S) <= G(S)
  BY <1>3
<1> QED
  BY <1>4 DEF F, G

(* Functions that agree have one sum.                                       *)
THEOREM SumSame ==
    ASSUME NEW S, IsFiniteSet(S), NEW f, NEW g, \A x \in S : f[x] \in Int /\ g[x] = f[x]
    PROVE  SumFunctionOnSet(g, S) = SumFunctionOnSet(f, S)
<1> DEFINE F == SumFunctionOnSet(f, S)  G == SumFunctionOnSet(g, S)
<1>1. (\A x \in S : f[x] \in Int) /\ (\A x \in S : g[x] \in Int)
  OBVIOUS
<1>2. F \in Int /\ G \in Int
  BY <1>1, SumInt
<1>3. F <= G
  BY <1>1, SumLeq
<1>4. G <= F
  BY <1>1, SumLeq
<1> HIDE DEF F, G
<1>5. F = G
  BY <1>2, <1>3, <1>4
<1> QED
  BY <1>5 DEF F, G

(* One summand changes.                                                     *)
THEOREM SumChange ==
    ASSUME NEW S, IsFiniteSet(S), NEW x \in S, NEW f, NEW g,
           \A y \in S : f[y] \in Int /\ g[y] \in Int, \A y \in S \ {x} : g[y] = f[y]
    PROVE  SumFunctionOnSet(g, S) = SumFunctionOnSet(f, S) + g[x] - f[x]
<1> DEFINE R == S \ {x}
<1>1. IsFiniteSet(R) /\ (\A y \in R : f[y] \in Int /\ g[y] = f[y]) /\ (\A y \in R : f[y] \in Int)
  BY FS_RemoveElement
<1>2. SumFunctionOnSet(g, R) = SumFunctionOnSet(f, R) /\ SumFunctionOnSet(f, R) \in Int
  BY <1>1, SumSame, SumInt
<1>3. (\A y \in S : f[y] \in Int) /\ (\A y \in S : g[y] \in Int)
  OBVIOUS
<1>4. SumFunctionOnSet(g, S) = g[x] + SumFunctionOnSet(g, R) /\ SumFunctionOnSet(f, S) = f[x] + SumFunctionOnSet(f, R)
  BY <1>3, SumRemove
<1> QED
  BY <1>2, <1>3, <1>4

(* Zeros sum to zero.                                                       *)
THEOREM SumZero ==
    ASSUME NEW S, IsFiniteSet(S), NEW f, \A x \in S : f[x] = 0
    PROVE  SumFunctionOnSet(f, S) = 0
<1> DEFINE Bad == {T \in SUBSET S : SumFunctionOnSet(f, T) # 0}
<1>1. \A x \in S : f[x] \in Int
  OBVIOUS
<1>2. ASSUME Bad # {} PROVE FALSE
  <2>1. Bad \in SUBSET (SUBSET S)
    OBVIOUS
  <2>2. PICK s \in Bad : \A t \in Bad : t \subseteq s => t = s
    <3> HIDE DEF Bad
    <3> QED
      BY <1>2, <2>1, SmallestSet
  <2>3. s # {} /\ s \in SUBSET S
    BY <2>2, SumEmpty
  <2>4. First(s) \in s /\ s \ {First(s)} \subseteq s /\ s \ {First(s)} # s
    BY <2>3, FirstIn
  <2>5. SumFunctionOnSet(f, s) = f[First(s)] + SumFunctionOnSet(f, s \ {First(s)})
    BY <1>1, <2>3, SumFirst
  <2>6. f[First(s)] = 0 /\ SumFunctionOnSet(f, s \ {First(s)}) = 0
    BY <2>2, <2>3, <2>4
  <2> QED
    BY <2>2, <2>5, <2>6
<1> QED
  BY <1>2

(* Sums of natural numbers.                                                 *)
THEOREM SumNat ==
    ASSUME NEW S, IsFiniteSet(S), NEW f, \A x \in S : f[x] \in Nat
    PROVE  SumFunctionOnSet(f, S) \in Nat /\ \A x \in S : f[x] <= SumFunctionOnSet(f, S)
<1>1. ASSUME NEW T \in SUBSET S PROVE SumFunctionOnSet(f, T) \in Nat
  <2> DEFINE zero == [x \in T |-> 0]
  <2>1. IsFiniteSet(T) /\ (\A y \in T : f[y] \in Int) /\ (\A y \in T : zero[y] = 0)
        /\ (\A y \in T : zero[y] \in Int /\ f[y] \in Int /\ zero[y] <= f[y])
    BY FS_Subset
  <2> HIDE DEF zero
  <2>2. SumFunctionOnSet(zero, T) <= SumFunctionOnSet(f, T) /\ SumFunctionOnSet(f, T) \in Int
    BY <2>1, SumLeq, SumInt
  <2>3. SumFunctionOnSet(zero, T) = 0
    BY <2>1, SumZero
  <2> QED
    BY <2>2, <2>3
<1>2. ASSUME NEW x \in S PROVE f[x] <= SumFunctionOnSet(f, S)
  <2>1. SumFunctionOnSet(f, S \ {x}) \in Nat
    BY <1>1
  <2>2. \A y \in S : f[y] \in Int
    OBVIOUS
  <2>3. SumFunctionOnSet(f, S) = f[x] + SumFunctionOnSet(f, S \ {x})
    BY <2>2, SumRemove
  <2> QED
    BY <2>1, <2>2, <2>3
<1> QED
  BY <1>1, <1>2

-----------------------------------------------------------------------------
(* A finite set of naturals that is not empty has a greatest element.       *)
THEOREM FiniteMax ==
    ASSUME NEW S \in SUBSET Nat, IsFiniteSet(S), S # {}
    PROVE  \E n \in S : \A m \in S : m <= n
<1> DEFINE Above(n) == {x \in S : x >= n}
           T == {t \in SUBSET S : \E n \in S : t = Above(n)}
<1>1. IsWellFoundedOn(StrictSubsetOrdering(S), SUBSET S)
  BY FS_StrictSubsetOrderingWellFounded, FS_FiniteSubsetsOfFinite
<1>2. T \subseteq SUBSET S /\ T # {}
  <2>1. \A n \in S : Above(n) \in SUBSET S
    OBVIOUS
  <2>2. \A n \in S : Above(n) \in T
    BY <2>1
  <2>3. T # {}
    <3> HIDE DEF T, Above
    <3> QED BY <2>2
  <2> QED BY <2>3
<1>3. PICK s \in T : \A t \in T : ~ (<<t, s>> \in StrictSubsetOrdering(S))
  <2> HIDE DEF T, IsWellFoundedOn, StrictSubsetOrdering
  <2> QED BY <1>1, <1>2, WFMin, ZenonT(30)
<1>4. PICK n \in S : s = Above(n)
  OBVIOUS
<1>5. ASSUME NEW m \in S, m > n PROVE FALSE
  <2>0. n \in Nat /\ m \in Nat
    OBVIOUS
  <2>1. Above(m) \subseteq Above(n) /\ n \in Above(n) /\ n \notin Above(m)
    <3>1. \A x \in S : x \in Nat
      OBVIOUS
    <3>2. \A x \in S : x >= m => x >= n
      BY <1>5, <2>0, <3>1
    <3>3. n >= n /\ ~(n >= m)
      BY <1>5, <2>0
    <3> QED BY <3>2, <3>3
  <2>2. Above(m) \in T
    OBVIOUS
  <2>3. <<Above(m), s>> \in StrictSubsetOrdering(S)
    <3> HIDE DEF Above, T
    <3> QED BY <1>2, <1>3, <1>4, <2>1, <2>2 DEF StrictSubsetOrdering
  <2> QED BY <1>3, <2>2, <2>3
<1> QED
  BY <1>5
=============================================================================
